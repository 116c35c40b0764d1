---------------------------- MODULE DeliveryProofs -----------------------------
(* Theorems about HecForwarder, for any number of feeds, passes, keys and  *)
(* faults, and about Webhooks, for any alerts, drains and attempt limit.   *)
EXTENDS HecForwarder, Webhooks, FiniteSetTheorems, TLAPS

PassStates ==
    [todo : SUBSET Feeds, pc : {"idle", "cursor", "query", "post", "store"},
     from : {0} \cup Keys, rows : SUBSET Keys, rest : SUBSET Keys]

\* Pass p is at feed f and has read its cursor.
Reads(p, f) == At(p, f, "query") \/ At(p, f, "post") \/ At(p, f, "store")

\* And its rows.
HasRows(p, f) == At(p, f, "post") \/ At(p, f, "store")

(***************************************************************************)
(* Types.                                                                  *)
(***************************************************************************)

LEMMA PassFields ==
  ASSUME NEW x \in PassStates
  PROVE  /\ x.todo \in SUBSET Feeds /\ x.from \in {0} \cup Keys
         /\ x.pc \in {"idle", "cursor", "query", "post", "store"}
         /\ x.rows \in SUBSET Keys /\ x.rest \in SUBSET Keys
BY DEF PassStates

LEMMA NoPassType == NoPass \in PassStates /\ NoPass.pc = "idle"
BY DEF NoPass, PassStates

LEMMA LeaveType ==
  ASSUME NEW p \in Passes, NEW f \in Feeds, pass[p] \in PassStates
  PROVE  /\ LeaveFeed(p, f) \in PassStates
         /\ LeaveFeed(p, f).pc \in {"idle", "cursor"}
<1>1. pass[p].todo \ {f} \in SUBSET Feeds BY PassFields
<1> QED BY <1>1 DEF LeaveFeed, NoPass, PassStates

\* A page and a slice are cut from what they are taken of.
LEMMA FirstIsPart == \A n, S : First(n, S) \subseteq S
BY DEF First

LEMMA TablesType == ASSUME HecTypeOK, Tables PROVE HecTypeOK'
<1> PICK f \in Feeds, k \in Keys :
       Insert(f, k) \/ (\E old \in Keys : Touch(f, old, k)) \/ CommitRow(f, k) \/ Abort(f, k) \/ Purge(f, k)
  BY DEF Tables
<1> DEFINE States == {"none", "open", "seen", "gone"}
<1>1. CASE Insert(f, k) BY <1>1 DEF HecTypeOK, Insert
<1>2. ASSUME NEW old \in Keys, Touch(f, old, k) PROVE HecTypeOK'
  BY <1>2 DEF HecTypeOK, Touch
<1>3. CASE CommitRow(f, k)
  <2> DEFINE old == movedFrom[f][k]
  <2>1. row' \in [Feeds -> [Keys -> States]]
    <3>1. [j \in Keys |-> IF j = k THEN "seen" ELSE IF j = old THEN "gone" ELSE row[f][j]] \in [Keys -> States]
      BY DEF HecTypeOK
    <3> QED BY <1>3, <3>1 DEF HecTypeOK, CommitRow
  <2>2. movedFrom' \in [Feeds -> [Keys -> {0} \cup Keys]]
    BY <1>3 DEF HecTypeOK, CommitRow
  <2>3. received' \in [Feeds -> SUBSET Keys]
    BY <1>3 DEF HecTypeOK, CommitRow
  <2>4. late' \in [Feeds -> SUBSET Keys]
    BY <1>3 DEF HecTypeOK, CommitRow
  <2> QED BY <1>3, <2>1, <2>2, <2>3, <2>4 DEF HecTypeOK, CommitRow
<1>4. CASE Abort(f, k) BY <1>4 DEF HecTypeOK, Abort
<1>5. CASE Purge(f, k)
  <2>1. received' \in [Feeds -> SUBSET Keys] /\ late' \in [Feeds -> SUBSET Keys]
    BY <1>5 DEF HecTypeOK, Purge
  <2>2. row' \in [Feeds -> [Keys -> States]] BY <1>5 DEF HecTypeOK, Purge
  <2> QED BY <1>5, <2>1, <2>2 DEF HecTypeOK, Purge
<1> QED BY <1>1, <1>2, <1>3, <1>4, <1>5

\* What an action does to one pass, and that the others stay as they are.
LEMMA PassUpdate ==
  ASSUME HecTypeOK, NEW p \in Passes, NEW x \in PassStates,
         x.pc \in {"post", "store"} => x.rows # {},
         pass' = [pass EXCEPT ![p] = x]
  PROVE  /\ pass' \in [Passes -> PassStates]
         /\ \A q \in Passes : pass'[q].pc \in {"post", "store"} => pass'[q].rows # {}
BY DEF HecTypeOK, PassStates

LEMMA TakesType ==
  ASSUME HecTypeOK, NEW f \in Feeds, NEW keys \in SUBSET Keys, Takes(f, keys)
  PROVE  received' \in [Feeds -> SUBSET Keys] /\ again' \in SUBSET Feeds
<1>1. received' \in [Feeds -> SUBSET Keys] BY DEF HecTypeOK, Takes
<1>2. again' \in SUBSET Feeds BY DEF HecTypeOK, Takes
<1> QED BY <1>1, <1>2

LEMMA SliceType ==
  ASSUME NEW p \in Passes, pass[p] \in PassStates
  PROVE  Slice(p) \in SUBSET Keys /\ Slice(p) \subseteq pass[p].rest
<1>1. Slice(p) \subseteq pass[p].rest BY FirstIsPart DEF Slice
<1> QED BY <1>1, PassFields

LEMMA PassType == ASSUME HecTypeOK, NEW p \in Passes, NEW f \in Feeds,
                         ReadCursor(p, f) \/ QueryRows(p, f) \/ PostSlice(p, f) \/ StoreCursor(p, f)
                  PROVE  HecTypeOK'
<1>p. pass[p] \in PassStates /\ pass \in [Passes -> PassStates] BY DEF HecTypeOK, PassStates
<1> DEFINE ok(x) == x \in PassStates /\ (x.pc \in {"post", "store"} => x.rows # {})
<1>u. ASSUME NEW x, ok(x), pass' = [pass EXCEPT ![p] = x]
      PROVE  /\ pass' \in [Passes -> PassStates]
             /\ \A q \in Passes : pass'[q].pc \in {"post", "store"} => pass'[q].rows # {}
  BY <1>u, PassUpdate
<1>l. ok(LeaveFeed(p, f)) BY <1>p, LeaveType
<1>1. CASE ReadCursor(p, f)
  <2> DEFINE x == [pass[p] EXCEPT !.pc = "query", !.from = cursor[f]]
  <2>1. ok(x) BY <1>p DEF PassStates, HecTypeOK
  <2>2. pass' = [pass EXCEPT ![p] = x] BY <1>1, <1>p DEF ReadCursor, PassStates
  <2>3. cause' \in SUBSET Feeds BY <1>1 DEF HecTypeOK, ReadCursor
  <2> QED BY <1>1, <1>u, <2>1, <2>2, <2>3 DEF HecTypeOK, PassStates, ReadCursor
<1>2. CASE QueryRows(p, f)
  <2> DEFINE rows == First(RowsPerTick, Ahead(f, pass[p].from))
             x == [pass[p] EXCEPT !.pc = "post", !.rows = rows, !.rest = rows]
  <2>1. rows \in SUBSET Keys BY FirstIsPart DEF Ahead
  <2>2. CASE rows = {}
    <3>1. pass' = [pass EXCEPT ![p] = LeaveFeed(p, f)] BY <1>2, <2>2 DEF QueryRows
    <3> QED BY <1>2, <1>u, <1>l, <3>1 DEF HecTypeOK, PassStates, QueryRows
  <2>3. CASE rows # {}
    <3>1. pass' = [pass EXCEPT ![p] = x] BY <1>2, <2>3 DEF QueryRows
    <3>2. ok(x) BY <1>p, <2>1, <2>3 DEF PassStates
    <3> QED BY <1>2, <1>u, <3>1, <3>2 DEF HecTypeOK, PassStates, QueryRows
  <2> QED BY <2>2, <2>3
<1>3. CASE PostSlice(p, f)
  <2> DEFINE rest == pass[p].rest \ Slice(p)
             x == [pass[p] EXCEPT !.rest = rest, !.pc = IF rest = {} THEN "store" ELSE "post"]
  <2>1. pass' = [pass EXCEPT ![p] = x] BY <1>3, <1>p DEF PostSlice, PassStates
  <2>2. pass[p].rows # {} BY <1>3 DEF HecTypeOK, PostSlice, At
  <2>3. ok(x) BY <1>p, <2>2 DEF PassStates
  <2>4. received' \in [Feeds -> SUBSET Keys] /\ again' \in SUBSET Feeds
    BY <1>3, <1>p, SliceType, TakesType DEF PostSlice
  <2> QED BY <1>3, <1>u, <2>1, <2>3, <2>4 DEF HecTypeOK, PassStates, PostSlice
<1>4. CASE StoreCursor(p, f)
  <2>1. pass' = [pass EXCEPT ![p] = LeaveFeed(p, f)] BY <1>4 DEF StoreCursor
  <2>2. cursor' \in [Feeds -> {0} \cup Keys] BY <1>4, <1>p, PassFields DEF HecTypeOK, StoreCursor
  <2> QED BY <1>4, <1>u, <1>l, <2>1, <2>2 DEF HecTypeOK, PassStates, StoreCursor
<1> QED BY <1>1, <1>2, <1>3, <1>4

LEMMA FaultsType ==
  ASSUME HecTypeOK, hecFaults < MaxHecFaults, hecFaults' = hecFaults + 1
  PROVE  hecFaults' \in 0 .. MaxHecFaults
BY HecAssumption DEF HecTypeOK

LEMMA OthersType ==
  ASSUME HecTypeOK,
         \/ \E p \in Passes : StartPass(p) \/ (\E f \in Feeds : PostFails(p, f))
         \/ \E on \in SUBSET Feeds : SetHecSettings(on)
         \/ HecRestart
  PROVE  HecTypeOK'
<1>1. ASSUME NEW p \in Passes, StartPass(p) PROVE HecTypeOK'
  <2> DEFINE x == [NoPass EXCEPT !.todo = hecOn, !.pc = "cursor"]
  <2>1. x \in PassStates /\ x.pc = "cursor" BY DEF HecTypeOK, NoPass, PassStates
  <2>2. /\ pass' \in [Passes -> PassStates]
        /\ \A q \in Passes : pass'[q].pc \in {"post", "store"} => pass'[q].rows # {}
    BY <1>1, <2>1, PassUpdate DEF StartPass
  <2> QED BY <1>1, <2>2 DEF HecTypeOK, PassStates, StartPass
<1>2. ASSUME NEW p \in Passes, NEW f \in Feeds, PostFails(p, f) PROVE HecTypeOK'
  <2>1. pass[p] \in PassStates BY DEF HecTypeOK, PassStates
  <2>2. /\ pass' \in [Passes -> PassStates]
        /\ \A q \in Passes : pass'[q].pc \in {"post", "store"} => pass'[q].rows # {}
    BY <1>2, <2>1, LeaveType, PassUpdate DEF PostFails
  <2>3. received' \in [Feeds -> SUBSET Keys] /\ again' \in SUBSET Feeds
    <3>1. CASE UNCHANGED <<received, again>> BY <3>1 DEF HecTypeOK
    <3>2. CASE Takes(f, Slice(p)) BY <3>2, <2>1, SliceType, TakesType
    <3> QED BY <1>2, <3>1, <3>2 DEF PostFails
  <2>4. hecFaults' \in 0 .. MaxHecFaults BY <1>2, FaultsType DEF PostFails
  <2> QED BY <1>2, <2>2, <2>3, <2>4 DEF HecTypeOK, PassStates, PostFails
<1>3. ASSUME NEW on \in SUBSET Feeds, SetHecSettings(on) PROVE HecTypeOK'
  BY <1>3, FaultsType DEF HecTypeOK, SetHecSettings
<1>4. CASE HecRestart
  <2>1. hecFaults' \in 0 .. MaxHecFaults BY <1>4, FaultsType DEF HecRestart
  <2>2. pass' \in [Passes -> PassStates] /\ \A q \in Passes : pass'[q].pc = "idle"
    BY <1>4, NoPassType DEF HecRestart
  <2>3. cause' \in SUBSET Feeds BY <1>4 DEF HecTypeOK, HecRestart
  <2> QED BY <1>4, <2>1, <2>2, <2>3 DEF HecTypeOK, PassStates, HecRestart
<1> QED BY <1>1, <1>2, <1>3, <1>4

LEMMA TypeStep == HecTypeOK /\ [HecNext]_hecVars => HecTypeOK'
<1> SUFFICES ASSUME HecTypeOK, [HecNext]_hecVars PROVE HecTypeOK' OBVIOUS
<1>1. CASE UNCHANGED hecVars BY <1>1 DEF HecTypeOK, hecVars
<1>2. ASSUME NEW p \in Passes, PassStep(p) PROVE HecTypeOK' BY <1>2, PassType DEF PassStep
<1> QED BY <1>1, <1>2, TablesType, OthersType DEF HecNext

LEMMA TypeInit == HecInit => HecTypeOK
BY NoPassType, HecAssumption DEF HecInit, HecTypeOK, PassStates

(***************************************************************************)
(* What a step does to the passes.                                         *)
(***************************************************************************)

\* A pass is at one feed, and in one place of it.
LEMMA AtOnePlace ==
  ASSUME HecTypeOK, NEW p \in Passes, NEW f \in Feeds, NEW g \in Feeds,
         NEW a, NEW b, At(p, f, a), At(p, g, b)
  PROVE  f = g /\ a = b
<1>1. f <= g /\ g <= f BY DEF At
<1> QED BY <1>1, HecAssumption DEF At, Feeds

\* Pass p has read nothing it still needs.
Rests(p) == pass[p].pc \in {"idle", "cursor"}

LEMMA RestsReadsNothing ==
  ASSUME NEW p, NEW f PROVE (Rests(p) => ~Reads(p, f)) /\ (Rests(p)' => ~Reads(p, f)')
BY DEF Rests, Reads, At

\* The other passes stay where they are.
LEMMA OthersStay ==
  ASSUME HecTypeOK, NEW p \in Passes, NEW x, pass' = [pass EXCEPT ![p] = x]
  PROVE  /\ pass'[p] = x
         /\ \A q \in Passes \ {p} : pass'[q] = pass[q]
         /\ \A q \in Passes \ {p}, f \in Feeds : \A pc : At(q, f, pc)' <=> At(q, f, pc)
BY DEF HecTypeOK, At

\* Where pass p is after it moved to another place of the same feed.
LEMMA StaysAtFeed ==
  ASSUME HecTypeOK, HecTypeOK', NEW p \in Passes, NEW f \in Feeds, NEW a, At(p, f, a),
         NEW x, pass' = [pass EXCEPT ![p] = x], x.todo = pass[p].todo
  PROVE  \A g \in Feeds : \A b : At(p, g, b)' => g = f /\ b = x.pc
<1>1. pass'[p] = x BY OthersStay
<1>2. At(p, f, x.pc)' BY <1>1 DEF At
<1> SUFFICES ASSUME NEW g \in Feeds, NEW b, At(p, g, b)' PROVE g = f /\ b = x.pc OBVIOUS
<1>3. f <= g /\ g <= f BY <1>2 DEF At
<1> QED BY <1>1, <1>3, HecAssumption DEF At, Feeds

LEMMA AfterReadCursor ==
  ASSUME HecTypeOK, HecTypeOK', NEW p \in Passes, NEW f \in Feeds, ReadCursor(p, f)
  PROVE  /\ \A q \in Passes \ {p} : pass'[q] = pass[q] /\ \A g \in Feeds : \A pc : At(q, g, pc)' <=> At(q, g, pc)
         /\ pass'[p].from = cursor[f]
         /\ \A g \in Feeds : \A pc : At(p, g, pc)' => g = f /\ pc = "query"
<1> DEFINE x == [pass[p] EXCEPT !.pc = "query", !.from = cursor[f]]
<1>1. pass[p] \in PassStates BY DEF HecTypeOK, PassStates
<1>2. pass' = [pass EXCEPT ![p] = x] BY <1>1 DEF ReadCursor, HecTypeOK
<1>3. x.todo = pass[p].todo /\ x.pc = "query" /\ x.from = cursor[f] BY <1>1 DEF PassStates
<1>4. At(p, f, "cursor") BY DEF ReadCursor
<1> HIDE DEF x
<1>5. /\ pass'[p] = x
      /\ \A q \in Passes \ {p} : pass'[q] = pass[q] /\ \A g \in Feeds : \A pc : At(q, g, pc)' <=> At(q, g, pc)
  BY <1>2, OthersStay
<1>6. \A g \in Feeds : \A pc : At(p, g, pc)' => g = f /\ pc = x.pc
  BY <1>2, <1>3, <1>4, StaysAtFeed
<1> QED BY <1>3, <1>5, <1>6

LEMMA AfterQueryRows ==
  ASSUME HecTypeOK, HecTypeOK', NEW p \in Passes, NEW f \in Feeds, QueryRows(p, f)
  PROVE  /\ \A q \in Passes \ {p} : pass'[q] = pass[q] /\ \A g \in Feeds : \A pc : At(q, g, pc)' <=> At(q, g, pc)
         /\ \/ Rests(p)'
            \/ /\ pass'[p].from = pass[p].from
               /\ pass'[p].rows = First(RowsPerTick, Ahead(f, pass[p].from))
               /\ pass'[p].rest = pass'[p].rows
               /\ \A g \in Feeds : \A pc : At(p, g, pc)' => g = f /\ pc = "post"
<1> DEFINE rows == First(RowsPerTick, Ahead(f, pass[p].from))
           x == [pass[p] EXCEPT !.pc = "post", !.rows = rows, !.rest = rows]
<1>1. pass[p] \in PassStates BY DEF HecTypeOK, PassStates
<1>2. CASE rows = {}
  <2>1. pass' = [pass EXCEPT ![p] = LeaveFeed(p, f)] BY <1>2 DEF QueryRows
  <2> QED BY <1>1, <2>1, LeaveType, OthersStay DEF Rests
<1>3. CASE rows # {}
  <2>1. pass' = [pass EXCEPT ![p] = x] BY <1>3 DEF QueryRows
  <2>2. x.todo = pass[p].todo /\ x.pc = "post" /\ x.from = pass[p].from /\ x.rows = rows /\ x.rest = rows
    BY <1>1 DEF PassStates
  <2>3. At(p, f, "query") BY DEF QueryRows
  <2> HIDE DEF x
  <2>4. /\ pass'[p] = x
        /\ \A q \in Passes \ {p} : pass'[q] = pass[q] /\ \A g \in Feeds : \A pc : At(q, g, pc)' <=> At(q, g, pc)
    BY <2>1, OthersStay
  <2>5. \A g \in Feeds : \A pc : At(p, g, pc)' => g = f /\ pc = x.pc
    BY <2>1, <2>2, <2>3, StaysAtFeed
  <2> QED BY <2>2, <2>4, <2>5
<1> QED BY <1>2, <1>3

LEMMA AfterPostSlice ==
  ASSUME HecTypeOK, HecTypeOK', NEW p \in Passes, NEW f \in Feeds, PostSlice(p, f)
  PROVE  /\ \A q \in Passes \ {p} : pass'[q] = pass[q] /\ \A g \in Feeds : \A pc : At(q, g, pc)' <=> At(q, g, pc)
         /\ pass'[p].from = pass[p].from /\ pass'[p].rows = pass[p].rows
         /\ pass'[p].rest = pass[p].rest \ Slice(p)
         /\ At(p, f, "post")' \/ At(p, f, "store")'
         /\ \A g \in Feeds : \A pc : At(p, g, pc)' =>
              g = f /\ (pc = "post" \/ (pc = "store" /\ pass'[p].rest = {}))
<1> DEFINE rest == pass[p].rest \ Slice(p)
           x == [pass[p] EXCEPT !.rest = rest, !.pc = IF rest = {} THEN "store" ELSE "post"]
<1>1. pass[p] \in PassStates BY DEF HecTypeOK, PassStates
<1>2. pass' = [pass EXCEPT ![p] = x] BY <1>1 DEF PostSlice, HecTypeOK
<1>3. /\ x.todo = pass[p].todo /\ x.from = pass[p].from /\ x.rows = pass[p].rows /\ x.rest = rest
      /\ x.pc = IF rest = {} THEN "store" ELSE "post"
  BY <1>1 DEF PassStates
<1>4. At(p, f, "post") BY DEF PostSlice
<1> HIDE DEF x
<1>5. /\ pass'[p] = x
      /\ \A q \in Passes \ {p} : pass'[q] = pass[q] /\ \A g \in Feeds : \A pc : At(q, g, pc)' <=> At(q, g, pc)
  BY <1>2, OthersStay
<1>6. At(p, f, "post")' \/ At(p, f, "store")' BY <1>3, <1>4, <1>5 DEF At
<1>7. \A g \in Feeds : \A pc : At(p, g, pc)' => g = f /\ pc = x.pc
  BY <1>2, <1>3, <1>4, StaysAtFeed
<1> QED BY <1>3, <1>5, <1>6, <1>7

LEMMA AfterLeaving ==
  ASSUME HecTypeOK, NEW p \in Passes, NEW f \in Feeds, pass' = [pass EXCEPT ![p] = LeaveFeed(p, f)]
  PROVE  /\ \A q \in Passes \ {p} : pass'[q] = pass[q] /\ \A g \in Feeds : \A pc : At(q, g, pc)' <=> At(q, g, pc)
         /\ Rests(p)'
<1>1. pass[p] \in PassStates BY DEF HecTypeOK, PassStates
<1> QED BY <1>1, LeaveType, OthersStay DEF Rests

LEMMA AfterStartPass ==
  ASSUME HecTypeOK, NEW p \in Passes, StartPass(p)
  PROVE  /\ \A q \in Passes \ {p} : pass'[q] = pass[q] /\ \A g \in Feeds : \A pc : At(q, g, pc)' <=> At(q, g, pc)
         /\ Rests(p)'
<1> DEFINE x == [NoPass EXCEPT !.todo = hecOn, !.pc = "cursor"]
<1>1. x.pc = "cursor" BY DEF NoPass
<1> HIDE DEF x
<1>2. pass' = [pass EXCEPT ![p] = x] BY DEF StartPass, x
<1> QED BY <1>1, <1>2, OthersStay DEF Rests

(***************************************************************************)
(* No row is skipped.                                                      *)
(***************************************************************************)

Caught(f, k) == k \in received[f] \cup late[f]

\* Behind the cursor a pass has read, too, nothing is missing.
BehindPass ==
    \A p \in Passes, f \in Feeds : Reads(p, f) =>
        \A k \in Keys : row[f][k] = "seen" /\ k <= pass[p].from => Caught(f, k)

\* Up to the end of its page only what it still has to post is.
BehindPage ==
    \A p \in Passes, f \in Feeds : HasRows(p, f) =>
        /\ At(p, f, "store") => pass[p].rest = {}
        /\ \A k \in Keys, j \in pass[p].rows :
             row[f][k] = "seen" /\ k <= j => Caught(f, k) \/ k \in pass[p].rest

NothingSkipped == HecTypeOK /\ OnlyLateRowsSkipped /\ BehindPass /\ BehindPage

\* A row that is seen after a step of the tables was seen before and is caught
\* if it was; or it has just committed, ahead of everybody or late.
LEMMA TablesKeep ==
  ASSUME HecTypeOK, Tables
  PROVE  /\ UNCHANGED <<cursor, pass>>
         /\ \A g \in Feeds, j \in Keys : row'[g][j] = "seen" =>
              \/ row[g][j] = "seen" /\ (Caught(g, j) => Caught(g, j)')
              \/ Caught(g, j)'
              \/ ~(j <= cursor[g]) /\ \A p \in Passes : ~LooksPast(p, g, j)
<1> PICK f \in Feeds, k \in Keys :
       Insert(f, k) \/ (\E old \in Keys : Touch(f, old, k)) \/ CommitRow(f, k) \/ Abort(f, k) \/ Purge(f, k)
  BY DEF Tables
<1>1. CASE Insert(f, k) BY <1>1 DEF HecTypeOK, Insert, Caught
<1>2. ASSUME NEW old \in Keys, Touch(f, old, k)
      PROVE  /\ UNCHANGED <<cursor, pass, received, late>>
             /\ \A g \in Feeds, j \in Keys : row'[g][j] = "seen" => row[g][j] = "seen"
  BY <1>2 DEF HecTypeOK, Touch
<1>3. CASE CommitRow(f, k)
  <2> DEFINE old == movedFrom[f][k]
             behind == k <= cursor[f] \/ \E p \in Passes : LooksPast(p, f, k)
  <2>1. UNCHANGED <<cursor, pass>> BY <1>3 DEF CommitRow
  <2>2. /\ row' = [row EXCEPT ![f] = [j \in Keys |->
                      IF j = k THEN "seen" ELSE IF j = old THEN "gone" ELSE @[j]]]
        /\ received' = [received EXCEPT ![f] = @ \ {old}]
        /\ late' = [late EXCEPT ![f] = (@ \ {old}) \cup IF behind THEN {k} ELSE {}]
    BY <1>3 DEF CommitRow
  <2>3. ASSUME NEW g \in Feeds, NEW j \in Keys, g # f, row'[g][j] = "seen"
        PROVE  row[g][j] = "seen" /\ (Caught(g, j) => Caught(g, j)')
    BY <2>2, <2>3 DEF HecTypeOK, Caught
  <2>4. ASSUME NEW j \in Keys, j # k, row'[f][j] = "seen"
        PROVE  row[f][j] = "seen" /\ (Caught(f, j) => Caught(f, j)')
    <3>1. j # old /\ row[f][j] = "seen" BY <2>2, <2>4 DEF HecTypeOK
    <3>2. received'[f] = received[f] \ {old} /\ late[f] \ {old} \subseteq late'[f]
      BY <2>2 DEF HecTypeOK
    <3> QED BY <3>1, <3>2 DEF Caught
  <2>5. Caught(f, k)' \/ (~(k <= cursor[f]) /\ \A p \in Passes : ~LooksPast(p, f, k))
    <3>1. CASE behind
      <4> HIDE DEF behind
      <4>1. late'[f] = (late[f] \ {old}) \cup {k} BY <2>2, <3>1 DEF HecTypeOK
      <4> QED BY <4>1 DEF Caught
    <3> QED BY <3>1
  <2> QED BY <2>1, <2>3, <2>4, <2>5
<1>4. CASE Abort(f, k) BY <1>4 DEF HecTypeOK, Abort, Caught
<1>5. CASE Purge(f, k)
  <2>1. /\ row' = [row EXCEPT ![f][k] = "gone"]
        /\ received' = [received EXCEPT ![f] = @ \ {k}]
        /\ late' = [late EXCEPT ![f] = @ \ {k}]
        /\ UNCHANGED <<cursor, pass>>
    BY <1>5 DEF Purge
  <2>2. ASSUME NEW g \in Feeds, NEW j \in Keys, row'[g][j] = "seen"
        PROVE  row[g][j] = "seen" /\ (Caught(g, j) => Caught(g, j)')
    BY <2>1, <2>2 DEF HecTypeOK, Caught
  <2> QED BY <2>1, <2>2
<1> QED BY <1>1, <1>2, <1>3, <1>4, <1>5 DEF Caught

LEMMA SkippedTables ==
  ASSUME NothingSkipped, Tables PROVE NothingSkipped'
<1>1. HecTypeOK' BY TablesType DEF NothingSkipped
<1>2. HecTypeOK BY DEF NothingSkipped
<1>3. /\ UNCHANGED <<cursor, pass>>
      /\ \A g \in Feeds, j \in Keys : row'[g][j] = "seen" =>
              \/ row[g][j] = "seen" /\ (Caught(g, j) => Caught(g, j)')
              \/ Caught(g, j)'
              \/ ~(j <= cursor[g]) /\ \A p \in Passes : ~LooksPast(p, g, j)
  BY <1>2, TablesKeep
<1>4. OnlyLateRowsSkipped' BY <1>3 DEF NothingSkipped, OnlyLateRowsSkipped, Caught
<1>5. \A p \in Passes, f \in Feeds : \A pc : At(p, f, pc)' <=> At(p, f, pc) BY <1>3 DEF At
<1>6. \A p \in Passes, f \in Feeds, k \in Keys :
        Reads(p, f) /\ (\E j \in pass[p].rows \cup {pass[p].from} : k <= j) => LooksPast(p, f, k)
  BY DEF Reads, LooksPast
<1>7. BehindPass'
  <2> SUFFICES ASSUME NEW p \in Passes, NEW f \in Feeds, Reads(p, f)', NEW k \in Keys,
                      row'[f][k] = "seen", k <= pass'[p].from
               PROVE  Caught(f, k)'
    BY DEF BehindPass
  <2>1. Reads(p, f) /\ k <= pass[p].from BY <1>3, <1>5 DEF Reads
  <2>2. LooksPast(p, f, k) BY <1>6, <2>1
  <2>3. row[f][k] = "seen" => Caught(f, k) BY <2>1 DEF NothingSkipped, BehindPass
  <2> QED BY <1>3, <2>2, <2>3
<1>8. BehindPage'
  <2> SUFFICES ASSUME NEW p \in Passes, NEW f \in Feeds, HasRows(p, f)'
               PROVE  /\ At(p, f, "store")' => pass'[p].rest = {}
                      /\ \A k \in Keys, j \in pass'[p].rows :
                           row'[f][k] = "seen" /\ k <= j => Caught(f, k)' \/ k \in pass'[p].rest
    BY DEF BehindPage
  <2>1. HasRows(p, f) /\ Reads(p, f) BY <1>5 DEF HasRows, Reads
  <2>2. At(p, f, "store")' => pass'[p].rest = {}
    BY <1>3, <1>5, <2>1 DEF NothingSkipped, BehindPage
  <2>3. ASSUME NEW k \in Keys, NEW j \in pass'[p].rows, row'[f][k] = "seen", k <= j
        PROVE  Caught(f, k)' \/ k \in pass'[p].rest
    <3>1. j \in pass[p].rows /\ pass'[p].rest = pass[p].rest BY <1>3
    <3>2. LooksPast(p, f, k) BY <1>6, <2>1, <2>3, <3>1
    <3>3. row[f][k] = "seen" => Caught(f, k) \/ k \in pass[p].rest
      BY <2>1, <2>3, <3>1 DEF NothingSkipped, BehindPage
    <3> QED BY <1>3, <2>3, <3>1, <3>2, <3>3
  <2> QED BY <2>2, <2>3
<1> QED BY <1>1, <1>4, <1>7, <1>8 DEF NothingSkipped

\* The smaller of two rows ahead of the cursor is on the page if the other is.
LEMMA FirstIsAPrefix ==
  ASSUME NEW n \in Nat, NEW S \in SUBSET Keys, NEW j \in First(n, S), NEW k \in S, k <= j
  PROVE  k \in First(n, S)
<1> DEFINE Below(x) == {i \in S : i < x}
<1>0. j \in S /\ S \subseteq Int BY HecAssumption DEF Keys, First
<1>1. \A i \in S : i < k => i < j BY <1>0
<1>2. IsFiniteSet(Below(j))
  <2>1. IsFiniteSet(Keys) BY HecAssumption, FS_Interval DEF Keys
  <2> QED BY <2>1, FS_Subset
<1>3. Below(k) \subseteq Below(j) BY <1>1
<1>4. Cardinality(Below(k)) <= Cardinality(Below(j)) /\ Cardinality(Below(k)) \in Nat
      /\ Cardinality(Below(j)) \in Nat
  BY <1>2, <1>3, FS_Subset, FS_CardinalityType
<1>5. Cardinality(Below(j)) < n BY DEF First
<1> QED BY <1>4, <1>5 DEF First

LEMMA SkippedPass ==
  ASSUME NothingSkipped, NEW p \in Passes, NEW f \in Feeds,
         ReadCursor(p, f) \/ QueryRows(p, f) \/ PostSlice(p, f) \/ StoreCursor(p, f)
  PROVE  NothingSkipped'
<1>t. HecTypeOK /\ HecTypeOK' BY PassType DEF NothingSkipped
<1>b. pass[p] \in PassStates BY <1>t DEF HecTypeOK, PassStates
<1>r. UNCHANGED <<row, late>> BY DEF ReadCursor, QueryRows, PostSlice, StoreCursor
<1>c. \A g \in Feeds, k \in Keys : Caught(g, k) => Caught(g, k)'
  <2>1. CASE PostSlice(p, f)
    <3>1. received' = [received EXCEPT ![f] = @ \cup {k \in Slice(p) : row[f][k] = "seen"}]
      BY <2>1 DEF PostSlice, Takes
    <3> QED BY <1>r, <1>t, <3>1 DEF HecTypeOK, Caught
  <2> QED BY <1>r, <2>1 DEF ReadCursor, QueryRows, StoreCursor, Caught
<1>o. ASSUME \A q \in Passes \ {p} : pass'[q] = pass[q] /\ \A g \in Feeds : \A pc : At(q, g, pc)' <=> At(q, g, pc)
      PROVE  \A q \in Passes \ {p}, g \in Feeds :
               /\ Reads(q, g)' => \A k \in Keys : row'[g][k] = "seen" /\ k <= pass'[q].from => Caught(g, k)'
               /\ HasRows(q, g)' =>
                    /\ At(q, g, "store")' => pass'[q].rest = {}
                    /\ \A k \in Keys, j \in pass'[q].rows :
                         row'[g][k] = "seen" /\ k <= j => Caught(g, k)' \/ k \in pass'[q].rest
  <2> SUFFICES ASSUME NEW q \in Passes \ {p}, NEW g \in Feeds
               PROVE  /\ Reads(q, g)' => \A k \in Keys : row'[g][k] = "seen" /\ k <= pass'[q].from => Caught(g, k)'
                      /\ HasRows(q, g)' =>
                           /\ At(q, g, "store")' => pass'[q].rest = {}
                           /\ \A k \in Keys, j \in pass'[q].rows :
                                row'[g][k] = "seen" /\ k <= j => Caught(g, k)' \/ k \in pass'[q].rest
    OBVIOUS
  <2>1. Reads(q, g)' => Reads(q, g) BY <1>o DEF Reads
  <2>2. (HasRows(q, g)' => HasRows(q, g)) /\ (At(q, g, "store")' => At(q, g, "store")) BY <1>o DEF HasRows
  <2>3. Reads(q, g) => \A k \in Keys : row[g][k] = "seen" /\ k <= pass[q].from => Caught(g, k)
    BY DEF NothingSkipped, BehindPass
  <2>4. HasRows(q, g) =>
          /\ At(q, g, "store") => pass[q].rest = {}
          /\ \A k \in Keys, j \in pass[q].rows :
               row[g][k] = "seen" /\ k <= j => Caught(g, k) \/ k \in pass[q].rest
    BY DEF NothingSkipped, BehindPage
  <2> QED BY <1>c, <1>o, <1>r, <2>1, <2>2, <2>3, <2>4
<1>f. \A g \in Feeds, k \in Keys : row'[g][k] = "seen" /\ k <= cursor[g] => Caught(g, k)'
  BY <1>c, <1>r DEF NothingSkipped, OnlyLateRowsSkipped, Caught
<1>1. CASE ReadCursor(p, f)
  <2>1. /\ pass'[p].from = cursor[f]
        /\ \A g \in Feeds : \A pc : At(p, g, pc)' => g = f /\ pc = "query"
        /\ \A q \in Passes \ {p} : pass'[q] = pass[q] /\ \A g \in Feeds : \A pc : At(q, g, pc)' <=> At(q, g, pc)
    BY <1>1, <1>t, AfterReadCursor
  <2>2. UNCHANGED cursor BY <1>1 DEF ReadCursor
  <2>3. BehindPass'
    <3>1. \A g \in Feeds : Reads(p, g)' =>
            \A k \in Keys : row'[g][k] = "seen" /\ k <= pass'[p].from => Caught(g, k)'
      BY <1>f, <2>1 DEF Reads
    <3> QED BY <1>o, <2>1, <3>1 DEF BehindPass
  <2>4. BehindPage'
    <3>1. \A g \in Feeds : ~HasRows(p, g)' BY <2>1 DEF HasRows
    <3> QED BY <1>o, <2>1, <3>1 DEF BehindPage
  <2>5. OnlyLateRowsSkipped' BY <1>f, <2>2 DEF OnlyLateRowsSkipped, Caught
  <2> QED BY <1>t, <2>3, <2>4, <2>5 DEF NothingSkipped
<1>2. CASE QueryRows(p, f)
  <2> DEFINE page == First(RowsPerTick, Ahead(f, pass[p].from))
  <2>1. \A q \in Passes \ {p} : pass'[q] = pass[q] /\ \A g \in Feeds : \A pc : At(q, g, pc)' <=> At(q, g, pc)
    BY <1>2, <1>t, AfterQueryRows
  <2>2. UNCHANGED cursor BY <1>2 DEF QueryRows
  <2>3. OnlyLateRowsSkipped' BY <1>f, <2>2 DEF OnlyLateRowsSkipped, Caught
  <2>4. CASE Rests(p)'
    <3>1. \A g \in Feeds : ~Reads(p, g)' /\ ~HasRows(p, g)' BY <2>4 DEF Rests, Reads, HasRows, At
    <3> QED BY <1>o, <1>t, <2>1, <2>3, <3>1 DEF NothingSkipped, BehindPass, BehindPage
  <2>5. CASE /\ pass'[p].from = pass[p].from
             /\ pass'[p].rows = page /\ pass'[p].rest = pass'[p].rows
             /\ \A g \in Feeds : \A pc : At(p, g, pc)' => g = f /\ pc = "post"
    <3>1. Reads(p, f) BY <1>2 DEF QueryRows, Reads
    <3>2. \A k \in Keys : row'[f][k] = "seen" /\ k <= pass'[p].from => Caught(f, k)'
      BY <1>c, <1>r, <2>5, <3>1 DEF NothingSkipped, BehindPass
    <3>3. BehindPass' BY <1>o, <2>1, <2>5, <3>2 DEF BehindPass, Reads
    <3>4. ASSUME NEW k \in Keys, NEW j \in page, row'[f][k] = "seen", k <= j
          PROVE  Caught(f, k)' \/ k \in page
      <4>1. CASE k <= pass[p].from BY <2>5, <3>2, <3>4, <4>1
      <4>2. CASE ~(k <= pass[p].from)
        <5>1. k > pass[p].from BY <1>b, <4>2, PassFields, HecAssumption DEF Keys
        <5>2. k \in Ahead(f, pass[p].from) BY <1>r, <3>4, <5>1 DEF Ahead
        <5>3. Ahead(f, pass[p].from) \in SUBSET Keys BY DEF Ahead
        <5>4. RowsPerTick \in Nat BY HecAssumption
        <5> QED BY <3>4, <5>2, <5>3, <5>4, FirstIsAPrefix
      <4> QED BY <4>1, <4>2
    <3>5. \A g \in Feeds : HasRows(p, g)' => g = f /\ ~At(p, g, "store")' BY <2>5 DEF HasRows
    <3> HIDE DEF page
    <3>6. BehindPage' BY <1>o, <2>1, <2>5, <3>4, <3>5 DEF BehindPage
    <3> QED BY <1>t, <2>3, <3>3, <3>6 DEF NothingSkipped
  <2> QED BY <1>2, <1>t, <2>4, <2>5, AfterQueryRows
<1>3. CASE PostSlice(p, f)
  <2>1. /\ \A q \in Passes \ {p} : pass'[q] = pass[q] /\ \A g \in Feeds : \A pc : At(q, g, pc)' <=> At(q, g, pc)
        /\ pass'[p].from = pass[p].from /\ pass'[p].rows = pass[p].rows
        /\ pass'[p].rest = pass[p].rest \ Slice(p)
        /\ \A g \in Feeds : \A pc : At(p, g, pc)' => g = f /\ (pc = "post" \/ (pc = "store" /\ pass'[p].rest = {}))
    BY <1>3, <1>t, AfterPostSlice
  <2>2. UNCHANGED cursor BY <1>3 DEF PostSlice
  <2>3. OnlyLateRowsSkipped' BY <1>f, <2>2 DEF OnlyLateRowsSkipped, Caught
  <2>4. Reads(p, f) /\ HasRows(p, f) BY <1>3 DEF PostSlice, Reads, HasRows
  <2>5. \A k \in Keys : row'[f][k] = "seen" /\ k <= pass'[p].from => Caught(f, k)'
    BY <1>c, <1>r, <2>1, <2>4 DEF NothingSkipped, BehindPass
  <2>6. BehindPass' BY <1>o, <2>1, <2>5 DEF BehindPass, Reads
  <2>7. ASSUME NEW k \in Keys, NEW j \in pass'[p].rows, row'[f][k] = "seen", k <= j
        PROVE  Caught(f, k)' \/ k \in pass'[p].rest
    <3>1. Caught(f, k) \/ k \in pass[p].rest BY <1>r, <2>1, <2>4, <2>7 DEF NothingSkipped, BehindPage
    <3>2. CASE k \in Slice(p)
      <4>1. received' = [received EXCEPT ![f] = @ \cup {i \in Slice(p) : row[f][i] = "seen"}]
        BY <1>3 DEF PostSlice, Takes
      <4>2. k \in received'[f] BY <1>r, <1>t, <2>7, <3>2, <4>1 DEF HecTypeOK
      <4> QED BY <4>2 DEF Caught
    <3> QED BY <1>c, <2>1, <3>1, <3>2
  <2>8. \A g \in Feeds : HasRows(p, g)' => g = f /\ (At(p, g, "store")' => pass'[p].rest = {})
    BY <2>1 DEF HasRows
  <2>9. BehindPage' BY <1>o, <2>1, <2>7, <2>8 DEF BehindPage
  <2> QED BY <1>t, <2>3, <2>6, <2>9 DEF NothingSkipped
<1>4. CASE StoreCursor(p, f)
  <2>0. At(p, f, "store") /\ pass' = [pass EXCEPT ![p] = LeaveFeed(p, f)] BY <1>4 DEF StoreCursor
  <2>1. /\ \A q \in Passes \ {p} : pass'[q] = pass[q] /\ \A g \in Feeds : \A pc : At(q, g, pc)' <=> At(q, g, pc)
        /\ Rests(p)'
    BY <1>t, <2>0, AfterLeaving
  <2>2. \A g \in Feeds : ~Reads(p, g)' /\ ~HasRows(p, g)' BY <2>1 DEF Rests, Reads, HasRows, At
  <2>3. HasRows(p, f) /\ pass[p].rest = {} BY <2>0 DEF HasRows, NothingSkipped, BehindPage
  <2>4. PICK k \in pass[p].rows : cursor' = [cursor EXCEPT ![f] = k] BY <1>4 DEF StoreCursor
  <2>5. \A i \in Keys : row'[f][i] = "seen" /\ i <= k => Caught(f, i)'
    BY <1>c, <1>r, <2>3 DEF NothingSkipped, BehindPage
  <2>6. OnlyLateRowsSkipped'
    <3> SUFFICES ASSUME NEW g \in Feeds, NEW i \in Keys, row'[g][i] = "seen", i <= cursor'[g]
                 PROVE  Caught(g, i)'
      BY DEF OnlyLateRowsSkipped, Caught
    <3>1. CASE g = f
      <4>1. cursor'[f] = k BY <1>t, <2>4 DEF HecTypeOK
      <4> QED BY <2>5, <3>1, <4>1
    <3>2. CASE g # f
      <4>1. cursor'[g] = cursor[g] BY <1>t, <2>4, <3>2 DEF HecTypeOK
      <4> QED BY <1>f, <4>1
    <3> QED BY <3>1, <3>2
  <2> QED BY <1>o, <1>t, <2>1, <2>2, <2>6 DEF NothingSkipped, BehindPass, BehindPage
<1> QED BY <1>1, <1>2, <1>3, <1>4

\* A step after which no pass reads anything it did not read before.
LEMMA SkippedOthers ==
  ASSUME NothingSkipped,
         \/ \E p \in Passes : StartPass(p) \/ (\E f \in Feeds : PostFails(p, f))
         \/ \E on \in SUBSET Feeds : SetHecSettings(on)
         \/ HecRestart
  PROVE  NothingSkipped'
<1>t. HecTypeOK /\ HecTypeOK' BY OthersType DEF NothingSkipped
<1>r. UNCHANGED <<row, late, cursor>> BY DEF StartPass, PostFails, SetHecSettings, HecRestart
<1>c. \A g \in Feeds, k \in Keys : Caught(g, k) => Caught(g, k)'
  <2>1. ASSUME NEW p \in Passes, NEW f \in Feeds, PostFails(p, f)
        PROVE  \A g \in Feeds : received[g] \subseteq received'[g]
    <3>1. CASE UNCHANGED <<received, again>> BY <3>1
    <3>2. CASE Takes(f, Slice(p))
      <4>1. received' = [received EXCEPT ![f] = @ \cup {k \in Slice(p) : row[f][k] = "seen"}]
        BY <3>2 DEF Takes
      <4> QED BY <1>t, <4>1 DEF HecTypeOK
    <3> QED BY <2>1, <3>1, <3>2 DEF PostFails
  <2>2. \A g \in Feeds : received[g] \subseteq received'[g]
    BY <2>1 DEF StartPass, SetHecSettings, HecRestart
  <2> QED BY <1>r, <2>2 DEF Caught
<1>o. \A q \in Passes : \/ \A g \in Feeds : ~Reads(q, g)' /\ ~HasRows(q, g)'
                        \/ pass'[q] = pass[q] /\ \A g \in Feeds : \A pc : At(q, g, pc)' <=> At(q, g, pc)
  <2>1. ASSUME NEW p \in Passes, Rests(p)' PROVE \A g \in Feeds : ~Reads(p, g)' /\ ~HasRows(p, g)'
    BY <2>1 DEF Rests, Reads, HasRows, At
  <2>2. ASSUME NEW p \in Passes, StartPass(p) PROVE <1>o
    BY <1>t, <2>1, <2>2, AfterStartPass
  <2>3. ASSUME NEW p \in Passes, NEW f \in Feeds, PostFails(p, f) PROVE <1>o
    <3>1. pass' = [pass EXCEPT ![p] = LeaveFeed(p, f)] BY <2>3 DEF PostFails
    <3> QED BY <1>t, <2>1, <3>1, AfterLeaving
  <2>4. ASSUME NEW on \in SUBSET Feeds, SetHecSettings(on) PROVE <1>o
    BY <2>4 DEF SetHecSettings, At
  <2>5. CASE HecRestart
    <3>1. \A q \in Passes : Rests(q)' BY <2>5, NoPassType DEF HecRestart, Rests
    <3> QED BY <2>1, <3>1
  <2> QED BY <2>2, <2>3, <2>4, <2>5
<1>1. OnlyLateRowsSkipped' BY <1>c, <1>r DEF NothingSkipped, OnlyLateRowsSkipped, Caught
<1>2. BehindPass'
  <2> SUFFICES ASSUME NEW q \in Passes, NEW g \in Feeds, Reads(q, g)', NEW k \in Keys,
                      row'[g][k] = "seen", k <= pass'[q].from
               PROVE  Caught(g, k)'
    BY DEF BehindPass
  <2>1. pass'[q] = pass[q] /\ Reads(q, g) BY <1>o DEF Reads
  <2> QED BY <1>c, <1>r, <2>1 DEF NothingSkipped, BehindPass
<1>3. BehindPage'
  <2> SUFFICES ASSUME NEW q \in Passes, NEW g \in Feeds, HasRows(q, g)'
               PROVE  /\ At(q, g, "store")' => pass'[q].rest = {}
                      /\ \A k \in Keys, j \in pass'[q].rows :
                           row'[g][k] = "seen" /\ k <= j => Caught(g, k)' \/ k \in pass'[q].rest
    BY DEF BehindPage
  <2>1. pass'[q] = pass[q] /\ HasRows(q, g) /\ (At(q, g, "store")' => At(q, g, "store"))
    BY <1>o DEF HasRows
  <2> QED BY <1>c, <1>r, <2>1 DEF NothingSkipped, BehindPage
<1> QED BY <1>t, <1>1, <1>2, <1>3 DEF NothingSkipped

LEMMA SkippedStep == NothingSkipped /\ [HecNext]_hecVars => NothingSkipped'
<1> SUFFICES ASSUME NothingSkipped, [HecNext]_hecVars PROVE NothingSkipped' OBVIOUS
<1>1. CASE UNCHANGED hecVars
  BY <1>1 DEF hecVars, NothingSkipped, HecTypeOK, OnlyLateRowsSkipped, BehindPass, BehindPage,
              Reads, HasRows, At, Caught
<1>2. ASSUME NEW p \in Passes, PassStep(p) PROVE NothingSkipped'
  BY <1>2, SkippedPass DEF PassStep
<1> QED BY <1>1, <1>2, SkippedTables, SkippedOthers DEF HecNext

LEMMA SkippedInit == HecInit => NothingSkipped
<1> SUFFICES ASSUME HecInit PROVE NothingSkipped OBVIOUS
<1>1. HecTypeOK BY TypeInit
<1>2. \A p \in Passes, f \in Feeds : ~Reads(p, f) /\ ~HasRows(p, f)
  BY NoPassType DEF HecInit, Reads, HasRows, At
<1>3. OnlyLateRowsSkipped BY DEF HecInit, OnlyLateRowsSkipped
<1> QED BY <1>1, <1>2, <1>3 DEF NothingSkipped, BehindPass, BehindPage

(***************************************************************************)
(* No row is sent twice without a cause.                                   *)
(***************************************************************************)

\* Where nothing has happened that makes rows repeat, one pass at a time is
\* past the cursor, and the collector has what is behind the cursor and what
\* this pass has posted.
Solo(f) ==
    /\ f \notin again
    /\ \A p, q \in Passes : Reads(p, f) /\ Reads(q, f) => p = q
    /\ \A p \in Passes : Reads(p, f) => pass[p].from = cursor[f]
    /\ \A p \in Passes : HasRows(p, f) =>
         /\ \A k \in pass[p].rows : k > cursor[f]
         /\ pass[p].rest \subseteq pass[p].rows
         /\ pass[p].rest \cap received[f] = {}
    /\ \A k \in received[f] :
         \/ k <= cursor[f]
         \/ \E p \in Passes : HasRows(p, f) /\ k \in pass[p].rows \ pass[p].rest

NoRepeats == HecTypeOK /\ \A f \in Feeds \ cause : Solo(f)

\* The feed is left alone, but for passes that give it up before they have
\* rows, and rows the collector need no longer have.
LEMMA SoloKept ==
  ASSUME NEW f \in Feeds, Solo(f), f \notin again', cursor'[f] = cursor[f],
         received'[f] \subseteq received[f],
         \A q \in Passes : \/ ~Reads(q, f)' /\ ~HasRows(q, f)' /\ ~HasRows(q, f)
                           \/ pass'[q] = pass[q] /\ \A pc : At(q, f, pc)' <=> At(q, f, pc)
  PROVE  Solo(f)'
<1>1. \A q \in Passes : (Reads(q, f)' => Reads(q, f)) /\ (HasRows(q, f)' <=> HasRows(q, f))
  BY DEF Reads, HasRows
<1>2. \A q \in Passes : Reads(q, f)' => pass'[q] = pass[q] BY DEF Reads
<1>3. \A q \in Passes : HasRows(q, f) => Reads(q, f)' BY <1>1 DEF Reads, HasRows
<1> QED BY <1>1, <1>2, <1>3 DEF Solo

LEMMA RepeatsTables ==
  ASSUME NoRepeats, Tables PROVE NoRepeats'
<1>1. HecTypeOK /\ HecTypeOK' BY TablesType DEF NoRepeats
<1>2. UNCHANGED <<cursor, pass, again, cause>> /\ \A f \in Feeds : received'[f] \subseteq received[f]
  <2> PICK f \in Feeds, k \in Keys :
         Insert(f, k) \/ (\E old \in Keys : Touch(f, old, k)) \/ CommitRow(f, k) \/ Abort(f, k) \/ Purge(f, k)
    BY DEF Tables
  <2>1. CASE CommitRow(f, k) BY <1>1, <2>1 DEF HecTypeOK, CommitRow
  <2>2. CASE Purge(f, k) BY <1>1, <2>2 DEF HecTypeOK, Purge
  <2> QED BY <2>1, <2>2 DEF Insert, Touch, Abort
<1>3. ASSUME NEW f \in Feeds \ cause' PROVE Solo(f)'
  <2>1. Solo(f) BY <1>2 DEF NoRepeats
  <2>2. \A q \in Passes : pass'[q] = pass[q] /\ \A pc : At(q, f, pc)' <=> At(q, f, pc) BY <1>2 DEF At
  <2>3. f \notin again' /\ cursor'[f] = cursor[f] BY <1>2, <2>1 DEF Solo
  <2> QED BY <1>2, <2>1, <2>2, <2>3, SoloKept
<1> QED BY <1>1, <1>3 DEF NoRepeats

LEMMA RepeatsOthers ==
  ASSUME NoRepeats,
         \/ \E p \in Passes : StartPass(p) \/ (\E f \in Feeds : PostFails(p, f))
         \/ \E on \in SUBSET Feeds : SetHecSettings(on)
         \/ HecRestart
  PROVE  NoRepeats'
<1>t. HecTypeOK /\ HecTypeOK' BY OthersType DEF NoRepeats
<1>g. ASSUME NEW p \in Passes, Rests(p)' PROVE \A g \in Feeds : ~Reads(p, g)' /\ ~HasRows(p, g)'
  BY <1>g DEF Rests, Reads, HasRows, At
<1>1. ASSUME NEW p \in Passes, StartPass(p), NEW f \in Feeds \ cause' PROVE Solo(f)'
  <2>1. UNCHANGED <<received, again, cursor, cause>> BY <1>1 DEF StartPass
  <2>2. ~HasRows(p, f) BY <1>1 DEF StartPass, HasRows, At
  <2>3. \A q \in Passes : \/ ~Reads(q, f)' /\ ~HasRows(q, f)' /\ ~HasRows(q, f)
                          \/ pass'[q] = pass[q] /\ \A pc : At(q, f, pc)' <=> At(q, f, pc)
    BY <1>1, <1>g, <1>t, <2>2, AfterStartPass
  <2>4. Solo(f) /\ f \notin again' BY <2>1 DEF NoRepeats, Solo
  <2> QED BY <2>1, <2>3, <2>4, SoloKept
<1>2. ASSUME NEW p \in Passes, NEW g \in Feeds, PostFails(p, g), NEW f \in Feeds \ cause' PROVE Solo(f)'
  <2>0. cause' = cause \cup {g} BY <1>2 DEF PostFails
  <2>1. f # g /\ f \notin cause BY <2>0
  <2>2. received'[f] = received[f] /\ f \notin again' /\ cursor'[f] = cursor[f] /\ Solo(f)
    <3>1. Solo(f) BY <2>1 DEF NoRepeats
    <3>2. cursor' = cursor BY <1>2 DEF PostFails
    <3>3. CASE UNCHANGED <<received, again>> BY <3>1, <3>2, <3>3 DEF Solo
    <3>4. CASE Takes(g, Slice(p))
      <4>1. received'[f] = received[f] BY <1>t, <2>1, <3>4 DEF HecTypeOK, Takes
      <4>2. f \notin again' BY <2>1, <3>1, <3>4 DEF Takes, Solo
      <4> QED BY <3>1, <3>2, <4>1, <4>2
    <3> QED BY <1>2, <3>3, <3>4 DEF PostFails
  <2>3. ~HasRows(p, f)
    <3>1. At(p, g, "post") BY <1>2 DEF PostFails
    <3> QED BY <1>t, <2>1, <3>1, AtOnePlace DEF HasRows
  <2>4. pass' = [pass EXCEPT ![p] = LeaveFeed(p, g)] BY <1>2 DEF PostFails
  <2>5. \A q \in Passes : \/ ~Reads(q, f)' /\ ~HasRows(q, f)' /\ ~HasRows(q, f)
                          \/ pass'[q] = pass[q] /\ \A pc : At(q, f, pc)' <=> At(q, f, pc)
    BY <1>g, <1>t, <2>3, <2>4, AfterLeaving
  <2> QED BY <2>2, <2>5, SoloKept
<1>3. ASSUME NEW on \in SUBSET Feeds, SetHecSettings(on), NEW f \in Feeds \ cause' PROVE Solo(f)'
  <2>1. UNCHANGED <<received, again, cursor, cause, pass>> BY <1>3 DEF SetHecSettings
  <2>2. \A q \in Passes : pass'[q] = pass[q] /\ \A pc : At(q, f, pc)' <=> At(q, f, pc) BY <2>1 DEF At
  <2>3. Solo(f) /\ f \notin again' BY <2>1 DEF NoRepeats, Solo
  <2> QED BY <2>1, <2>2, <2>3, SoloKept
<1>4. ASSUME HecRestart, NEW f \in Feeds \ cause' PROVE Solo(f)'
  <2>1. UNCHANGED <<received, again, cursor>> BY <1>4 DEF HecRestart
  <2>2. f \notin cause /\ \A q \in Passes : ~HasRows(q, f) BY <1>4 DEF HecRestart, HasRows
  <2>3. \A q \in Passes : Rests(q)' BY <1>4, NoPassType DEF HecRestart, Rests
  <2>4. Solo(f) /\ f \notin again' BY <2>1, <2>2 DEF NoRepeats, Solo
  <2> QED BY <1>g, <2>1, <2>2, <2>3, <2>4, SoloKept
<1> QED BY <1>t, <1>1, <1>2, <1>3, <1>4 DEF NoRepeats

\* A pass at another feed leaves this one alone.
LEMMA RepeatsElsewhere ==
  ASSUME NoRepeats, HecTypeOK', NEW p \in Passes, NEW g \in Feeds,
         ReadCursor(p, g) \/ QueryRows(p, g) \/ PostSlice(p, g) \/ StoreCursor(p, g),
         NEW f \in Feeds \ cause', f # g
  PROVE  Solo(f)'
<1>t. HecTypeOK BY DEF NoRepeats
<1>c. f \notin cause /\ Solo(f)
  BY DEF NoRepeats, ReadCursor, QueryRows, PostSlice, StoreCursor
<1>1. received'[f] = received[f] /\ f \notin again' /\ cursor'[f] = cursor[f]
  <2>1. CASE PostSlice(p, g)
    <3>1. received'[f] = received[f] BY <1>t, <2>1 DEF HecTypeOK, PostSlice, Takes
    <3>2. f \notin again' BY <1>c, <2>1 DEF PostSlice, Takes, Solo
    <3> QED BY <2>1, <3>1, <3>2 DEF PostSlice
  <2>2. CASE StoreCursor(p, g) BY <1>c, <1>t, <2>2 DEF StoreCursor, HecTypeOK, Solo
  <2> QED BY <1>c, <2>1, <2>2 DEF ReadCursor, QueryRows, Solo
<1>2. ~HasRows(p, f) /\ ~Reads(p, f)
  <2>1. PICK a : At(p, g, a) BY DEF ReadCursor, QueryRows, PostSlice, StoreCursor
  <2> QED BY <1>t, <2>1, AtOnePlace DEF HasRows, Reads
<1>3. /\ \A q \in Passes \ {p} : pass'[q] = pass[q] /\ \A h \in Feeds : \A pc : At(q, h, pc)' <=> At(q, h, pc)
      /\ ~Reads(p, f)' /\ ~HasRows(p, f)'
  <2>r. Rests(p)' => ~Reads(p, f)' /\ ~HasRows(p, f)' BY DEF Rests, Reads, HasRows, At
  <2>1. CASE ReadCursor(p, g) BY <1>t, <2>1, AfterReadCursor DEF Reads, HasRows
  <2>2. CASE QueryRows(p, g) BY <1>t, <2>2, <2>r, AfterQueryRows DEF Reads, HasRows
  <2>3. CASE PostSlice(p, g) BY <1>t, <2>3, AfterPostSlice DEF Reads, HasRows
  <2>4. CASE StoreCursor(p, g) BY <1>t, <2>4, <2>r, AfterLeaving DEF StoreCursor
  <2> QED BY <2>1, <2>2, <2>3, <2>4
<1> QED BY <1>c, <1>1, <1>2, <1>3, SoloKept

LEMMA RepeatsReadCursor ==
  ASSUME NoRepeats, HecTypeOK', NEW p \in Passes, NEW f \in Feeds \ cause', ReadCursor(p, f)
  PROVE  Solo(f)'
<1>t. HecTypeOK BY DEF NoRepeats
<1>u. UNCHANGED <<received, again, cursor>> BY DEF ReadCursor
<1>c. f \notin cause /\ \A q \in Passes \ {p} : ~Reads(q, f) BY DEF ReadCursor, Reads
<1>s. Solo(f) BY <1>c DEF NoRepeats
<1>1. /\ pass'[p].from = cursor[f]
      /\ \A pc : At(p, f, pc)' => pc = "query"
      /\ \A q \in Passes \ {p} : pass'[q] = pass[q] /\ \A h \in Feeds : \A pc : At(q, h, pc)' <=> At(q, h, pc)
  BY <1>t, AfterReadCursor
<1>2. ~HasRows(p, f)' /\ ~HasRows(p, f)
  <2>1. At(p, f, "cursor") BY DEF ReadCursor
  <2> QED BY <1>1, <1>t, <2>1, AtOnePlace DEF HasRows
<1>3. \A q \in Passes \ {p} : ~Reads(q, f)' /\ ~HasRows(q, f)' /\ ~HasRows(q, f)
  BY <1>1, <1>c DEF Reads, HasRows
<1> QED BY <1>1, <1>2, <1>3, <1>s, <1>u DEF Solo

LEMMA RepeatsQueryRows ==
  ASSUME NoRepeats, HecTypeOK', NEW p \in Passes, NEW f \in Feeds \ cause', QueryRows(p, f)
  PROVE  Solo(f)'
<1>t. HecTypeOK BY DEF NoRepeats
<1>u. UNCHANGED <<received, again, cursor, cause>> BY DEF QueryRows
<1>s. Solo(f) BY <1>u DEF NoRepeats
<1>0. Reads(p, f) /\ ~HasRows(p, f)
  <2>1. At(p, f, "query") BY DEF QueryRows
  <2> QED BY <1>t, <2>1, AtOnePlace DEF Reads, HasRows
<1>c. pass[p].from = cursor[f] /\ \A q \in Passes \ {p} : ~Reads(q, f) /\ ~HasRows(q, f)
  BY <1>0, <1>s DEF Solo, Reads, HasRows
<1>1. /\ \A q \in Passes \ {p} : pass'[q] = pass[q] /\ \A h \in Feeds : \A pc : At(q, h, pc)' <=> At(q, h, pc)
      /\ \/ Rests(p)'
         \/ /\ pass'[p].from = pass[p].from
            /\ pass'[p].rows = First(RowsPerTick, Ahead(f, pass[p].from))
            /\ pass'[p].rest = pass'[p].rows
  BY <1>t, AfterQueryRows
<1>2. \A q \in Passes \ {p} : ~Reads(q, f)' /\ ~HasRows(q, f)' BY <1>1, <1>c DEF Reads, HasRows
<1>3. \A k \in received[f] : k <= cursor[f] BY <1>0, <1>c, <1>s DEF Solo
<1>4. CASE Rests(p)'
  <2>1. ~Reads(p, f)' /\ ~HasRows(p, f)' BY <1>4 DEF Rests, Reads, HasRows, At
  <2> QED BY <1>2, <1>3, <1>s, <1>u, <2>1 DEF Solo
<1>5. CASE /\ pass'[p].from = pass[p].from
           /\ pass'[p].rows = First(RowsPerTick, Ahead(f, pass[p].from))
           /\ pass'[p].rest = pass'[p].rows
  <2>1. \A k \in pass'[p].rows : k \in Keys /\ k > cursor[f] BY <1>5, <1>c, FirstIsPart DEF Ahead
  <2>2. cursor[f] \in Int /\ Keys \subseteq Int BY <1>t, HecAssumption DEF HecTypeOK, Keys
  <2>3. pass'[p].rest \cap received[f] = {}
    <3> SUFFICES ASSUME NEW k \in pass'[p].rest, k \in received[f] PROVE FALSE OBVIOUS
    <3>1. k \in Int /\ k > cursor[f] BY <1>5, <2>1, <2>2
    <3>2. k <= cursor[f] BY <1>3
    <3> QED BY <2>2, <3>1, <3>2
  <2> QED BY <1>2, <1>3, <1>5, <1>c, <1>s, <1>u, <2>1, <2>3 DEF Solo
<1> QED BY <1>1, <1>4, <1>5

LEMMA RepeatsPostSlice ==
  ASSUME NoRepeats, HecTypeOK', NEW p \in Passes, NEW f \in Feeds \ cause', PostSlice(p, f)
  PROVE  Solo(f)'
<1>t. HecTypeOK BY DEF NoRepeats
<1>u. UNCHANGED <<cursor, cause>> BY DEF PostSlice
<1>s. Solo(f) BY <1>u DEF NoRepeats
<1>0. Reads(p, f) /\ HasRows(p, f) BY DEF PostSlice, Reads, HasRows
<1>c. \A q \in Passes \ {p} : ~Reads(q, f) /\ ~HasRows(q, f) BY <1>0, <1>s DEF Solo, Reads, HasRows
<1>b. Slice(p) \subseteq pass[p].rest BY <1>t, SliceType DEF HecTypeOK, PassStates
<1>1. /\ \A q \in Passes \ {p} : pass'[q] = pass[q] /\ \A h \in Feeds : \A pc : At(q, h, pc)' <=> At(q, h, pc)
      /\ pass'[p].from = pass[p].from /\ pass'[p].rows = pass[p].rows
      /\ pass'[p].rest = pass[p].rest \ Slice(p)
      /\ At(p, f, "post")' \/ At(p, f, "store")'
  BY <1>t, AfterPostSlice
<1>2. \A q \in Passes \ {p} : ~Reads(q, f)' /\ ~HasRows(q, f)' BY <1>1, <1>c DEF Reads, HasRows
<1>3. HasRows(p, f)' BY <1>1 DEF HasRows
<1>4. received'[f] = received[f] \cup {k \in Slice(p) : row[f][k] = "seen"}
  BY <1>t DEF PostSlice, Takes, HecTypeOK
<1>5. f \notin again'
  <2>1. Slice(p) \cap received[f] = {} BY <1>0, <1>b, <1>s DEF Solo
  <2> QED BY <1>s, <2>1 DEF PostSlice, Takes, Solo
<1>6. /\ \A k \in pass'[p].rows : k > cursor[f]
      /\ pass'[p].rest \subseteq pass'[p].rows
      /\ pass'[p].rest \cap received'[f] = {}
  BY <1>0, <1>1, <1>4, <1>s DEF Solo
<1>7. \A k \in received'[f] : k <= cursor[f] \/ k \in pass'[p].rows \ pass'[p].rest
  <2>1. \A k \in received[f] : k <= cursor[f] \/ k \in pass[p].rows \ pass[p].rest
    BY <1>c, <1>s DEF Solo
  <2>2. pass[p].rest \subseteq pass[p].rows BY <1>0, <1>s DEF Solo
  <2> QED BY <1>1, <1>4, <1>b, <2>1, <2>2
<1>8. pass'[p].from = cursor[f] BY <1>0, <1>1, <1>s DEF Solo
<1> QED BY <1>2, <1>3, <1>5, <1>6, <1>7, <1>8, <1>u DEF Solo

LEMMA RepeatsStoreCursor ==
  ASSUME NoRepeats, NothingSkipped, HecTypeOK', NEW p \in Passes, NEW f \in Feeds \ cause', StoreCursor(p, f)
  PROVE  Solo(f)'
<1>t. HecTypeOK BY DEF NoRepeats
<1>u. UNCHANGED <<received, again, cause>> BY DEF StoreCursor
<1>s. Solo(f) BY <1>u DEF NoRepeats
<1>0. Reads(p, f) /\ HasRows(p, f) BY DEF StoreCursor, Reads, HasRows
<1>c. \A q \in Passes \ {p} : ~Reads(q, f) /\ ~HasRows(q, f) BY <1>0, <1>s DEF Solo, Reads, HasRows
<1>1. /\ \A q \in Passes \ {p} : pass'[q] = pass[q] /\ \A h \in Feeds : \A pc : At(q, h, pc)' <=> At(q, h, pc)
      /\ Rests(p)'
  BY <1>t, AfterLeaving DEF StoreCursor
<1>2. \A q \in Passes : ~Reads(q, f)' /\ ~HasRows(q, f)'
  <2>1. ~Reads(p, f)' /\ ~HasRows(p, f)' BY <1>1 DEF Rests, Reads, HasRows, At
  <2> QED BY <1>1, <1>c, <2>1 DEF Reads, HasRows
<1>3. PICK k \in pass[p].rows : (\A j \in pass[p].rows : j <= k) /\ cursor' = [cursor EXCEPT ![f] = k]
  BY DEF StoreCursor
<1>4. cursor'[f] = k /\ k > cursor[f] BY <1>0, <1>3, <1>s, <1>t DEF HecTypeOK, Solo
<1>5. cursor[f] \in Int /\ k \in Int /\ received[f] \subseteq Int
  <2>1. pass[p].rows \subseteq Keys BY <1>t, PassFields DEF HecTypeOK, PassStates
  <2> QED BY <1>3, <1>t, <2>1, HecAssumption DEF HecTypeOK, Keys
<1>6. \A j \in received[f] : j <= cursor[f] \/ j \in pass[p].rows BY <1>c, <1>s DEF Solo
<1>7. \A j \in received'[f] : j <= cursor'[f] BY <1>3, <1>4, <1>5, <1>6, <1>u
<1> QED BY <1>2, <1>7, <1>s, <1>u DEF Solo

LEMMA RepeatsStep == NoRepeats /\ NothingSkipped /\ [HecNext]_hecVars => NoRepeats'
<1> SUFFICES ASSUME NoRepeats, NothingSkipped, [HecNext]_hecVars PROVE NoRepeats' OBVIOUS
<1>t. HecTypeOK' BY TypeStep DEF NoRepeats
<1>1. CASE UNCHANGED hecVars
  BY <1>1, <1>t DEF hecVars, NoRepeats, Solo, Reads, HasRows, At
<1>2. ASSUME NEW p \in Passes, PassStep(p) PROVE NoRepeats'
  <2> PICK g \in Feeds : ReadCursor(p, g) \/ QueryRows(p, g) \/ PostSlice(p, g) \/ StoreCursor(p, g)
    BY <1>2 DEF PassStep
  <2>1. ASSUME NEW f \in Feeds \ cause' PROVE Solo(f)'
    BY <1>t, RepeatsElsewhere, RepeatsReadCursor, RepeatsQueryRows, RepeatsPostSlice, RepeatsStoreCursor
  <2> QED BY <1>t, <2>1 DEF NoRepeats
<1> QED BY <1>1, <1>2, RepeatsTables, RepeatsOthers DEF HecNext

LEMMA RepeatsInit == HecInit => NoRepeats
<1> SUFFICES ASSUME HecInit PROVE NoRepeats OBVIOUS
<1>1. \A p \in Passes, f \in Feeds : ~Reads(p, f) /\ ~HasRows(p, f)
  BY NoPassType DEF HecInit, Reads, HasRows, At
<1> QED BY <1>1, TypeInit DEF HecInit, NoRepeats, Solo

(***************************************************************************)
(* Theorems.                                                               *)
(***************************************************************************)

\* The rows, cursors, passes and what the collector has keep their types.
THEOREM HecTypeCorrect == HecSpec => []HecTypeOK
BY TypeInit, TypeStep, PTL DEF HecSpec

\* Whatever passes, transactions and faults do, no row that was there to be
\* read falls behind a cursor without having reached the collector.
THEOREM NoRowIsSkipped == HecSpec => []OnlyLateRowsSkipped
<1>1. NothingSkipped => OnlyLateRowsSkipped BY DEF NothingSkipped
<1> QED BY <1>1, SkippedInit, SkippedStep, PTL DEF HecSpec

\* A row is sent again only for a reason, and none behind the cursor is missing.
THEOREM FeedStaysExact == HecSpec => []FeedIsExact
<1>1. NothingSkipped /\ NoRepeats => FeedIsExact
  <2>1. NoRepeats => RepeatsHaveACause BY DEF NoRepeats, Solo, RepeatsHaveACause, HecTypeOK
  <2> QED BY <2>1 DEF NothingSkipped, FeedIsExact
<1> QED BY <1>1, SkippedInit, SkippedStep, RepeatsInit, RepeatsStep, PTL DEF HecSpec

(***************************************************************************)
(* Webhooks. What waits, stored, in memory or queued, divides the open     *)
(* alerts: each is in one place. A row a drain has read is still there as  *)
(* long as its alerts are open. An alert the target took, and that may be  *)
(* posted again, has its excuse, or the drain that posted it has still to  *)
(* write so.                                                               *)
(***************************************************************************)

Rows == {c \in Parcels : attempts[c] > 0}
Waiting == {<<{x}, "item">> : x \in items} \cup flight \cup {<<c, "row">> : c \in Rows}

\* Each of O is in one parcel of W.
Divides(W, O) ==
    /\ \A f \in W : f[1] \subseteq O
    /\ \A f, g \in W : f = g \/ f[1] \cap g[1] = {}
    /\ \A a \in O : \E f \in W : a \in f[1]

Deleted == channel = "gone" => items = {} /\ Rows = {}
MutedWhileOff == channel # "on" => Open \subseteq muted

Unsent(f) == f[2] \notin {"failed", "row"}

\* What a drain holds: a row once, and of a parcel no other drain divides.
HoldsSound ==
    /\ \A d \in Drains : drain[d].at = "next" <=> drain[d].row = <<>>
    /\ \A d \in Drains : drain[d].row \notin drain[d].todo
    /\ \A d \in Drains : \A r, s \in Holds(d) : r[1] = s[1] => r = s
    /\ \A d, e \in Drains : \A r \in Holds(d), s \in Holds(e) : r[1] = s[1] \/ r[1] \cap s[1] = {}
    /\ \A d \in Drains : \A r \in Holds(d) : \A a \in r[1] :
          fate[a] # "none" /\ (fate[a] = "open" => r[1] \in Rows)

TriesCounted ==
    /\ \A c \in Rows : \A a \in c : attempts[c] <= tries[a]
    /\ \A f \in flight : f[2] = "failed" => \A a \in f[1] : tries[a] > 0
    /\ \A d \in Drains : \A r \in Holds(d) : \A a \in r[1] : r[2] <= tries[a]
    /\ \A d \in Drains : drain[d].at = "write" => \A a \in drain[d].row[1] : drain[d].row[2] < tries[a]

Writes(d, c) == drain[d].at = "write" /\ drain[d].row[1] = c
ToSend(d) == {r \in Holds(d) : ~Writes(d, r[1])}

RepeatsKnown ==
    /\ twice \subseteq mayRepeat
    /\ \A a \in got : fate[a] # "none"
    /\ \A f \in Waiting : Unsent(f) => f[1] \cap got = {}
    /\ \A f \in flight : f[2] = "failed" => f[1] \cap got \subseteq mayRepeat
    /\ \A c \in Rows : (\E d \in Drains : Writes(d, c)) \/ c \cap got \subseteq mayRepeat
    /\ \A d \in Drains : \A r \in ToSend(d) : r[1] \cap got \subseteq mayRepeat
    /\ \A d, e \in Drains : d # e => \A r \in Holds(d), s \in Holds(e) : r[1] = s[1] => r[1] \subseteq mayRepeat
    /\ \A d \in Drains : drain[d].at = "write" =>
          IF drain[d].outcome = "ok" THEN drain[d].row[1] \subseteq got
          ELSE drain[d].row[1] \cap got \subseteq mayRepeat

WebInv ==
    /\ WebTypeOK
    /\ Deleted
    /\ Divides(Waiting, Open)
    /\ MutedWhileOff
    /\ HoldsSound
    /\ TriesCounted
    /\ RepeatsKnown
    /\ EndsAreTrue

Counts == 1 .. MaxAttempts - 1
DrainKind ==
    [todo : SUBSET (Parcels \X Counts), at : {"next", "send", "write"},
     row : (Parcels \X Counts) \cup {<<>>}, outcome : {"none", "ok", "permanent", "transient"}]
Fates == {"none", "open", "delivered", "refused", "gaveUp", "dropped", "cut"}

LEMMA WebFound ==
  ASSUME WebTypeOK
  PROVE  /\ drain \in [Drains -> DrainKind] /\ tries \in [Alerts -> 0 .. MaxAttempts]
         /\ attempts \in [Parcels -> 0 .. MaxAttempts - 1] /\ fate \in [Alerts -> Fates]
         /\ \A c \in Parcels : c \subseteq Alerts /\ c # {}
         /\ flight \subseteq Parcels \X {"claimed", "sending", "failed"} /\ Rows \subseteq Parcels
         /\ MaxAttempts \in Nat /\ MaxAttempts > 1 /\ MaxHookFaults \in Nat
         /\ hookFaults \in 0 .. MaxHookFaults
         /\ items \subseteq Bundled /\ Bundled \subseteq Alerts
<1>1. \A c \in Parcels : c \subseteq Alerts /\ c # {} BY DEF Parcels
<1>2. Rows \subseteq Parcels BY DEF Rows
<1>3. /\ drain \in [Drains -> DrainKind] /\ tries \in [Alerts -> 0 .. MaxAttempts]
      /\ attempts \in [Parcels -> 0 .. MaxAttempts - 1] /\ fate \in [Alerts -> Fates]
      /\ flight \subseteq Parcels \X {"claimed", "sending", "failed"}
      /\ hookFaults \in 0 .. MaxHookFaults /\ items \subseteq Bundled
  BY DEF WebTypeOK, DrainKind, Counts, Fates
<1> QED BY <1>1, <1>2, <1>3, WebAssumption

LEMMA HeldRow ==
  ASSUME WebTypeOK, NEW d \in Drains, NEW r \in Holds(d)
  PROVE  /\ r \in Parcels \X Counts /\ r # <<>> /\ r[1] \in Parcels /\ r[1] \subseteq Alerts
         /\ r[2] \in Counts /\ r = <<r[1], r[2]>>
<1>1. drain[d] \in DrainKind BY WebFound
<1>2. r \in Parcels \X Counts BY <1>1 DEF Holds, DrainKind
<1>3. PICK c \in Parcels, n \in Counts : r = <<c, n>> BY <1>2
<1>4. c \subseteq Alerts BY WebFound
<1>5. r[1] = c /\ r[2] = n /\ <<c, n>> # <<>> BY <1>3
<1> QED BY <1>2, <1>3, <1>4, <1>5

\* The parcel a drain is at is one it holds.
LEMMA RowIsHeld ==
  ASSUME WebTypeOK, HoldsSound, NEW d \in Drains, drain[d].at # "next"
  PROVE  drain[d].row \in Holds(d)
BY DEF HoldsSound, Holds

LEMMA OneDrain ==
  ASSUME WebTypeOK, NEW d \in Drains, NEW x \in DrainKind, drain' = [drain EXCEPT ![d] = x]
  PROVE  /\ drain' \in [Drains -> DrainKind] /\ drain'[d] = x
         /\ \A e \in Drains \ {d} : drain'[e] = drain[e] /\ Holds(e)' = Holds(e)
         /\ Holds(d)' = x.todo \cup ({x.row} \ {<<>>})
<1>1. drain \in [Drains -> DrainKind] BY WebFound
<1>2. drain'[d] = x /\ \A e \in Drains \ {d} : drain'[e] = drain[e] BY <1>1
<1> QED BY <1>1, <1>2 DEF Holds

(***************************************************************************)
(* Where alerts wait.                                                      *)
(***************************************************************************)

\* Parcels are put together, or one is handed on.
LEMMA DividesMoves ==
  ASSUME NEW W, NEW O, Divides(W, O), NEW R, R \subseteq W, NEW g,
         g[1] = UNION {f[1] : f \in R}
  PROVE  Divides((W \ R) \cup {g}, O)
<1>1. \A f \in W \ R : f[1] \cap g[1] = {} BY DEF Divides
<1>2. g[1] \subseteq O BY DEF Divides
<1>3. \A a \in O : \E f \in (W \ R) \cup {g} : a \in f[1]
  <2> TAKE a \in O
  <2>1. PICK f \in W : a \in f[1] BY DEF Divides
  <2>2. CASE f \in R BY <2>1, <2>2
  <2>3. CASE f \notin R BY <2>1, <2>3
  <2> QED BY <2>2, <2>3
<1> QED BY <1>1, <1>2, <1>3 DEF Divides

\* The alerts of some parcels come to an end.
LEMMA DividesEnds ==
  ASSUME NEW W, NEW O, Divides(W, O), NEW R, R \subseteq W
  PROVE  Divides(W \ R, O \ UNION {f[1] : f \in R})
<1>1. \A f \in W \ R, g \in R : f[1] \cap g[1] = {} BY DEF Divides
<1>2. \A f \in W \ R : f[1] \subseteq O \ UNION {h[1] : h \in R} BY <1>1 DEF Divides
<1>3. \A a \in O \ UNION {h[1] : h \in R} : \E f \in W \ R : a \in f[1]
  <2> TAKE a \in O \ UNION {h[1] : h \in R}
  <2>1. PICK f \in W : a \in f[1] BY DEF Divides
  <2> QED BY <2>1
<1> QED BY <1>2, <1>3 DEF Divides

LEMMA DividesAdds ==
  ASSUME NEW W, NEW O, Divides(W, O), NEW a, a \notin O, NEW g, g[1] = {a}
  PROVE  Divides(W \cup {g}, O \cup {a})
BY DEF Divides

\* What is kept in its place is told from the rest by its second part.
LEMMA Places3 ==
  ASSUME WebTypeOK
  PROVE  /\ \A x : <<{x}, "item">> \notin flight /\ <<{x}, "item">>[1] = {x} /\ <<{x}, "item">>[2] = "item"
         /\ \A c : <<c, "row">> \notin flight /\ <<c, "row">>[1] = c /\ <<c, "row">>[2] = "row"
         /\ \A f \in flight : f[1] \in Parcels /\ f[2] \in {"claimed", "sending", "failed"} /\ f = <<f[1], f[2]>>
BY DEF WebTypeOK

LEMMA EndEnds ==
  ASSUME WebTypeOK, NEW S, NEW how \in Fates \ {"none", "open"}, End(S, how)
  PROVE  /\ fate' \in [Alerts -> Fates] /\ Open' = Open \ S
         /\ \A a \in Alerts : /\ fate'[a] = IF a \in S /\ fate[a] = "open" THEN how ELSE fate[a]
                              /\ fate'[a] = "none" <=> fate[a] = "none"
                              /\ fate'[a] = "open" => fate[a] = "open"
<1>1. fate \in [Alerts -> Fates] BY WebFound
<1>2. \A a \in Alerts : fate'[a] = IF a \in S /\ fate[a] = "open" THEN how ELSE fate[a] BY DEF End
<1>3. fate' \in [Alerts -> Fates] BY <1>1 DEF End
<1> QED BY <1>2, <1>3 DEF Open, Fates

(***************************************************************************)
(* What a step leaves as it is.                                            *)
(***************************************************************************)

\* No alert is unraised, none is opened again, and the alerts of a row that
\* goes are not open.
FatesMove ==
    /\ \A a \in Alerts : fate'[a] = "none" => fate[a] = "none"
    /\ \A a \in Alerts : fate'[a] = "open" => fate[a] \in {"open", "none"}
    /\ \A c \in Rows \ Rows' : \A a \in c : fate'[a] # "open"

LEMMA HoldsShrink ==
  ASSUME WebTypeOK, HoldsSound, FatesMove, \A d \in Drains : Holds(d)' \subseteq Holds(d),
         \A d \in Drains : /\ drain'[d].at = "next" <=> drain'[d].row = <<>>
                           /\ drain'[d].row \notin drain'[d].todo
  PROVE  HoldsSound'
<1>1. ASSUME NEW d \in Drains, NEW r \in Holds(d)', NEW a \in r[1]
      PROVE  fate'[a] # "none" /\ (fate'[a] = "open" => r[1] \in Rows')
  <2>1. r \in Holds(d) BY <1>1
  <2>2. a \in Alerts BY <1>1, <2>1, HeldRow
  <2>3. fate[a] # "none" /\ (fate[a] = "open" => r[1] \in Rows) BY <1>1, <2>1 DEF HoldsSound
  <2> QED BY <1>1, <2>2, <2>3 DEF FatesMove
<1> QED BY <1>1 DEF HoldsSound

LEMMA TriesShrink ==
  ASSUME WebTypeOK, TriesCounted, \A d \in Drains : Holds(d)' \subseteq Holds(d),
         \A a \in Alerts : tries[a] <= tries'[a] /\ tries'[a] \in Nat,
         \A c \in Rows' : \A a \in c : attempts'[c] <= tries'[a],
         \A f \in flight' : f[2] = "failed" => f \in flight \/ \A a \in f[1] : tries'[a] > 0,
         \A d \in Drains : drain'[d].at = "write" => 
            \/ drain'[d] = drain[d] /\ drain[d].row \in Holds(d)
            \/ \A a \in drain'[d].row[1] : drain'[d].row[2] < tries'[a]
  PROVE  TriesCounted'
<1>0. tries \in [Alerts -> 0 .. MaxAttempts] /\ MaxAttempts \in Nat BY WebFound
<1>1. ASSUME NEW d \in Drains, NEW r \in Holds(d)', NEW a \in r[1] PROVE r[2] <= tries'[a]
  <2>1. r \in Holds(d) BY <1>1
  <2>2. a \in Alerts /\ r[2] \in Nat BY <1>1, <2>1, HeldRow, <1>0 DEF Counts
  <2>3. r[2] <= tries[a] BY <1>1, <2>1 DEF TriesCounted
  <2> QED BY <1>0, <2>2, <2>3
<1>2. ASSUME NEW f \in flight', f[2] = "failed", NEW a \in f[1] PROVE tries'[a] > 0
  <2>1. CASE f \in flight
    <3>1. a \in Alerts BY <1>2, <2>1, Places3, WebFound
    <3>2. tries[a] > 0 BY <1>2, <2>1 DEF TriesCounted
    <3> QED BY <1>0, <3>1, <3>2
  <2> QED BY <1>2, <2>1
<1>3. ASSUME NEW d \in Drains, drain'[d].at = "write", NEW a \in drain'[d].row[1]
      PROVE  drain'[d].row[2] < tries'[a]
  <2>1. CASE drain'[d] = drain[d] /\ drain[d].row \in Holds(d)
    <3>1. a \in Alerts /\ drain[d].row[2] \in Nat BY <1>0, <1>3, <2>1, HeldRow DEF Counts
    <3>2. drain[d].row[2] < tries[a] BY <1>3, <2>1 DEF TriesCounted
    <3> QED BY <1>0, <2>1, <3>1, <3>2
  <2> QED BY <1>3, <2>1
<1> QED BY <1>1, <1>2, <1>3 DEF TriesCounted

LEMMA RepeatsShrink ==
  ASSUME WebTypeOK, HoldsSound, RepeatsKnown, FatesMove,
         \A d \in Drains : Holds(d)' \subseteq Holds(d) /\ ToSend(d)' \subseteq ToSend(d),
         UNCHANGED <<got, twice>>, mayRepeat \subseteq mayRepeat',
         \A f \in Waiting' : Unsent(f) => f[1] \cap got = {},
         \A f \in flight' : f[2] = "failed" => f \in flight,
         \A c \in Rows' : c \in Rows \/ <<c, "failed">> \in flight,
         \A d \in Drains : drain'[d].at = "write" => drain'[d] = drain[d],
         \A d \in Drains : drain[d].at = "write" =>
            \/ drain'[d] = drain[d]
            \/ drain[d].row[1] \notin Rows'
            \/ drain[d].row[1] \cap got \subseteq mayRepeat'
  PROVE  RepeatsKnown'
<1>1. \A a \in got' : fate'[a] # "none" BY DEF RepeatsKnown, FatesMove, WebTypeOK
<1>2. \A f \in flight' : f[2] = "failed" => f[1] \cap got' \subseteq mayRepeat' BY DEF RepeatsKnown
<1>3. ASSUME NEW c \in Rows' PROVE (\E d \in Drains : Writes(d, c)') \/ c \cap got' \subseteq mayRepeat'
  <2>1. CASE c \in Rows
    <3>1. CASE c \cap got \subseteq mayRepeat BY <3>1
    <3>2. CASE \E d \in Drains : Writes(d, c)
      <4>1. PICK d \in Drains : Writes(d, c) BY <3>2
      <4>2. CASE drain'[d] = drain[d] BY <4>1, <4>2 DEF Writes
      <4>3. CASE drain[d].row[1] \cap got \subseteq mayRepeat' BY <4>1, <4>3 DEF Writes
      <4> QED BY <1>3, <4>1, <4>2, <4>3 DEF Writes
    <3> QED BY <2>1, <3>1, <3>2 DEF RepeatsKnown
  <2>2. CASE <<c, "failed">> \in flight
    <3>1. <<c, "failed">>[1] = c /\ <<c, "failed">>[2] = "failed" OBVIOUS
    <3>2. c \cap got \subseteq mayRepeat BY <2>2, <3>1 DEF RepeatsKnown
    <3> QED BY <3>2
  <2> QED BY <1>3, <2>1, <2>2
<1>4. \A d \in Drains : \A r \in ToSend(d)' : r[1] \cap got' \subseteq mayRepeat' BY DEF RepeatsKnown
<1>5. \A d, e \in Drains : d # e => \A r \in Holds(d)', s \in Holds(e)' : r[1] = s[1] => r[1] \subseteq mayRepeat'
  BY DEF RepeatsKnown
<1>6. \A d \in Drains : drain'[d].at = "write" =>
          IF drain'[d].outcome = "ok" THEN drain'[d].row[1] \subseteq got'
          ELSE drain'[d].row[1] \cap got' \subseteq mayRepeat'
  BY DEF RepeatsKnown
<1> QED BY <1>1, <1>2, <1>3, <1>4, <1>5, <1>6 DEF RepeatsKnown

LEMMA EndsStay ==
  ASSUME WebTypeOK, EndsAreTrue, got \subseteq got', muted \subseteq muted',
         hookFaults' \in {hookFaults, hookFaults + 1},
         \A a \in Alerts : tries[a] <= tries'[a] /\ tries'[a] \in Nat,
         \A a \in Alerts : \/ fate'[a] = fate[a]
                           \/ fate'[a] \in {"none", "open", "refused"}
                           \/ fate'[a] = "delivered" /\ a \in got'
                           \/ fate'[a] = "gaveUp" /\ tries'[a] >= MaxAttempts
                           \/ fate'[a] = "dropped" /\ a \in muted'
                           \/ fate'[a] = "cut" /\ hookFaults' > 0
  PROVE  EndsAreTrue'
<1>1. tries \in [Alerts -> 0 .. MaxAttempts] /\ MaxAttempts \in Nat /\ hookFaults \in Nat BY WebFound
<1> SUFFICES ASSUME NEW a \in Alerts
             PROVE  /\ fate'[a] = "delivered" => a \in got'
                    /\ fate'[a] = "gaveUp" => tries'[a] >= MaxAttempts
                    /\ fate'[a] = "dropped" => a \in muted'
                    /\ fate'[a] = "cut" => hookFaults' > 0
  BY DEF EndsAreTrue
<1>2. CASE fate'[a] = fate[a]
  <2>1. fate[a] = "gaveUp" => tries'[a] >= MaxAttempts
    <3>1. tries[a] \in Nat BY <1>1
    <3>2. tries[a] <= tries'[a] /\ tries'[a] \in Nat OBVIOUS
    <3>3. fate[a] = "gaveUp" => tries[a] >= MaxAttempts BY DEF EndsAreTrue
    <3> QED BY <1>1, <3>1, <3>2, <3>3
  <2> QED BY <1>1, <1>2, <2>1 DEF EndsAreTrue
<1>3. CASE fate'[a] # fate[a] BY <1>3
<1> QED BY <1>2, <1>3

\* A step no drain takes, and that posts nothing.
LEMMA WithoutDrains ==
  ASSUME WebInv, UNCHANGED <<drain, tries, got, twice, mayRepeat>>, FatesMove,
         \A f \in Waiting' : Unsent(f) => f[1] \cap got = {},
         \A f \in flight' : f[2] = "failed" => f \in flight,
         \A c \in Rows' : \/ c \in Rows /\ attempts'[c] = attempts[c]
                          \/ <<c, "failed">> \in flight /\ attempts'[c] = 1
  PROVE  HoldsSound' /\ TriesCounted' /\ RepeatsKnown'
<1>1. /\ WebTypeOK /\ HoldsSound /\ TriesCounted /\ RepeatsKnown
      /\ tries \in [Alerts -> 0 .. MaxAttempts] /\ MaxAttempts \in Nat
  BY WebFound DEF WebInv
<1>2. \A d \in Drains : Holds(d)' = Holds(d) /\ ToSend(d)' = ToSend(d) BY DEF Holds, ToSend, Writes
<1>3. HoldsSound'
  <2>1. \A d \in Drains : /\ drain'[d].at = "next" <=> drain'[d].row = <<>>
                          /\ drain'[d].row \notin drain'[d].todo
    BY <1>1 DEF HoldsSound
  <2> QED BY <1>1, <1>2, <2>1, HoldsShrink
<1>4. TriesCounted'
  <2>1. \A a \in Alerts : tries[a] <= tries'[a] /\ tries'[a] \in Nat BY <1>1
  <2>2. \A c \in Rows' : \A a \in c : attempts'[c] <= tries'[a]
    <3> SUFFICES ASSUME NEW c \in Rows', NEW a \in c PROVE attempts'[c] <= tries[a] OBVIOUS
    <3>1. CASE c \in Rows /\ attempts'[c] = attempts[c] BY <1>1, <3>1 DEF TriesCounted
    <3>2. CASE <<c, "failed">> \in flight /\ attempts'[c] = 1
      <4>1. <<c, "failed">>[1] = c /\ <<c, "failed">>[2] = "failed" OBVIOUS
      <4>2. tries[a] > 0 BY <1>1, <3>2, <4>1 DEF TriesCounted
      <4>3. a \in Alerts BY <1>1, <3>2, <4>1, Places3, WebFound
      <4> QED BY <1>1, <3>2, <4>2, <4>3
    <3> QED BY <3>1, <3>2
  <2>3. \A d \in Drains : drain'[d].at = "write" => drain'[d] = drain[d] /\ drain[d].row \in Holds(d)
    BY <1>1, RowIsHeld
  <2> QED BY <1>1, <1>2, <2>1, <2>2, <2>3, TriesShrink
<1>5. RepeatsKnown' BY <1>1, <1>2, RepeatsShrink
<1> QED BY <1>3, <1>4, <1>5

\* A parcel in memory is handed on in memory.
LEMMA FlightMoves ==
  ASSUME WebInv, NEW c \in Parcels, NEW x \in {"claimed", "sending", "failed"},
         NEW y \in {"claimed", "sending", "failed"}, <<c, x>> \in flight,
         flight' = (flight \ {<<c, x>>}) \cup {<<c, y>>}, UNCHANGED <<items, attempts>>
  PROVE  Divides(Waiting', Open) /\ Waiting' = (Waiting \ {<<c, x>>}) \cup {<<c, y>>}
<1>1. Rows' = Rows BY DEF Rows
<1>2. Waiting' = (Waiting \ {<<c, x>>}) \cup {<<c, y>>} BY <1>1 DEF Waiting
<1>3. Divides(Waiting, Open) /\ {<<c, x>>} \subseteq Waiting BY DEF Waiting, WebInv
<1>4. <<c, y>>[1] = UNION {f[1] : f \in {<<c, x>>}} OBVIOUS
<1> QED BY <1>2, <1>3, <1>4, DividesMoves

\* A parcel in memory comes to an end.
LEMMA FlightEnds ==
  ASSUME WebInv, NEW f \in flight, flight' = flight \ {f}, UNCHANGED <<items, attempts>>,
         Open' = Open \ f[1]
  PROVE  Divides(Waiting', Open') /\ Waiting' = Waiting \ {f}
<1>1. Rows' = Rows BY DEF Rows
<1>2. WebTypeOK /\ Divides(Waiting, Open) /\ {f} \subseteq Waiting BY DEF Waiting, WebInv
<1>3. Waiting' = Waiting \ {f}
  <2>1. f[2] \notin {"item", "row"} BY <1>2, Places3
  <2> QED BY <1>1, <2>1 DEF Waiting
<1>4. f[1] = UNION {g[1] : g \in {f}} OBVIOUS
<1>5. Divides(Waiting \ {f}, Open \ UNION {g[1] : g \in {f}}) BY <1>2, DividesEnds
<1> QED BY <1>3, <1>4, <1>5

LEMMA RaiseStep == ASSUME WebInv, NEW a \in Alerts, Raise(a) PROVE WebInv'
<1>1. /\ WebTypeOK /\ RepeatsKnown /\ fate \in [Alerts -> Fates]
      /\ fate[a] = "none" /\ channel = "on" /\ fate' = [fate EXCEPT ![a] = "open"]
      /\ UNCHANGED <<channel, attempts, due, drain, hookFaults, tries, got, twice, muted, mayRepeat>>
      /\ Rows' = Rows
  BY WebFound DEF WebInv, Raise, Rows
<1>2. Open' = Open \cup {a} /\ a \notin Open BY <1>1 DEF Open
<1>3. PICK g \in {<<{a}, "item">>, <<{a}, "sending">>} :
        /\ Waiting' = Waiting \cup {g} /\ g[1] = {a}
        /\ g[2] = "sending" => flight' = flight \cup {g} /\ items' = items
        /\ g[2] # "sending" => flight' = flight /\ items' = items \cup {a} /\ a \in Bundled
  <2>1. CASE a \in Bundled /\ items' = items \cup {a} /\ UNCHANGED flight
    <3>1. Waiting' = Waiting \cup {<<{a}, "item">>} BY <1>1, <2>1 DEF Waiting
    <3> QED BY <2>1, <3>1
  <2>2. CASE flight' = flight \cup {<<{a}, "sending">>} /\ UNCHANGED items
    <3>1. Waiting' = Waiting \cup {<<{a}, "sending">>} BY <1>1, <2>2 DEF Waiting
    <3> QED BY <2>2, <3>1
  <2> QED BY <2>1, <2>2 DEF Raise
<1>4. Divides(Waiting', Open')
  <2>1. Divides(Waiting, Open) BY DEF WebInv
  <2>2. Divides(Waiting \cup {g}, Open \cup {a}) BY <1>2, <1>3, <2>1, DividesAdds
  <2> QED BY <1>2, <1>3, <2>2
<1>5. WebTypeOK'
  <2>1. {a} \in Parcels BY DEF Parcels
  <2>2. items' \subseteq Bundled /\ flight' \subseteq Parcels \X {"claimed", "sending", "failed"}
    <3>1. items \subseteq Bundled /\ flight \subseteq Parcels \X {"claimed", "sending", "failed"} BY <1>1, WebFound
    <3>2. CASE g = <<{a}, "item">>
      <4>1. g[2] # "sending" BY <3>2
      <4> QED BY <1>3, <3>1, <4>1
    <3>3. CASE g = <<{a}, "sending">>
      <4>1. g[2] = "sending" /\ g \in Parcels \X {"claimed", "sending", "failed"} BY <2>1, <3>3
      <4> QED BY <1>3, <3>1, <4>1
    <3> QED BY <3>2, <3>3
  <2>3. fate' \in [Alerts -> Fates] BY <1>1 DEF Fates
  <2> QED BY <1>1, <2>2, <2>3 DEF WebTypeOK, Fates
<1>6. HoldsSound' /\ TriesCounted' /\ RepeatsKnown'
  <2>1. FatesMove BY <1>1 DEF FatesMove
  <2>2. a \notin got BY <1>1 DEF RepeatsKnown
  <2>3. \A f \in Waiting' : Unsent(f) => f[1] \cap got = {} BY <1>1, <1>3, <2>2 DEF RepeatsKnown
  <2>4. \A f \in flight' : f[2] = "failed" => f \in flight BY <1>3
  <2> QED BY <1>1, <2>1, <2>3, <2>4, WithoutDrains
<1>7. Deleted' /\ MutedWhileOff' BY <1>1 DEF Deleted, MutedWhileOff
<1>8. EndsAreTrue'
  <2>1. \A b \in Alerts : tries[b] \in Nat /\ tries[b] <= tries[b] BY <1>1, WebFound
  <2>2. \A b \in Alerts : fate'[b] = fate[b] \/ fate'[b] = "open" BY <1>1
  <2> QED BY <1>1, <2>1, <2>2, EndsStay DEF WebInv
<1> QED BY <1>4, <1>5, <1>6, <1>7, <1>8 DEF WebInv

LEMMA RaiseFailsStep == ASSUME WebInv, NEW a \in Alerts, RaiseFails(a) PROVE WebInv'
<1>1. /\ WebTypeOK /\ RepeatsKnown /\ fate \in [Alerts -> Fates]
      /\ fate[a] = "none" /\ channel = "on" /\ fate' = [fate EXCEPT ![a] = "cut"]
      /\ hookFaults' = hookFaults + 1 /\ hookFaults < MaxHookFaults
      /\ hookFaults \in 0 .. MaxHookFaults /\ MaxHookFaults \in Nat
      /\ UNCHANGED <<channel, items, attempts, due, flight, drain, tries, got, twice, muted, mayRepeat>>
      /\ Rows' = Rows /\ Waiting' = Waiting
  BY WebFound DEF WebInv, RaiseFails, Rows, stores, HookFault, Waiting
<1>2. Open' = Open BY <1>1 DEF Open
<1>3. WebTypeOK'
  <2>1. fate' \in [Alerts -> Fates] BY <1>1 DEF Fates
  <2>2. hookFaults' \in 0 .. MaxHookFaults BY <1>1
  <2> QED BY <1>1, <2>1, <2>2 DEF WebTypeOK, Fates
<1>4. HoldsSound' /\ TriesCounted' /\ RepeatsKnown'
  <2>1. FatesMove BY <1>1 DEF FatesMove
  <2>2. \A f \in Waiting' : Unsent(f) => f[1] \cap got = {} BY <1>1 DEF RepeatsKnown
  <2> QED BY <1>1, <2>1, <2>2, WithoutDrains
<1>5. Deleted' /\ MutedWhileOff' BY <1>1 DEF Deleted, MutedWhileOff
<1>6. EndsAreTrue'
  <2>1. \A b \in Alerts : tries[b] \in Nat /\ tries[b] <= tries[b] BY <1>1, WebFound
  <2>2. \A b \in Alerts : fate'[b] = fate[b] \/ (fate'[b] = "cut" /\ hookFaults' > 0) BY <1>1
  <2> QED BY <1>1, <2>1, <2>2, EndsStay DEF WebInv
<1> QED BY <1>1, <1>2, <1>3, <1>4, <1>5, <1>6 DEF WebInv

\* A parcel in memory is dropped or cut, and its alerts come to that end.
LEMMA FlightEndsStep ==
  ASSUME WebInv, NEW f \in flight, flight' = flight \ {f}, NEW how \in {"dropped", "cut"}, End(f[1], how),
         UNCHANGED <<channel, stores, drain, tries, got, twice, muted, mayRepeat>>,
         hookFaults' \in {hookFaults, hookFaults + 1} /\ hookFaults' =< MaxHookFaults,
         how = "cut" => hookFaults' > 0,
         how = "dropped" => channel # "on"
  PROVE  WebInv'
<1>1. /\ WebTypeOK /\ RepeatsKnown /\ fate \in [Alerts -> Fates]
      /\ hookFaults \in 0 .. MaxHookFaults /\ MaxHookFaults \in Nat
      /\ UNCHANGED <<items, attempts, due>> /\ Rows' = Rows
      /\ f[1] \subseteq Alerts
  BY WebFound, Places3 DEF WebInv, Rows, stores
<1>2. /\ fate' \in [Alerts -> Fates] /\ Open' = Open \ f[1]
      /\ \A a \in Alerts : /\ fate'[a] = IF a \in f[1] /\ fate[a] = "open" THEN how ELSE fate[a]
                           /\ fate'[a] = "none" <=> fate[a] = "none"
                           /\ fate'[a] = "open" => fate[a] = "open"
  <2>1. how \in Fates \ {"none", "open"} BY DEF Fates
  <2> QED BY <1>1, <2>1, EndEnds
<1>3. Divides(Waiting, Open)' /\ Waiting' = Waiting \ {f} BY <1>1, <1>2, FlightEnds
<1>4. WebTypeOK'
  <2>1. hookFaults' \in 0 .. MaxHookFaults BY <1>1
  <2>2. flight' \in SUBSET (Parcels \X {"claimed", "sending", "failed"}) BY <1>1 DEF WebTypeOK
  <2> QED BY <1>1, <1>2, <2>1, <2>2 DEF WebTypeOK, Fates
<1>5. HoldsSound' /\ TriesCounted' /\ RepeatsKnown'
  <2>1. FatesMove BY <1>1, <1>2 DEF FatesMove
  <2>2. \A g \in Waiting' : Unsent(g) => g[1] \cap got = {} BY <1>1, <1>3 DEF RepeatsKnown
  <2> QED BY <1>1, <2>1, <2>2, WithoutDrains
<1>6. Deleted' BY <1>1 DEF WebInv, Deleted
<1>7. MutedWhileOff' BY <1>2 DEF WebInv, MutedWhileOff
<1>8. EndsAreTrue'
  <2>1. \A b \in Alerts : tries[b] \in Nat /\ tries[b] <= tries[b] BY <1>1, WebFound
  <2>2. \A b \in Alerts : fate[b] = "open" => (channel # "on" => b \in muted)
    BY DEF WebInv, MutedWhileOff, Open
  <2>3. \A b \in Alerts : \/ fate'[b] = fate[b]
                          \/ fate'[b] = "dropped" /\ b \in muted
                          \/ fate'[b] = "cut" /\ hookFaults' > 0
    BY <1>2, <2>2
  <2> QED BY <1>1, <2>1, <2>3, EndsStay DEF WebInv
<1> QED BY <1>3, <1>4, <1>5, <1>6, <1>7, <1>8 DEF WebInv

LEMMA FlightFailsStep == ASSUME WebInv, NEW f \in flight, FlightFails(f) PROVE WebInv'
<1>1. hookFaults \in 0 .. MaxHookFaults /\ MaxHookFaults \in Nat BY WebFound DEF WebInv
<1>2. /\ flight' = flight \ {f} /\ End(f[1], "cut")
      /\ UNCHANGED <<channel, stores, drain, tries, got, twice, muted, mayRepeat>>
      /\ hookFaults' = hookFaults + 1 /\ hookFaults' =< MaxHookFaults /\ hookFaults' > 0
  BY <1>1 DEF FlightFails, HookFault
<1> QED BY <1>2, FlightEndsStep

LEMMA EnqueueRetryStep == ASSUME WebInv, NEW c \in Parcels, EnqueueRetry(c) PROVE WebInv'
<1> DEFINE f == <<c, "failed">>
           g == <<c, "row">>
<1>1. /\ WebTypeOK /\ RepeatsKnown /\ f \in flight /\ f[1] = c /\ f[2] = "failed" /\ g[1] = c /\ g[2] = "row"
      /\ flight' = flight \ {f}
      /\ UNCHANGED <<channel, items, due, drain, hookFaults, tries, got, twice, muted, mayRepeat>>
      /\ hookFaults \in 0 .. MaxHookFaults /\ MaxHookFaults \in Nat /\ MaxAttempts \in Nat /\ MaxAttempts > 1
      /\ attempts \in [Parcels -> 0 .. MaxAttempts - 1]
  BY WebFound DEF WebInv, EnqueueRetry
<1>2. CASE channel = "gone" /\ End(c, "dropped") /\ UNCHANGED attempts
  <2>1. UNCHANGED <<channel, stores, drain, tries, got, twice, muted, mayRepeat>> BY <1>1, <1>2 DEF stores
  <2> QED BY <1>1, <1>2, <2>1, FlightEndsStep
<1>3. CASE channel # "gone" /\ attempts' = [attempts EXCEPT ![c] = 1] /\ UNCHANGED fate
  <2>1. /\ attempts' \in [Parcels -> 0 .. MaxAttempts - 1] /\ attempts'[c] = 1
        /\ \A p \in Parcels \ {c} : attempts'[p] = attempts[p]
    BY <1>1, <1>3
  <2>2. Rows' = Rows \cup {c} BY <2>1 DEF Rows
  <2>3. Waiting' = (Waiting \ {f}) \cup {g}
    <3>1. \A x : f # <<{x}, "item">> BY <1>1, Places3
    <3>2. \A p : f # <<p, "row">> BY <1>1, Places3
    <3> HIDE DEF f
    <3> QED BY <1>1, <2>2, <3>1, <3>2 DEF Waiting
  <2>4. Divides(Waiting, Open)'
    <3>1. Divides(Waiting, Open) /\ {f} \subseteq Waiting BY <1>1 DEF WebInv, Waiting
    <3>2. g[1] = UNION {h[1] : h \in {f}} BY <1>1
    <3>3. Divides((Waiting \ {f}) \cup {g}, Open) BY <3>1, <3>2, DividesMoves
    <3> QED BY <1>3, <2>3, <3>3 DEF Open
  <2>5. WebTypeOK'
    <3>1. due \in SUBSET {p \in Parcels : attempts'[p] > 0}
      <4>1. due \in SUBSET {p \in Parcels : attempts[p] > 0} BY <1>1 DEF WebTypeOK
      <4>2. \A p \in Parcels : attempts[p] > 0 => attempts'[p] > 0 BY <2>1
      <4> QED BY <4>1, <4>2
    <3> QED BY <1>1, <1>3, <2>1, <3>1 DEF WebTypeOK
  <2>6. HoldsSound' /\ TriesCounted' /\ RepeatsKnown'
    <3>1. FatesMove BY <1>3, <2>2 DEF FatesMove
    <3>2. \A h \in Waiting' : Unsent(h) => h[1] \cap got = {} BY <1>1, <2>3 DEF RepeatsKnown, Unsent
    <3>3. \A p \in Rows' : \/ p \in Rows /\ attempts'[p] = attempts[p]
                           \/ <<p, "failed">> \in flight /\ attempts'[p] = 1
      BY <1>1, <2>1, <2>2, WebFound
    <3> QED BY <1>1, <3>1, <3>2, <3>3, WithoutDrains
  <2>7. Deleted' BY <1>1, <1>3 DEF Deleted
  <2>8. MutedWhileOff' /\ EndsAreTrue' BY <1>1, <1>3 DEF WebInv, MutedWhileOff, EndsAreTrue, Open
  <2> QED BY <2>4, <2>5, <2>6, <2>7, <2>8 DEF WebInv
<1> QED BY <1>2, <1>3 DEF EnqueueRetry

LEMMA FlushClaimStep == ASSUME WebInv, FlushClaim PROVE WebInv'
<1> DEFINE g == <<items, "claimed">>
           R == {<<{x}, "item">> : x \in items}
<1>1. /\ WebTypeOK /\ RepeatsKnown /\ items # {} /\ g[1] = items /\ g[2] = "claimed"
      /\ flight' = flight \cup {g} /\ items' = {}
      /\ UNCHANGED <<channel, attempts, due, drain, hookFaults, fate, tries, got, twice, muted, mayRepeat>>
      /\ items \in Parcels /\ Rows' = Rows /\ Open' = Open
  BY WebFound DEF WebInv, FlushClaim, hookHistory, Parcels, Rows, Open
<1>2. Waiting' = (Waiting \ R) \cup {g}
  <2>1. \A x : <<{x}, "item">> \notin flight BY <1>1, Places3
  <2>2. \A x, c : <<{x}, "item">> # <<c, "row">> OBVIOUS
  <2>3. Waiting \ R = flight \cup {<<c, "row">> : c \in Rows} BY <2>1, <2>2 DEF Waiting
  <2>4. Waiting' = (flight \cup {<<c, "row">> : c \in Rows}) \cup {g} BY <1>1 DEF Waiting
  <2> QED BY <2>3, <2>4
<1>3. g[1] = UNION {h[1] : h \in R}
  <2>1. \A x \in items : <<{x}, "item">> \in R /\ x \in <<{x}, "item">>[1] OBVIOUS
  <2>2. \A h \in R : h[1] \subseteq items OBVIOUS
  <2> HIDE DEF R
  <2> QED BY <1>1, <2>1, <2>2
<1>4. Divides(Waiting, Open)'
  <2>1. Divides(Waiting, Open) /\ R \subseteq Waiting BY DEF WebInv, Waiting
  <2> HIDE DEF g, R
  <2> QED BY <1>1, <1>2, <1>3, <2>1, DividesMoves
<1>5. WebTypeOK'
  <2>1. flight' \in SUBSET (Parcels \X {"claimed", "sending", "failed"}) BY <1>1 DEF WebTypeOK
  <2> QED BY <1>1, <2>1 DEF WebTypeOK
<1>6. HoldsSound' /\ TriesCounted' /\ RepeatsKnown'
  <2>1. FatesMove BY <1>1 DEF FatesMove
  <2>2. items \cap got = {}
    <3>1. \A x \in items : <<{x}, "item">> \in Waiting /\ Unsent(<<{x}, "item">>) /\ <<{x}, "item">>[1] = {x}
      BY DEF Waiting, Unsent
    <3> QED BY <1>1, <3>1 DEF RepeatsKnown
  <2>3. \A h \in Waiting' : Unsent(h) => h[1] \cap got = {} BY <1>1, <1>2, <2>2 DEF RepeatsKnown
  <2> QED BY <1>1, <2>1, <2>3, WithoutDrains
<1>7. Deleted' /\ MutedWhileOff' /\ EndsAreTrue'
  BY <1>1 DEF WebInv, Deleted, MutedWhileOff, EndsAreTrue
<1> QED BY <1>4, <1>5, <1>6, <1>7 DEF WebInv

LEMMA FlushReadsChannelStep == ASSUME WebInv, NEW c \in Parcels, FlushReadsChannel(c) PROVE WebInv'
<1> DEFINE f == <<c, "claimed">>
           g == <<c, "sending">>
<1>1. /\ WebTypeOK /\ RepeatsKnown /\ f \in flight /\ f[1] = c /\ f[2] = "claimed" /\ g[1] = c /\ g[2] = "sending"
      /\ UNCHANGED <<channel, stores, drain, hookFaults, tries, got, twice, muted, mayRepeat>>
      /\ UNCHANGED <<items, attempts, due>> /\ Rows' = Rows
      /\ hookFaults \in 0 .. MaxHookFaults /\ MaxHookFaults \in Nat
  BY WebFound DEF WebInv, FlushReadsChannel, stores, Rows
<1>2. CASE channel # "on" /\ flight' = flight \ {f} /\ End(c, "dropped")
  BY <1>1, <1>2, FlightEndsStep
<1>3. CASE flight' = (flight \ {f}) \cup {g} /\ UNCHANGED fate
  <2>1. Open' = Open BY <1>3 DEF Open
  <2>2. Divides(Waiting, Open)' /\ Waiting' = (Waiting \ {f}) \cup {g} BY <1>1, <1>3, <2>1, FlightMoves
  <2>3. WebTypeOK'
    <3>1. flight' \in SUBSET (Parcels \X {"claimed", "sending", "failed"}) BY <1>1, <1>3 DEF WebTypeOK
    <3> QED BY <1>1, <1>3, <3>1 DEF WebTypeOK
  <2>4. HoldsSound' /\ TriesCounted' /\ RepeatsKnown'
    <3>1. FatesMove BY <1>1, <1>3 DEF FatesMove
    <3>2. c \cap got = {}
      <4>1. f \in Waiting /\ Unsent(f) BY <1>1 DEF Waiting, Unsent
      <4> QED BY <1>1, <4>1 DEF RepeatsKnown
    <3>3. \A h \in Waiting' : Unsent(h) => h[1] \cap got = {} BY <1>1, <2>2, <3>2 DEF RepeatsKnown
    <3>4. \A h \in flight' : h[2] = "failed" => h \in flight BY <1>1, <1>3
    <3> QED BY <1>1, <3>1, <3>3, <3>4, WithoutDrains
  <2>5. Deleted' /\ MutedWhileOff' /\ EndsAreTrue'
    BY <1>1, <1>3, <2>1 DEF WebInv, Deleted, MutedWhileOff, EndsAreTrue
  <2> QED BY <2>2, <2>3, <2>4, <2>5 DEF WebInv
<1> QED BY <1>2, <1>3 DEF FlushReadsChannel

\* What an attempt does to what is known of the alerts of its parcel.
LEMMA AttemptIs ==
  ASSUME WebTypeOK, NEW c \in Parcels, NEW outcome \in {"ok", "permanent", "transient"}, Attempt(c, outcome)
  PROVE  /\ tries' \in [Alerts -> 0 .. MaxAttempts]
         /\ \A a \in Alerts : tries[a] <= tries'[a] /\ tries'[a] \in Nat
         /\ \A a \in c : \A n \in 0 .. MaxAttempts - 1 : n <= tries[a] => n < tries'[a]
         /\ hookFaults' \in {hookFaults, hookFaults + 1} /\ hookFaults' \in 0 .. MaxHookFaults
         /\ got \subseteq got' /\ got' \subseteq got \cup c /\ got' \subseteq Alerts
         /\ twice' \subseteq got' /\ twice' \subseteq twice \cup (c \cap got)
         /\ mayRepeat \subseteq mayRepeat' /\ mayRepeat' \subseteq Alerts
         /\ IF outcome = "ok" THEN c \subseteq got' ELSE got' = got \/ c \subseteq mayRepeat'
<1>1. /\ tries \in [Alerts -> 0 .. MaxAttempts] /\ MaxAttempts \in Nat /\ c \subseteq Alerts
      /\ hookFaults \in 0 .. MaxHookFaults /\ MaxHookFaults \in Nat
      /\ got \subseteq Alerts /\ twice \subseteq got /\ mayRepeat \subseteq Alerts
  BY WebFound DEF WebTypeOK
<1>2. tries' = [a \in Alerts |-> IF a \in c /\ tries[a] < MaxAttempts THEN tries[a] + 1 ELSE tries[a]]
  BY DEF Attempt, Posted
<1>3. \A a \in Alerts : /\ tries'[a] \in 0 .. MaxAttempts /\ tries[a] <= tries'[a]
                        /\ a \in c => \A n \in 0 .. MaxAttempts - 1 : n <= tries[a] => n < tries'[a]
  BY <1>1, <1>2
<1>4. tries' \in [Alerts -> 0 .. MaxAttempts] BY <1>2, <1>3
<1>5. /\ hookFaults' \in {hookFaults, hookFaults + 1} /\ hookFaults' \in 0 .. MaxHookFaults
      /\ mayRepeat' \in {mayRepeat, mayRepeat \cup c}
      /\ \/ got' = got /\ twice' = twice
         \/ got' = got \cup c /\ twice' = twice \cup (c \cap got)
      /\ IF outcome = "ok" THEN got' = got \cup c ELSE got' = got \/ mayRepeat' = mayRepeat \cup c
  BY <1>1 DEF Attempt, Taken, HookFault
<1> QED BY <1>1, <1>3, <1>4, <1>5

\* An alert in a parcel a drain holds waits, if it does, in that parcel's row.
LEMMA HeldWaitsInRow ==
  ASSUME WebInv, NEW d \in Drains, NEW r \in Holds(d), NEW f \in Waiting, r[1] \cap f[1] # {}
  PROVE  r[1] \in Rows /\ f = <<r[1], "row">> /\ f[1] = r[1] /\ f[2] = "row"
<1>1. PICK a \in r[1] : a \in f[1] OBVIOUS
<1>2. a \in Open BY <1>1 DEF WebInv, Divides
<1>3. r[1] \in Rows BY <1>1, <1>2 DEF WebInv, HoldsSound, Open
<1>4. <<r[1], "row">> \in Waiting /\ <<r[1], "row">>[1] = r[1] BY <1>3 DEF Waiting
<1> QED BY <1>1, <1>3, <1>4 DEF WebInv, Divides

LEMMA FirstAttemptStep == ASSUME WebInv, NEW c \in Parcels, FirstAttempt(c) PROVE WebInv'
<1> DEFINE f == <<c, "sending">>
           g == <<c, "failed">>
<1>1. PICK outcome \in {"ok", "permanent", "transient"} :
        /\ Attempt(c, outcome)
        /\ flight' = (flight \ {f}) \cup (IF outcome = "transient" THEN {g} ELSE {})
        /\ CASE outcome = "ok" -> End(c, "delivered")
             [] outcome = "permanent" -> End(c, "refused")
             [] OTHER -> UNCHANGED fate
  BY DEF FirstAttempt
<1>2. /\ WebTypeOK /\ HoldsSound /\ TriesCounted /\ RepeatsKnown /\ Divides(Waiting, Open)
      /\ f \in flight /\ f \in Waiting /\ f[1] = c /\ f[2] = "sending" /\ g[1] = c /\ g[2] = "failed"
      /\ UNCHANGED <<channel, items, attempts, due, drain, muted>> /\ Rows' = Rows
      /\ \A d \in Drains : Holds(d)' = Holds(d) /\ ToSend(d)' = ToSend(d)
      /\ c \subseteq Alerts
  BY WebFound DEF WebInv, FirstAttempt, stores, Rows, Waiting, Holds, ToSend, Writes
<1>3. \E S \in {c, {}} :
        /\ Waiting' \subseteq (Waiting \ {f}) \cup {g} /\ Divides(Waiting', Open')
        /\ Open' = Open \ S
        /\ fate' \in [Alerts -> Fates]
        /\ \A a \in Alerts : /\ fate'[a] = "none" <=> fate[a] = "none"
                             /\ fate'[a] = "open" => fate[a] = "open"
                             /\ fate'[a] = fate[a] \/ (fate'[a] = "delivered" /\ a \in got') \/ fate'[a] = "refused"
  <2>1. fate \in [Alerts -> Fates] BY <1>2, WebFound
  <2>2. CASE outcome = "transient"
    <3>1. flight' = (flight \ {f}) \cup {g} /\ fate' = fate BY <1>1, <2>2
    <3>2. Open' = Open \ {} BY <3>1 DEF Open
    <3> QED BY <1>2, <2>1, <3>1, <3>2, FlightMoves, ZenonT(60)
  <2>3. CASE outcome # "transient"
    <3>1. PICK how \in {"delivered", "refused"} : End(c, how) /\ (how = "delivered" => outcome = "ok")
      BY <1>1, <2>3
    <3>2. flight' = flight \ {f} BY <1>1, <2>3
    <3>3. /\ fate' \in [Alerts -> Fates] /\ Open' = Open \ c
          /\ \A a \in Alerts : /\ fate'[a] = IF a \in c /\ fate[a] = "open" THEN how ELSE fate[a]
                               /\ fate'[a] = "none" <=> fate[a] = "none"
                               /\ fate'[a] = "open" => fate[a] = "open"
      <4>1. how \in Fates \ {"none", "open"} BY DEF Fates
      <4> QED BY <1>2, <3>1, <4>1, EndEnds
    <3>4. Divides(Waiting', Open') /\ Waiting' = Waiting \ {f} BY <1>2, <3>2, <3>3, FlightEnds
    <3>5. how = "delivered" => c \subseteq got' BY <1>1, <1>2, <3>1, AttemptIs
    <3> QED BY <3>3, <3>4, <3>5
  <2> QED BY <2>2, <2>3
\* Nothing else that waits, or is held, has an alert of this parcel.
<1>4. \A h \in Waiting \ {f} : h[1] \cap c = {} BY <1>2 DEF Divides
<1>5. \A d \in Drains : \A r \in Holds(d) : r[1] \cap c = {} BY <1>2, HeldWaitsInRow
<1>6. c \cap got = {} BY <1>2 DEF RepeatsKnown, Unsent
<1>7. WebTypeOK'
  <2>1. flight' \subseteq Parcels \X {"claimed", "sending", "failed"}
    <3>1. g \in Parcels \X {"claimed", "sending", "failed"} OBVIOUS
    <3> QED BY <1>1, <1>2, <3>1, WebFound
  <2> QED BY <1>1, <1>2, <1>3, <2>1, AttemptIs DEF WebTypeOK, Fates
<1>8. HoldsSound'
  <2>1. FatesMove BY <1>2, <1>3 DEF FatesMove
  <2> QED BY <1>2, <2>1, HoldsShrink DEF HoldsSound
<1>9. TriesCounted'
  <2>1. \A a \in Alerts : tries[a] <= tries'[a] /\ tries[a] \in Nat /\ tries'[a] \in Nat
    BY <1>1, <1>2, AttemptIs, WebFound
  <2>2. \A p \in Rows' : \A a \in p : attempts'[p] <= tries'[a]
    <3> SUFFICES ASSUME NEW p \in Rows, NEW a \in p PROVE attempts[p] <= tries'[a] BY <1>2
    <3>1. a \in Alerts /\ attempts[p] \in Nat BY <1>2, WebFound
    <3>2. attempts[p] <= tries[a] BY <1>2 DEF TriesCounted
    <3> QED BY <2>1, <3>1, <3>2
  <2>3. \A a \in c : tries'[a] > 0
    <3>1. 0 \in 0 .. MaxAttempts - 1 BY <1>2, WebFound
    <3>2. \A a \in c : 0 <= tries[a] BY <1>2, <2>1
    <3> QED BY <1>1, <1>2, <3>1, <3>2, AttemptIs
  <2>4. \A h \in flight' : h[2] = "failed" => h \in flight \/ \A a \in h[1] : tries'[a] > 0
    BY <1>1, <1>2, <2>3
  <2> QED BY <1>2, <2>1, <2>2, <2>4, RowIsHeld, TriesShrink
<1>10. RepeatsKnown'
  <2>0. /\ got' \subseteq got \cup c /\ mayRepeat \subseteq mayRepeat' /\ twice' = twice
        /\ got \subseteq got' /\ (outcome # "ok" => c \cap got' \subseteq mayRepeat')
    <3>1. twice' \subseteq twice \cup (c \cap got) /\ twice \subseteq twice'
      BY <1>1, <1>2, AttemptIs DEF Attempt, Taken
    <3>2. /\ got' \subseteq got \cup c /\ mayRepeat \subseteq mayRepeat' /\ got \subseteq got'
          /\ outcome # "ok" => got' = got \/ c \subseteq mayRepeat'
      BY <1>1, <1>2, AttemptIs
    <3> QED BY <1>6, <3>1, <3>2
  <2>1. \A a \in got' : fate'[a] # "none"
    <3>1. c \subseteq Open BY <1>2 DEF Divides
    <3>2. got \subseteq Alerts BY <1>2 DEF WebTypeOK
    <3> QED BY <1>2, <1>3, <2>0, <3>1, <3>2 DEF RepeatsKnown, Open
  <2>2. \A h \in Waiting' : Unsent(h) => h[1] \cap got' = {}
    <3>1. ~Unsent(g) BY <1>2 DEF Unsent
    <3> QED BY <1>2, <1>3, <1>4, <2>0, <3>1 DEF RepeatsKnown
  <2>3. \A h \in flight' : h[2] = "failed" => h[1] \cap got' \subseteq mayRepeat'
    <3> SUFFICES ASSUME NEW h \in flight', h[2] = "failed" PROVE h[1] \cap got' \subseteq mayRepeat' OBVIOUS
    <3>1. CASE h \in flight \ {f}
      <4>1. h \in Waiting \ {f} BY <3>1 DEF Waiting
      <4>2. h[1] \cap got \subseteq mayRepeat BY <1>2, <3>1 DEF RepeatsKnown
      <4> QED BY <1>4, <2>0, <4>1, <4>2
    <3>2. CASE h = g /\ outcome = "transient" BY <1>2, <2>0, <3>2
    <3> QED BY <1>1, <3>1, <3>2
  <2>4. \A p \in Rows' : (\E d \in Drains : Writes(d, p)') \/ p \cap got' \subseteq mayRepeat'
    <3> SUFFICES ASSUME NEW p \in Rows
                 PROVE  (\E d \in Drains : Writes(d, p)') \/ p \cap got' \subseteq mayRepeat'
      BY <1>2
    <3>1. <<p, "row">> \in Waiting \ {f} /\ <<p, "row">>[1] = p BY <1>2 DEF Waiting
    <3>2. p \cap c = {} BY <1>4, <3>1
    <3> QED BY <1>2, <2>0, <3>2 DEF RepeatsKnown, Writes
  <2>5. \A d \in Drains : \A r \in Holds(d) : r[1] \cap got' = r[1] \cap got BY <1>5, <2>0
  <2>6. \A d \in Drains : ToSend(d) \subseteq Holds(d) BY DEF ToSend
  <2>7. \A d \in Drains : drain[d].at = "write" => drain[d].row \in Holds(d) BY <1>2, RowIsHeld
  <2>8. \A d \in Drains : \A r \in ToSend(d)' : r[1] \cap got' \subseteq mayRepeat'
    BY <1>2, <2>0, <2>5, <2>6 DEF RepeatsKnown
  <2>9. \A d \in Drains : drain'[d].at = "write" =>
          IF drain'[d].outcome = "ok" THEN drain'[d].row[1] \subseteq got'
          ELSE drain'[d].row[1] \cap got' \subseteq mayRepeat'
    BY <1>2, <2>0, <2>5, <2>7 DEF RepeatsKnown
  <2>10. \A d, e \in Drains : d # e => \A r \in Holds(d)', s \in Holds(e)' : r[1] = s[1] => r[1] \subseteq mayRepeat'
    BY <1>2, <2>0 DEF RepeatsKnown
  <2>11. twice' \subseteq mayRepeat' BY <1>2, <2>0 DEF RepeatsKnown
  <2> QED BY <2>1, <2>2, <2>3, <2>4, <2>8, <2>9, <2>10, <2>11 DEF RepeatsKnown
<1>11. Deleted' /\ MutedWhileOff' BY <1>2, <1>3 DEF WebInv, Deleted, MutedWhileOff
<1>12. EndsAreTrue'
  <2>1. \A a \in Alerts : tries[a] <= tries'[a] /\ tries'[a] \in Nat BY <1>1, <1>2, AttemptIs
  <2>2. hookFaults' \in {hookFaults, hookFaults + 1} /\ got \subseteq got' BY <1>1, <1>2, AttemptIs
  <2> QED BY <1>2, <1>3, <2>1, <2>2, EndsStay DEF WebInv
<1> QED BY <1>3, <1>7, <1>8, <1>9, <1>10, <1>11, <1>12 DEF WebInv

LEMMA ComesDueStep == ASSUME WebInv, NEW c \in Parcels, ComesDue(c) PROVE WebInv'
<1>1. /\ WebTypeOK /\ RepeatsKnown /\ attempts[c] > 0 /\ due' = due \cup {c}
      /\ UNCHANGED <<channel, items, attempts, flight, drain, hookFaults, fate, tries, got, twice, muted, mayRepeat>>
      /\ Rows' = Rows /\ Waiting' = Waiting /\ Open' = Open /\ c \in Rows
  BY DEF WebInv, ComesDue, hookHistory, Rows, Waiting, Open
<1>2. WebTypeOK'
  <2>1. due' \in SUBSET {p \in Parcels : attempts[p] > 0} BY <1>1 DEF WebTypeOK
  <2>2. channel # "gone" BY <1>1 DEF WebInv, Deleted
  <2> QED BY <1>1, <2>1, <2>2 DEF WebTypeOK
<1>3. HoldsSound' /\ TriesCounted' /\ RepeatsKnown'
  <2>1. FatesMove BY <1>1 DEF FatesMove
  <2>2. \A f \in Waiting' : Unsent(f) => f[1] \cap got = {} BY <1>1 DEF RepeatsKnown
  <2> QED BY <1>1, <2>1, <2>2, WithoutDrains
<1>4. Deleted' /\ MutedWhileOff' /\ EndsAreTrue'
  BY <1>1 DEF WebInv, Deleted, MutedWhileOff, EndsAreTrue
<1> QED BY <1>1, <1>2, <1>3, <1>4 DEF WebInv

LEMMA SetEnabledStep == ASSUME WebInv, SetEnabled PROVE WebInv'
<1>1. /\ WebTypeOK /\ RepeatsKnown /\ channel # "gone"
      /\ channel' = (IF channel = "on" THEN "off" ELSE "on")
      /\ muted' = (IF channel = "on" THEN muted \cup Open ELSE muted)
      /\ UNCHANGED <<items, attempts, due, flight, drain, hookFaults, fate, tries, got, twice, mayRepeat>>
      /\ Rows' = Rows /\ Waiting' = Waiting /\ Open' = Open
  BY DEF WebInv, SetEnabled, stores, Rows, Waiting, Open
<1>2. WebTypeOK'
  <2>1. channel' \in {"on", "off"} BY <1>1
  <2>2. muted' \in SUBSET Alerts BY <1>1 DEF WebTypeOK, Open
  <2> QED BY <1>1, <2>1, <2>2 DEF WebTypeOK
<1>3. HoldsSound' /\ TriesCounted' /\ RepeatsKnown'
  <2>1. FatesMove BY <1>1 DEF FatesMove
  <2>2. \A f \in Waiting' : Unsent(f) => f[1] \cap got = {} BY <1>1 DEF RepeatsKnown
  <2> QED BY <1>1, <2>1, <2>2, WithoutDrains
<1>4. Deleted' /\ MutedWhileOff' BY <1>1 DEF WebInv, Deleted, MutedWhileOff
<1>5. EndsAreTrue'
  <2>1. \A b \in Alerts : tries[b] \in Nat /\ tries[b] <= tries[b] BY <1>1, WebFound
  <2>2. muted \subseteq muted' BY <1>1
  <2> QED BY <1>1, <2>1, <2>2, EndsStay DEF WebInv
<1> QED BY <1>1, <1>2, <1>3, <1>4, <1>5 DEF WebInv

LEMMA DeleteChannelStep == ASSUME WebInv, DeleteChannel PROVE WebInv'
<1> DEFINE S == items \cup UNION Rows
           R == {<<{x}, "item">> : x \in items} \cup {<<c, "row">> : c \in Rows}
<1>1. /\ WebTypeOK /\ RepeatsKnown /\ channel' = "gone" /\ items' = {} /\ due' = {}
      /\ attempts' = [c \in Parcels |-> 0] /\ End(S, "dropped") /\ muted' = muted \cup Open
      /\ UNCHANGED <<flight, drain, hookFaults, tries, got, twice, mayRepeat>>
      /\ MaxAttempts \in Nat /\ MaxAttempts > 1
  BY WebFound DEF WebInv, DeleteChannel, Rows
<1>2. Rows' = {} BY <1>1 DEF Rows
<1>3. /\ fate' \in [Alerts -> Fates] /\ Open' = Open \ S
      /\ \A a \in Alerts : /\ fate'[a] = IF a \in S /\ fate[a] = "open" THEN "dropped" ELSE fate[a]
                           /\ fate'[a] = "none" <=> fate[a] = "none"
                           /\ fate'[a] = "open" => fate[a] = "open"
  <2>1. "dropped" \in Fates \ {"none", "open"} BY DEF Fates
  <2> HIDE DEF S
  <2> QED BY <1>1, <2>1, EndEnds
<1>4. Waiting' = flight BY <1>1, <1>2 DEF Waiting
<1>5. Waiting \ R = flight
  <2>1. \A x : <<{x}, "item">> \notin flight BY <1>1, Places3
  <2>2. \A c : <<c, "row">> \notin flight BY <1>1, Places3
  <2>3. R \cap flight = {} BY <2>1, <2>2
  <2> QED BY <2>3 DEF Waiting
<1>6. S = UNION {h[1] : h \in R}
  <2>1. \A x \in items : <<{x}, "item">> \in R /\ <<{x}, "item">>[1] = {x} OBVIOUS
  <2>2. \A c \in Rows : <<c, "row">> \in R /\ <<c, "row">>[1] = c OBVIOUS
  <2>3. \A h \in R : h[1] \subseteq S OBVIOUS
  <2> HIDE DEF R
  <2>4. \A y \in S : \E h \in R : y \in h[1] BY <2>1, <2>2
  <2> QED BY <2>3, <2>4
<1>7. Divides(Waiting', Open')
  <2>1. Divides(Waiting, Open) /\ R \subseteq Waiting BY DEF WebInv, Waiting
  <2> HIDE DEF S, R
  <2>2. Divides(Waiting \ R, Open \ UNION {h[1] : h \in R}) BY <2>1, DividesEnds
  <2> QED BY <1>3, <1>4, <1>5, <1>6, <2>2
<1>8. WebTypeOK'
  <2>1. attempts' \in [Parcels -> 0 .. MaxAttempts - 1] BY <1>1
  <2>2. muted' \in SUBSET Alerts BY <1>1 DEF WebTypeOK, Open
  <2> QED BY <1>1, <1>3, <2>1, <2>2 DEF WebTypeOK, Fates
<1>9. HoldsSound' /\ TriesCounted' /\ RepeatsKnown'
  <2>1. FatesMove
    <3>1. \A c \in Rows : \A a \in c : a \in Alerts /\ a \in S BY <1>1, WebFound
    <3>2. \A c \in Rows : \A a \in c : fate'[a] # "open" BY <1>3, <3>1
    <3> QED BY <1>2, <1>3, <3>2 DEF FatesMove
  <2>2. \A f \in Waiting' : Unsent(f) => f[1] \cap got = {} BY <1>1, <1>4 DEF RepeatsKnown, Waiting
  <2> QED BY <1>1, <1>2, <2>1, <2>2, WithoutDrains
<1>10. Deleted' /\ MutedWhileOff' BY <1>1, <1>2, <1>3 DEF Deleted, MutedWhileOff
<1>11. EndsAreTrue'
  <2>1. \A b \in Alerts : tries[b] \in Nat /\ tries[b] <= tries[b] BY <1>1, WebFound
  <2>2. \A b \in Alerts : fate'[b] = fate[b] \/ (fate'[b] = "dropped" /\ b \in muted') BY <1>1, <1>3 DEF Open
  <2> QED BY <1>1, <2>1, <2>2, EndsStay DEF WebInv
<1> QED BY <1>7, <1>8, <1>9, <1>10, <1>11 DEF WebInv

LEMMA WebRestartStep == ASSUME WebInv, WebRestart PROVE WebInv'
<1> DEFINE S == UNION {f[1] : f \in flight}
<1>1. /\ WebTypeOK /\ HoldsSound /\ TriesCounted /\ RepeatsKnown
      /\ flight' = {} /\ drain' = [d \in Drains |-> NoDrain] /\ End(S, "cut")
      /\ mayRepeat' = mayRepeat \cup UNION {drain[d].row[1] : d \in {d \in Drains : drain[d].at = "write"}}
      /\ UNCHANGED <<channel, items, attempts, due, tries, got, twice, muted>>
      /\ hookFaults' = hookFaults + 1 /\ hookFaults' \in 0 .. MaxHookFaults /\ hookFaults' > 0
      /\ Rows' = Rows
  BY WebFound DEF WebInv, WebRestart, stores, HookFault, Rows
<1>2. /\ NoDrain \in DrainKind /\ NoDrain.at = "next" /\ NoDrain.row = <<>> /\ NoDrain.todo = {}
  BY DEF NoDrain, DrainKind
<1>3. /\ drain' \in [Drains -> DrainKind] /\ \A d \in Drains : drain'[d] = NoDrain BY <1>1, <1>2
<1>4. \A d \in Drains : Holds(d)' = {} /\ ToSend(d)' = {} BY <1>2, <1>3 DEF Holds, ToSend
<1>5. /\ fate' \in [Alerts -> Fates] /\ Open' = Open \ S
      /\ \A a \in Alerts : /\ fate'[a] = IF a \in S /\ fate[a] = "open" THEN "cut" ELSE fate[a]
                           /\ fate'[a] = "none" <=> fate[a] = "none"
                           /\ fate'[a] = "open" => fate[a] = "open"
  <2>1. "cut" \in Fates \ {"none", "open"} BY DEF Fates
  <2> HIDE DEF S
  <2> QED BY <1>1, <2>1, EndEnds
<1>6. Waiting' = Waiting \ flight
  <2>1. \A x : <<{x}, "item">> \notin flight BY <1>1, Places3
  <2>2. \A c : <<c, "row">> \notin flight BY <1>1, Places3
  <2> QED BY <1>1, <2>1, <2>2 DEF Waiting
<1>7. Divides(Waiting', Open')
  <2>1. Divides(Waiting, Open) /\ flight \subseteq Waiting BY DEF WebInv, Waiting
  <2> QED BY <1>5, <1>6, <2>1, DividesEnds
<1>8. WebTypeOK'
  <2>1. mayRepeat' \subseteq Alerts
    <3>1. \A d \in Drains : drain[d].at = "write" => drain[d].row[1] \subseteq Alerts
      BY <1>1, RowIsHeld, HeldRow
    <3> QED BY <1>1, <3>1 DEF WebTypeOK
  <2>2. mayRepeat' \in SUBSET Alerts BY <2>1
  <2>3. flight' \in SUBSET (Parcels \X {"claimed", "sending", "failed"}) BY <1>1
  <2> HIDE DEF S
  <2> QED BY <1>1, <1>3, <1>5, <2>2, <2>3 DEF WebTypeOK, Fates, DrainKind, Counts
<1>9. FatesMove BY <1>1, <1>5 DEF FatesMove
<1>10. HoldsSound' BY <1>1, <1>2, <1>3, <1>4, <1>9, HoldsShrink
<1>11. TriesCounted'
  <2>1. \A a \in Alerts : tries[a] <= tries'[a] /\ tries'[a] \in Nat BY <1>1, WebFound
  <2>2. \A c \in Rows' : \A a \in c : attempts'[c] <= tries'[a] BY <1>1 DEF TriesCounted
  <2> QED BY <1>1, <1>2, <1>3, <1>4, <2>1, <2>2, TriesShrink
<1>12. RepeatsKnown'
  <2>1. \A f \in Waiting' : Unsent(f) => f[1] \cap got = {} BY <1>1, <1>6 DEF RepeatsKnown
  <2>2. \A d \in Drains : drain[d].at = "write" => drain[d].row[1] \cap got \subseteq mayRepeat' BY <1>1
  <2> QED BY <1>1, <1>2, <1>3, <1>4, <1>9, <2>1, <2>2, RepeatsShrink
<1>13. Deleted' /\ MutedWhileOff' BY <1>1, <1>5 DEF WebInv, Deleted, MutedWhileOff
<1>14. EndsAreTrue'
  <2>1. \A b \in Alerts : tries'[b] \in Nat /\ tries[b] <= tries'[b] BY <1>1, WebFound
  <2>2. \A b \in Alerts : fate'[b] = fate[b] \/ (fate'[b] = "cut" /\ hookFaults' > 0) BY <1>1, <1>5
  <2> QED BY <1>1, <2>1, <2>2, EndsStay DEF WebInv
<1> QED BY <1>7, <1>8, <1>10, <1>11, <1>12, <1>13, <1>14 DEF WebInv

LEMMA DrainStartStep == ASSUME WebInv, NEW d \in Drains, DrainStart(d) PROVE WebInv'
<1> DEFINE x == [NoDrain EXCEPT !.todo = {<<c, attempts[c]>> : c \in due}]
<1>1. /\ WebTypeOK /\ HoldsSound /\ TriesCounted /\ RepeatsKnown /\ Divides(Waiting, Open)
      /\ Holds(d) = {} /\ drain' = [drain EXCEPT ![d] = x]
      /\ mayRepeat' = mayRepeat \cup
           {a \in Alerts : \E c \in due, e \in Drains \ {d} : a \in c /\ \E r \in Holds(e) : r[1] = c}
      /\ UNCHANGED <<channel, items, attempts, due, flight, hookFaults, fate, tries, got, twice, muted>>
      /\ Rows' = Rows /\ Waiting' = Waiting /\ Open' = Open /\ due \subseteq Rows
  BY DEF WebInv, DrainStart, stores, Rows, Waiting, Open, WebTypeOK
<1>2. \A c \in due : /\ c \in Parcels /\ c \subseteq Alerts /\ attempts[c] \in Counts
                     /\ <<c, attempts[c]>> \in Parcels \X Counts
                     /\ <<c, "row">> \in Waiting /\ c \subseteq Open
  <2> TAKE c \in due
  <2>1. c \in Parcels /\ c \subseteq Alerts /\ attempts[c] \in 0 .. MaxAttempts - 1 /\ attempts[c] > 0
    BY <1>1, WebFound DEF Rows
  <2>2. attempts[c] \in Counts BY <1>1, <2>1, WebFound DEF Counts
  <2>3. <<c, "row">> \in Waiting /\ <<c, "row">>[1] = c BY <1>1 DEF Waiting
  <2> QED BY <1>1, <2>1, <2>2, <2>3 DEF Divides
<1>3. /\ x \in DrainKind /\ x.at = "next" /\ x.row = <<>> /\ x.todo = {<<c, attempts[c]>> : c \in due}
      /\ x.row \notin x.todo
  <2>1. {<<c, attempts[c]>> : c \in due} \subseteq Parcels \X Counts BY <1>2
  <2>2. <<>> \notin {<<c, attempts[c]>> : c \in due} OBVIOUS
  <2> QED BY <2>1, <2>2 DEF NoDrain, DrainKind
<1> HIDE DEF x
<1>4. /\ drain' \in [Drains -> DrainKind] /\ drain'[d] = x
      /\ \A e \in Drains \ {d} : drain'[e] = drain[e] /\ Holds(e)' = Holds(e) /\ ToSend(e)' = ToSend(e)
      /\ Holds(d)' = {<<c, attempts[c]>> : c \in due} /\ ~(drain[d].at = "write")
  <2>1. \A e \in Drains \ {d} : drain'[e] = drain[e] /\ Holds(e)' = Holds(e) BY <1>1, <1>3, OneDrain
  <2>2. drain[d].at = "next" BY <1>1, RowIsHeld
  <2>3. drain' \in [Drains -> DrainKind] /\ drain'[d] = x /\ Holds(d)' = x.todo
    <3>1. Holds(d)' = x.todo \cup ({x.row} \ {<<>>}) BY <1>1, <1>3, OneDrain
    <3>2. {x.row} \ {<<>>} = {} BY <1>3
    <3> QED BY <1>1, <1>3, <3>1, <3>2, OneDrain, ZenonT(60)
  <2> QED BY <1>3, <2>1, <2>2, <2>3 DEF ToSend, Writes
\* What it has read are parcels of rows.
<1>5. \A r \in Holds(d)' : /\ r[1] \in due /\ r[1] \in Rows /\ r = <<r[1], attempts[r[1]]>>
                           /\ r[2] = attempts[r[1]]
  BY <1>1, <1>4
<1>6. WebTypeOK'
  <2>1. mayRepeat' \in SUBSET Alerts BY <1>1 DEF WebTypeOK
  <2> QED BY <1>1, <1>4, <2>1 DEF WebTypeOK, DrainKind, Counts
<1>7. HoldsSound'
  <2>1. \A e \in Drains : /\ drain'[e].at = "next" <=> drain'[e].row = <<>>
                          /\ drain'[e].row \notin drain'[e].todo
    BY <1>1, <1>3, <1>4 DEF HoldsSound
  <2>2. \A e \in Drains : \A r, s \in Holds(e)' : r[1] = s[1] => r = s BY <1>1, <1>4, <1>5 DEF HoldsSound
  <2>3. \A e \in Drains : \A r \in Holds(e)' : \A a \in r[1] :
          fate'[a] # "none" /\ (fate'[a] = "open" => r[1] \in Rows')
    <3>1. \A r \in Holds(d)' : \A a \in r[1] : fate[a] = "open" BY <1>2, <1>5 DEF Open
    <3> QED BY <1>1, <1>4, <1>5, <3>1 DEF HoldsSound
  <2>4. ASSUME NEW r \in Holds(d)', NEW e \in Drains, NEW s \in Holds(e)' PROVE r[1] = s[1] \/ r[1] \cap s[1] = {}
    <3>1. CASE e = d
      <4>1. <<r[1], "row">> \in Waiting /\ <<s[1], "row">> \in Waiting BY <1>2, <1>5, <2>4, <3>1
      <4>2. <<r[1], "row">>[1] = r[1] /\ <<s[1], "row">>[1] = s[1] OBVIOUS
      <4> QED BY <1>1, <4>1, <4>2 DEF Divides
    <3>2. CASE e # d
      <4>1. s \in Holds(e) BY <1>4, <2>4, <3>2
      <4>2. <<r[1], "row">> \in Waiting /\ <<r[1], "row">>[1] = r[1] BY <1>2, <1>5
      <4> QED BY <3>2, <4>1, <4>2, HeldWaitsInRow
    <3> QED BY <3>1, <3>2
  <2>5. \A e, g \in Drains : \A r \in Holds(e)', s \in Holds(g)' : r[1] = s[1] \/ r[1] \cap s[1] = {}
    BY <1>1, <1>4, <2>4 DEF HoldsSound
  <2> QED BY <2>1, <2>2, <2>3, <2>5 DEF HoldsSound
<1>8. TriesCounted'
  <2>1. \A r \in Holds(d)' : \A a \in r[1] : r[2] <= tries[a] BY <1>1, <1>5 DEF TriesCounted
  <2> QED BY <1>1, <1>3, <1>4, <2>1 DEF TriesCounted
<1>9. RepeatsKnown'
  <2>1. \A e \in Drains \ {d} : \A s \in Holds(e) : s[1] \in due => s[1] \subseteq mayRepeat'
    BY <1>1, <1>2
  <2>2. \A e \in Drains \ {d} : \A c \in due : Writes(e, c) => c \subseteq mayRepeat'
    BY <1>1, <2>1, RowIsHeld DEF Writes
  <2>3. \A r \in Holds(d)' : r[1] \cap got \subseteq mayRepeat'
    <3> SUFFICES ASSUME NEW r \in Holds(d)' PROVE r[1] \cap got \subseteq mayRepeat' OBVIOUS
    <3>1. r[1] \in due /\ r[1] \in Rows BY <1>5
    <3>2. (\E e \in Drains : Writes(e, r[1])) \/ r[1] \cap got \subseteq mayRepeat BY <1>1, <3>1 DEF RepeatsKnown
    <3>3. ~Writes(d, r[1]) BY <1>4 DEF Writes
    <3> QED BY <1>1, <2>2, <3>1, <3>2, <3>3
  <2>4. \A c \in Rows' : (\E e \in Drains : Writes(e, c)') \/ c \cap got' \subseteq mayRepeat'
    <3>1. \A e \in Drains : \A c : Writes(e, c) => Writes(e, c)' BY <1>4 DEF Writes
    <3> QED BY <1>1, <3>1 DEF RepeatsKnown
  <2>5. \A e \in Drains : \A r \in ToSend(e)' : r[1] \cap got' \subseteq mayRepeat'
    <3>1. \A r \in ToSend(d)' : r \in Holds(d)' BY DEF ToSend
    <3> QED BY <1>1, <1>4, <2>3, <3>1 DEF RepeatsKnown
  <2>6. ASSUME NEW e \in Drains, NEW g \in Drains, e # g, NEW r \in Holds(e)', NEW s \in Holds(g)', r[1] = s[1]
        PROVE  r[1] \subseteq mayRepeat'
    <3>1. CASE e = d BY <1>4, <1>5, <2>1, <2>6, <3>1
    <3>2. CASE g = d BY <1>4, <1>5, <2>1, <2>6, <3>2
    <3>3. CASE e # d /\ g # d BY <1>1, <1>4, <2>6, <3>3 DEF RepeatsKnown
    <3> QED BY <3>1, <3>2, <3>3
  <2>7. \A e \in Drains : drain'[e].at = "write" =>
          IF drain'[e].outcome = "ok" THEN drain'[e].row[1] \subseteq got'
          ELSE drain'[e].row[1] \cap got' \subseteq mayRepeat'
    BY <1>1, <1>3, <1>4 DEF RepeatsKnown
  <2> QED BY <1>1, <2>4, <2>5, <2>6, <2>7 DEF RepeatsKnown
<1>10. Deleted' /\ MutedWhileOff' /\ EndsAreTrue'
  BY <1>1 DEF WebInv, Deleted, MutedWhileOff, EndsAreTrue
<1> QED BY <1>1, <1>6, <1>7, <1>8, <1>9, <1>10 DEF WebInv

LEMMA DrainAttemptStep == ASSUME WebInv, NEW d \in Drains, DrainAttempt(d) PROVE WebInv'
<1>a. PICK c : c = drain[d].row[1] OBVIOUS
<1>0. /\ WebTypeOK /\ HoldsSound /\ TriesCounted /\ RepeatsKnown /\ Divides(Waiting, Open)
      /\ drain[d].at = "send" /\ drain[d].row \in Holds(d) /\ c \in Parcels /\ c \subseteq Alerts
      /\ drain[d] \in DrainKind
      /\ UNCHANGED <<channel, items, attempts, due, flight, fate, muted>>
      /\ Rows' = Rows /\ Waiting' = Waiting /\ Open' = Open
  <2>1. WebTypeOK /\ HoldsSound /\ drain[d].at = "send" BY DEF WebInv, DrainAttempt
  <2>2. drain[d].row \in Holds(d) BY <2>1, RowIsHeld
  <2>3. c \in Parcels /\ c \subseteq Alerts BY <1>a, <2>1, <2>2, HeldRow
  <2> QED BY <2>1, <2>2, <2>3, WebFound DEF WebInv, DrainAttempt, stores, Rows, Waiting, Open
<1>1. PICK outcome \in {"ok", "permanent", "transient"} :
        Attempt(c, outcome) /\ drain' = [drain EXCEPT ![d].at = "write", ![d].outcome = outcome]
  BY <1>a DEF DrainAttempt
<1> DEFINE x == [drain[d] EXCEPT !.at = "write", !.outcome = outcome]
<1>2. /\ x \in DrainKind /\ x.at = "write" /\ x.outcome = outcome /\ x.row = drain[d].row /\ x.todo = drain[d].todo
  BY <1>0 DEF DrainKind
<1>3. drain' = [drain EXCEPT ![d] = x] BY <1>0, <1>1, WebFound
<1> HIDE DEF x
<1>4. /\ drain' \in [Drains -> DrainKind] /\ drain'[d] = x
      /\ \A e \in Drains : Holds(e)' = Holds(e)
      /\ \A e \in Drains \ {d} : drain'[e] = drain[e] /\ ToSend(e)' = ToSend(e)
  <2>1. /\ drain' \in [Drains -> DrainKind] /\ drain'[d] = x
        /\ \A e \in Drains \ {d} : drain'[e] = drain[e] /\ Holds(e)' = Holds(e)
        /\ Holds(d)' = x.todo \cup ({x.row} \ {<<>>})
    BY <1>0, <1>2, <1>3, OneDrain
  <2>2. Holds(d)' = Holds(d) BY <1>2, <2>1 DEF Holds
  <2> QED BY <2>1, <2>2 DEF ToSend, Writes
<1>5. drain[d].row \in ToSend(d) /\ Writes(d, c)'
  <2>1. \A p : ~Writes(d, p) BY <1>0 DEF Writes
  <2>2. Writes(d, c)' BY <1>a, <1>2, <1>4 DEF Writes
  <2>3. drain[d].row \in ToSend(d) BY <1>0, <2>1 DEF ToSend
  <2> QED BY <2>2, <2>3
<1>6. c \cap got \subseteq mayRepeat BY <1>a, <1>0, <1>5 DEF RepeatsKnown
<1>7. /\ got' \subseteq got \cup c /\ got \subseteq got' /\ mayRepeat \subseteq mayRepeat' /\ twice' \subseteq mayRepeat'
      /\ IF outcome = "ok" THEN c \subseteq got' ELSE c \cap got' \subseteq mayRepeat'
  <2>1. twice \subseteq mayRepeat BY <1>0 DEF RepeatsKnown
  <2> QED BY <1>0, <1>1, <1>6, <2>1, AttemptIs
\* What waits elsewhere has no alert of this parcel.
<1>8. \A f \in Waiting : f[2] # "row" => f[1] \cap c = {} BY <1>a, <1>0, HeldWaitsInRow
<1>9. WebTypeOK' BY <1>0, <1>1, <1>4, AttemptIs DEF WebTypeOK, DrainKind, Counts
<1>10. HoldsSound'
  <2>1. FatesMove BY <1>0 DEF FatesMove
  <2>2. \A e \in Drains : /\ drain'[e].at = "next" <=> drain'[e].row = <<>>
                          /\ drain'[e].row \notin drain'[e].todo
    BY <1>0, <1>2, <1>4 DEF HoldsSound
  <2> QED BY <1>0, <1>4, <2>1, <2>2, HoldsShrink
<1>11. TriesCounted'
  <2>1. \A a \in Alerts : tries[a] <= tries'[a] /\ tries[a] \in Nat /\ tries'[a] \in Nat
    BY <1>0, <1>1, AttemptIs, WebFound
  <2>2. \A p \in Rows' : \A a \in p : attempts'[p] <= tries'[a]
    <3> SUFFICES ASSUME NEW p \in Rows, NEW a \in p PROVE attempts[p] <= tries'[a] BY <1>0
    <3>1. a \in Alerts /\ attempts[p] \in Nat BY <1>0, WebFound
    <3>2. attempts[p] <= tries[a] BY <1>0 DEF TriesCounted
    <3> QED BY <2>1, <3>1, <3>2
  <2>3. \A a \in c : drain[d].row[2] < tries'[a]
    <3>1. drain[d].row[2] \in 0 .. MaxAttempts - 1
      <4>1. drain[d].row[2] \in Counts BY <1>0, HeldRow
      <4> QED BY <1>0, <4>1, WebFound DEF Counts
    <3>2. \A a \in c : drain[d].row[2] <= tries[a] BY <1>a, <1>0 DEF TriesCounted
    <3> QED BY <1>0, <1>1, <3>1, <3>2, AttemptIs
  <2>4. \A e \in Drains : drain'[e].at = "write" =>
            \/ drain'[e] = drain[e] /\ drain[e].row \in Holds(e)
            \/ \A a \in drain'[e].row[1] : drain'[e].row[2] < tries'[a]
    BY <1>a, <1>0, <1>2, <1>4, <2>3, RowIsHeld
  <2> QED BY <1>0, <1>4, <2>1, <2>2, <2>4, TriesShrink
<1>12. RepeatsKnown'
  <2>1. \A a \in got' : fate'[a] # "none"
    <3>1. \A a \in c : fate[a] # "none" BY <1>a, <1>0 DEF HoldsSound
    <3> QED BY <1>0, <1>7, <3>1 DEF RepeatsKnown
  <2>2. \A f \in Waiting' : Unsent(f) => f[1] \cap got' = {} BY <1>0, <1>7, <1>8 DEF RepeatsKnown, Unsent
  <2>3. \A f \in flight' : f[2] = "failed" => f[1] \cap got' \subseteq mayRepeat'
    <3>1. \A f \in flight : f \in Waiting BY DEF Waiting
    <3> QED BY <1>0, <1>7, <1>8, <3>1 DEF RepeatsKnown
  <2>4. \A p \in Rows' : (\E e \in Drains : Writes(e, p)') \/ p \cap got' \subseteq mayRepeat'
    <3> SUFFICES ASSUME NEW p \in Rows PROVE (\E e \in Drains : Writes(e, p)') \/ p \cap got' \subseteq mayRepeat'
      BY <1>0
    <3>1. CASE p = c BY <1>5, <3>1
    <3>2. CASE p # c
      <4>1. <<p, "row">> \in Waiting /\ <<p, "row">>[1] = p BY DEF Waiting
      <4>2. p \cap c = {} BY <1>a, <1>0, <3>2, <4>1, HeldWaitsInRow
      <4>3. \A e \in Drains : Writes(e, p) => Writes(e, p)' BY <1>0, <1>2, <1>4 DEF Writes
      <4> QED BY <1>0, <1>7, <4>2, <4>3 DEF RepeatsKnown
    <3> QED BY <3>1, <3>2
  <2>5. \A e \in Drains \ {d} : \A r \in Holds(e) : r[1] = c => c \subseteq mayRepeat
    BY <1>a, <1>0 DEF RepeatsKnown
  <2>6. \A e \in Drains : \A r \in Holds(e) : r[1] = c \/ r[1] \cap c = {} BY <1>a, <1>0 DEF HoldsSound
  <2>7. ASSUME NEW e \in Drains, NEW r \in ToSend(e)' PROVE r[1] \cap got' \subseteq mayRepeat'
    <3>1. CASE e # d
      <4>1. r \in ToSend(e) /\ r \in Holds(e) BY <1>4, <2>7, <3>1 DEF ToSend
      <4>2. r[1] \cap got \subseteq mayRepeat BY <1>0, <4>1 DEF RepeatsKnown
      <4> QED BY <1>7, <2>5, <2>6, <3>1, <4>1, <4>2
    <3>2. CASE e = d
      <4>1. r \in Holds(d) /\ r[1] # c BY <1>4, <1>5, <2>7, <3>2 DEF ToSend
      <4>2. r \in ToSend(d) BY <1>0, <4>1 DEF ToSend, Writes
      <4>3. r[1] \cap got \subseteq mayRepeat BY <1>0, <4>2 DEF RepeatsKnown
      <4> QED BY <1>7, <2>6, <4>1, <4>3
    <3> QED BY <3>1, <3>2
  <2>8. \A e, g \in Drains : e # g => \A r \in Holds(e)', s \in Holds(g)' : r[1] = s[1] => r[1] \subseteq mayRepeat'
    BY <1>0, <1>4, <1>7 DEF RepeatsKnown
  <2>9. ASSUME NEW e \in Drains, drain'[e].at = "write"
        PROVE  IF drain'[e].outcome = "ok" THEN drain'[e].row[1] \subseteq got'
               ELSE drain'[e].row[1] \cap got' \subseteq mayRepeat'
    <3>1. CASE e = d BY <1>a, <1>2, <1>4, <1>7, <3>1
    <3>2. CASE e # d
      <4>1. drain'[e] = drain[e] /\ drain[e].at = "write" BY <1>4, <2>9, <3>2
      <4>2. drain[e].row \in Holds(e) BY <1>0, <4>1, RowIsHeld
      <4>3. IF drain[e].outcome = "ok" THEN drain[e].row[1] \subseteq got
            ELSE drain[e].row[1] \cap got \subseteq mayRepeat
        BY <1>0, <4>1 DEF RepeatsKnown
      <4>4. drain[e].row[1] = c => c \subseteq mayRepeat BY <2>5, <3>2, <4>2
      <4>5. drain[e].row[1] = c \/ drain[e].row[1] \cap c = {} BY <2>6, <4>2
      <4> QED BY <1>7, <4>1, <4>3, <4>4, <4>5
    <3> QED BY <3>1, <3>2
  <2> QED BY <1>7, <2>1, <2>2, <2>3, <2>4, <2>7, <2>8, <2>9 DEF RepeatsKnown
<1>13. Deleted' /\ MutedWhileOff' BY <1>0 DEF WebInv, Deleted, MutedWhileOff
<1>14. EndsAreTrue'
  <2>1. \A a \in Alerts : tries[a] <= tries'[a] /\ tries'[a] \in Nat BY <1>0, <1>1, AttemptIs
  <2>2. hookFaults' \in {hookFaults, hookFaults + 1} BY <1>0, <1>1, AttemptIs
  <2> QED BY <1>0, <1>7, <2>1, <2>2, EndsStay DEF WebInv
<1> QED BY <1>0, <1>9, <1>10, <1>11, <1>12, <1>13, <1>14 DEF WebInv

\* A drain takes up a row, or lets go of one.
LEMMA DrainLetsGo ==
  ASSUME WebInv, NEW d \in Drains, NEW x \in DrainKind, drain' = [drain EXCEPT ![d] = x],
         x.at # "write", x.at = "next" <=> x.row = <<>>, x.row \notin x.todo,
         x.todo \cup ({x.row} \ {<<>>}) \subseteq ToSend(d),
         FatesMove, UNCHANGED <<items, flight, tries, got, twice>>, mayRepeat \subseteq mayRepeat',
         Rows' \subseteq Rows,
         \A c \in Rows' : \/ attempts'[c] = attempts[c]
                          \/ Writes(d, c) /\ attempts'[c] = drain[d].row[2] + 1,
         drain[d].at = "write" => \/ drain[d].row[1] \notin Rows'
                                  \/ drain[d].row[1] \cap got \subseteq mayRepeat'
  PROVE  HoldsSound' /\ TriesCounted' /\ RepeatsKnown' /\ drain' \in [Drains -> DrainKind]
<1>1. /\ WebTypeOK /\ HoldsSound /\ TriesCounted /\ RepeatsKnown
      /\ tries \in [Alerts -> 0 .. MaxAttempts] /\ MaxAttempts \in Nat
  BY WebFound DEF WebInv
<1>2. /\ drain' \in [Drains -> DrainKind] /\ drain'[d] = x
      /\ \A e \in Drains \ {d} : drain'[e] = drain[e] /\ Holds(e)' = Holds(e)
      /\ Holds(d)' = x.todo \cup ({x.row} \ {<<>>})
  BY <1>1, OneDrain
<1>3. \A e \in Drains \ {d} : ToSend(e)' = ToSend(e) BY <1>2 DEF ToSend, Writes
<1>4. \A e \in Drains : Holds(e)' \subseteq Holds(e) /\ ToSend(e)' \subseteq ToSend(e)
  <2>1. ToSend(d) \subseteq Holds(d) /\ ToSend(d)' \subseteq Holds(d)' BY DEF ToSend
  <2>2. Holds(d)' \subseteq ToSend(d) BY <1>2
  <2> QED BY <1>2, <1>3, <2>1, <2>2
<1>5. HoldsSound'
  <2>1. \A e \in Drains : /\ drain'[e].at = "next" <=> drain'[e].row = <<>>
                          /\ drain'[e].row \notin drain'[e].todo
    BY <1>1, <1>2 DEF HoldsSound
  <2> QED BY <1>1, <1>4, <2>1, HoldsShrink
<1>6. TriesCounted'
  <2>1. \A a \in Alerts : tries[a] <= tries'[a] /\ tries'[a] \in Nat BY <1>1
  <2>2. \A c \in Rows' : \A a \in c : attempts'[c] <= tries'[a]
    <3> SUFFICES ASSUME NEW c \in Rows', NEW a \in c PROVE attempts'[c] <= tries[a] OBVIOUS
    <3>1. CASE attempts'[c] = attempts[c] BY <1>1, <3>1 DEF TriesCounted
    <3>2. CASE Writes(d, c) /\ attempts'[c] = drain[d].row[2] + 1
      <4>1. drain[d].at = "write" /\ drain[d].row[1] = c BY <3>2 DEF Writes
      <4>2. drain[d].row \in Holds(d) BY <1>1, <4>1, RowIsHeld
      <4>3. drain[d].row[2] \in Nat /\ a \in Alerts BY <1>1, <4>1, <4>2, HeldRow DEF Counts
      <4>4. drain[d].row[2] < tries[a] BY <1>1, <4>1 DEF TriesCounted
      <4> QED BY <1>1, <3>2, <4>3, <4>4
    <3> QED BY <3>1, <3>2
  <2>3. \A e \in Drains : drain'[e].at = "write" => drain'[e] = drain[e] /\ drain[e].row \in Holds(e)
    BY <1>1, <1>2, RowIsHeld
  <2> QED BY <1>1, <1>4, <2>1, <2>2, <2>3, TriesShrink
<1>7. RepeatsKnown'
  <2>1. Waiting' \subseteq Waiting BY DEF Waiting
  <2>2. \A f \in Waiting' : Unsent(f) => f[1] \cap got = {} BY <1>1, <2>1 DEF RepeatsKnown
  <2>3. \A e \in Drains : drain'[e].at = "write" => drain'[e] = drain[e] BY <1>2
  <2>4. \A e \in Drains : drain[e].at = "write" =>
            \/ drain'[e] = drain[e]
            \/ drain[e].row[1] \notin Rows'
            \/ drain[e].row[1] \cap got \subseteq mayRepeat'
    BY <1>2
  <2> QED BY <1>1, <1>4, <2>2, <2>3, <2>4, RepeatsShrink
<1> QED BY <1>2, <1>5, <1>6, <1>7

\* A row is deleted, and its alerts come to their end.
LEMMA RowGoes ==
  ASSUME WebInv, NEW c \in Parcels, NEW S, S = (IF c \in Rows THEN c ELSE {}),
         NEW how \in Fates \ {"none", "open"}, DeleteRow(c), End(S, how), UNCHANGED <<items, flight>>
  PROVE  /\ Rows' = Rows \ {c} /\ Open' = Open \ S /\ Divides(Waiting, Open)' /\ FatesMove
         /\ attempts' \in [Parcels -> 0 .. MaxAttempts - 1]
         /\ due' \in SUBSET {p \in Parcels : attempts'[p] > 0} /\ due' \subseteq due
         /\ fate' \in [Alerts -> Fates]
         /\ \A p \in Rows' : attempts'[p] = attempts[p]
         /\ \A a \in Alerts : fate'[a] = fate[a] \/ (a \in S /\ fate[a] = "open" /\ fate'[a] = how)
<1>1. /\ WebTypeOK /\ Divides(Waiting, Open) /\ MaxAttempts \in Nat /\ MaxAttempts > 1
      /\ attempts \in [Parcels -> 0 .. MaxAttempts - 1]
      /\ \A p \in Parcels : p \subseteq Alerts
      /\ attempts' = [attempts EXCEPT ![c] = 0] /\ due' = due \ {c}
      /\ due \subseteq {p \in Parcels : attempts[p] > 0}
  BY WebFound DEF WebInv, DeleteRow, WebTypeOK
<1>2. /\ Rows' = Rows \ {c} /\ \A p \in Rows' : attempts'[p] = attempts[p] BY <1>1 DEF Rows
<1>3. /\ fate' \in [Alerts -> Fates] /\ Open' = Open \ S
      /\ \A a \in Alerts : /\ fate'[a] = IF a \in S /\ fate[a] = "open" THEN how ELSE fate[a]
                           /\ fate'[a] = "none" <=> fate[a] = "none"
                           /\ fate'[a] = "open" => fate[a] = "open"
  BY <1>1, EndEnds
<1>4. Waiting' = Waiting \ {<<c, "row">>}
  <2>1. <<c, "row">> \notin flight BY <1>1, Places3
  <2>2. <<c, "row">> \notin {<<{y}, "item">> : y \in items} OBVIOUS
  <2> QED BY <1>2, <2>1, <2>2 DEF Waiting
<1>5. Divides(Waiting, Open)'
  <2>1. CASE c \in Rows
    <3>1. {<<c, "row">>} \subseteq Waiting BY <2>1 DEF Waiting
    <3>2. S = UNION {f[1] : f \in {<<c, "row">>}} BY <2>1
    <3>3. Divides(Waiting \ {<<c, "row">>}, Open \ UNION {f[1] : f \in {<<c, "row">>}}) BY <1>1, <3>1, DividesEnds
    <3> QED BY <1>3, <1>4, <3>2, <3>3
  <2>2. CASE c \notin Rows
    <3>1. <<c, "row">> \notin Waiting
      <4>1. <<c, "row">> \notin flight BY <1>1, Places3
      <4> QED BY <2>2, <4>1 DEF Waiting
    <3>2. S = {} BY <2>2
    <3>3. Waiting' = Waiting /\ Open' = Open BY <1>3, <1>4, <3>1, <3>2
    <3> QED BY <1>1, <3>3
  <2> QED BY <2>1, <2>2
<1>6. FatesMove
  <2>1. "open" # how OBVIOUS
  <2>2. \A p \in Rows \ Rows' : p = c /\ S = c /\ c \subseteq Alerts BY <1>1, <1>2
  <2> QED BY <1>3, <2>1, <2>2 DEF FatesMove
<1>7. attempts' \in [Parcels -> 0 .. MaxAttempts - 1] BY <1>1
<1>8. due' \in SUBSET {p \in Parcels : attempts'[p] > 0} /\ due' \subseteq due BY <1>1
<1> QED BY <1>2, <1>3, <1>5, <1>6, <1>7, <1>8

LEMMA DrainNextStep == ASSUME WebInv, NEW d \in Drains, NEW held \in drain[d].todo, DrainNext(d, held) PROVE WebInv'
<1>1. /\ WebTypeOK /\ HoldsSound /\ Divides(Waiting, Open) /\ drain[d] \in DrainKind
      /\ drain[d].row = <<>> /\ drain[d].at = "next" /\ held \in Holds(d)
      /\ UNCHANGED <<channel, items, flight, hookFaults, tries, got, twice, muted, mayRepeat>>
  <2>1. WebTypeOK /\ HoldsSound /\ drain[d].row = <<>> BY DEF WebInv, DrainNext
  <2>2. drain[d].at = "next" BY <2>1 DEF HoldsSound
  <2> QED BY <2>1, <2>2, WebFound DEF WebInv, DrainNext, Holds
<1>2. /\ held \in Parcels \X Counts /\ held # <<>> /\ held[1] \in Parcels BY <1>1, HeldRow
<1>3. ToSend(d) = drain[d].todo BY <1>1 DEF ToSend, Writes, Holds
<1>4. CASE /\ channel = "on"
           /\ drain' = [drain EXCEPT ![d].todo = @ \ {held}, ![d].row = held, ![d].at = "send"]
           /\ UNCHANGED <<attempts, due, fate>>
  <2> DEFINE x == [drain[d] EXCEPT !.todo = @ \ {held}, !.row = held, !.at = "send"]
  <2>1. /\ x \in DrainKind /\ x.at = "send" /\ x.row = held /\ x.todo = drain[d].todo \ {held}
    BY <1>1, <1>2 DEF DrainKind
  <2>2. drain' = [drain EXCEPT ![d] = x] BY <1>1, <1>4, WebFound
  <2> HIDE DEF x
  <2>3. Rows' = Rows /\ Waiting' = Waiting /\ Open' = Open BY <1>1, <1>4 DEF Rows, Waiting, Open
  <2>4. FatesMove BY <1>4, <2>3 DEF FatesMove
  <2>5. x.todo \cup ({x.row} \ {<<>>}) \subseteq ToSend(d) BY <1>3, <2>1
  <2>6. /\ x.at # "write" /\ (x.at = "next" <=> x.row = <<>>) /\ x.row \notin x.todo BY <1>2, <2>1
  <2>7. /\ drain[d].at # "write" /\ mayRepeat \subseteq mayRepeat' /\ Rows' \subseteq Rows
        /\ \A c \in Rows' : attempts'[c] = attempts[c]
    BY <1>1, <1>4, <2>3
  <2>8. HoldsSound' /\ TriesCounted' /\ RepeatsKnown' /\ drain' \in [Drains -> DrainKind]
    BY <1>1, <2>1, <2>2, <2>4, <2>5, <2>6, <2>7, DrainLetsGo
  <2>9. WebTypeOK' BY <1>1, <1>4, <2>8 DEF WebTypeOK, DrainKind, Counts
  <2>10. Deleted' /\ MutedWhileOff' /\ EndsAreTrue'
    BY <1>1, <1>4, <2>3 DEF WebInv, Deleted, MutedWhileOff, EndsAreTrue
  <2> QED BY <1>1, <2>3, <2>8, <2>9, <2>10 DEF WebInv
<1>5. CASE /\ channel # "on"
           /\ drain' = [drain EXCEPT ![d].todo = @ \ {held}]
           /\ DeleteRow(held[1])
           /\ End(IF attempts[held[1]] > 0 THEN held[1] ELSE {}, "dropped")
  <2> DEFINE x == [drain[d] EXCEPT !.todo = @ \ {held}]
  <2>1. /\ x \in DrainKind /\ x.at = "next" /\ x.row = <<>> /\ x.todo = drain[d].todo \ {held}
    BY <1>1 DEF DrainKind
  <2>2. drain' = [drain EXCEPT ![d] = x] BY <1>1, <1>5, WebFound
  <2> HIDE DEF x
  <2>a. PICK S : S = (IF held[1] \in Rows THEN held[1] ELSE {}) OBVIOUS
  <2>b. "dropped" \in Fates \ {"none", "open"} BY DEF Fates
  <2>c. End(S, "dropped")
    <3>1. S = (IF attempts[held[1]] > 0 THEN held[1] ELSE {}) BY <1>2, <2>a DEF Rows
    <3> QED BY <1>5, <3>1
  <2>3. /\ Rows' = Rows \ {held[1]} /\ Open' = Open \ S /\ Divides(Waiting, Open)' /\ FatesMove
        /\ attempts' \in [Parcels -> 0 .. MaxAttempts - 1]
        /\ due' \in SUBSET {p \in Parcels : attempts'[p] > 0} /\ due' \subseteq due
        /\ fate' \in [Alerts -> Fates]
        /\ \A p \in Rows' : attempts'[p] = attempts[p]
        /\ \A a \in Alerts : fate'[a] = fate[a] \/ (a \in S /\ fate[a] = "open" /\ fate'[a] = "dropped")
    <3>1. DeleteRow(held[1]) /\ UNCHANGED <<items, flight>> BY <1>1, <1>5
    <3>2. PICK c \in Parcels : c = held[1] BY <1>2
    <3>3. S = (IF c \in Rows THEN c ELSE {}) /\ DeleteRow(c) /\ UNCHANGED <<items, flight>>
      BY <2>a, <3>1, <3>2
    <3>4. PICK how \in Fates \ {"none", "open"} : how = "dropped" BY <2>b
    <3>5. End(S, how) BY <2>c, <3>4
    <3>6. /\ Rows' = Rows \ {c} /\ Open' = Open \ S /\ Divides(Waiting, Open)' /\ FatesMove
          /\ attempts' \in [Parcels -> 0 .. MaxAttempts - 1]
          /\ due' \in SUBSET {p \in Parcels : attempts'[p] > 0} /\ due' \subseteq due
          /\ fate' \in [Alerts -> Fates]
          /\ \A p \in Rows' : attempts'[p] = attempts[p]
          /\ \A a \in Alerts : fate'[a] = fate[a] \/ (a \in S /\ fate[a] = "open" /\ fate'[a] = how)
      BY <3>3, <3>5, RowGoes, ZenonT(60)
    <3> QED BY <3>2, <3>4, <3>6
  <2>5. x.todo \cup ({x.row} \ {<<>>}) \subseteq ToSend(d) BY <1>3, <2>1
  <2>6. /\ x.at # "write" /\ (x.at = "next" <=> x.row = <<>>) /\ x.row \notin x.todo
    <3>1. <<>> \notin drain[d].todo BY <1>1 DEF HoldsSound
    <3> QED BY <2>1, <3>1
  <2>7. drain[d].at # "write" /\ mayRepeat \subseteq mayRepeat' /\ Rows' \subseteq Rows BY <1>1, <2>3
  <2>8. HoldsSound' /\ TriesCounted' /\ RepeatsKnown' /\ drain' \in [Drains -> DrainKind]
    BY <1>1, <2>1, <2>2, <2>3, <2>5, <2>6, <2>7, DrainLetsGo
  <2>9. WebTypeOK' BY <1>1, <2>3, <2>8 DEF WebTypeOK, DrainKind, Counts, Fates
  <2>10. Deleted' /\ MutedWhileOff' BY <1>1, <2>3 DEF WebInv, Deleted, MutedWhileOff
  <2>11. EndsAreTrue'
    <3>1. \A a \in Alerts : tries[a] <= tries'[a] /\ tries'[a] \in Nat BY <1>1, WebFound
    <3>2. Open \subseteq muted BY <1>5 DEF WebInv, MutedWhileOff
    <3>3. \A a \in Alerts : fate'[a] = fate[a] \/ (fate'[a] = "dropped" /\ a \in muted') BY <1>1, <2>3, <3>2 DEF Open
    <3> QED BY <1>1, <3>1, <3>3, EndsStay DEF WebInv
  <2> QED BY <2>3, <2>8, <2>9, <2>10, <2>11 DEF WebInv
<1> QED BY <1>4, <1>5 DEF DrainNext

LEMMA DrainWriteStep == ASSUME WebInv, NEW d \in Drains, DrainWrite(d) PROVE WebInv'
<1>a. PICK held : held = drain[d].row OBVIOUS
<1>b. PICK c : c = held[1] OBVIOUS
<1>1. /\ WebTypeOK /\ HoldsSound /\ TriesCounted /\ RepeatsKnown /\ Divides(Waiting, Open) /\ drain[d] \in DrainKind
      /\ drain[d].at = "write" /\ held \in Holds(d) /\ held \notin drain[d].todo
      /\ drain' = [drain EXCEPT ![d].row = <<>>, ![d].at = "next", ![d].outcome = "none"]
      /\ UNCHANGED <<channel, items, flight, hookFaults, tries, got, twice, muted, mayRepeat>>
  <2>1. WebTypeOK /\ HoldsSound /\ drain[d].at = "write" BY DEF WebInv, DrainWrite
  <2>2. held \in Holds(d) BY <1>a, <2>1, RowIsHeld
  <2> QED BY <1>a, <2>1, <2>2, WebFound DEF WebInv, DrainWrite, HoldsSound
<1>2. /\ c \in Parcels /\ c \subseteq Alerts /\ held[2] \in Counts /\ held[2] \in Nat
      /\ MaxAttempts \in Nat /\ MaxAttempts > 1
      /\ \A a \in c : held[2] < tries[a]
      /\ IF drain[d].outcome = "ok" THEN c \subseteq got ELSE c \cap got \subseteq mayRepeat
  <2>1. c \in Parcels /\ c \subseteq Alerts /\ held[2] \in Counts BY <1>b, <1>1, HeldRow
  <2>2. MaxAttempts \in Nat /\ MaxAttempts > 1 /\ held[2] \in Nat BY <1>1, <2>1, WebFound DEF Counts
  <2>3. \A a \in c : held[2] < tries[a] BY <1>a, <1>b, <1>1 DEF TriesCounted
  <2>4. IF drain[d].outcome = "ok" THEN c \subseteq got ELSE c \cap got \subseteq mayRepeat
    BY <1>a, <1>b, <1>1 DEF RepeatsKnown
  <2> QED BY <2>1, <2>2, <2>3, <2>4
<1> DEFINE x == [drain[d] EXCEPT !.row = <<>>, !.at = "next", !.outcome = "none"]
<1>3. /\ x \in DrainKind /\ x.at = "next" /\ x.row = <<>> /\ x.todo = drain[d].todo
  BY <1>1 DEF DrainKind
<1>4. drain' = [drain EXCEPT ![d] = x] BY <1>1, WebFound
<1> HIDE DEF x
<1>5. x.todo \cup ({x.row} \ {<<>>}) \subseteq ToSend(d)
  <2>1. drain[d].todo \subseteq Holds(d) BY DEF Holds
  <2>2. \A r \in drain[d].todo : r[1] # held[1] BY <1>1, <2>1 DEF HoldsSound
  <2>3. \A r \in drain[d].todo : ~Writes(d, r[1]) BY <1>a, <2>2 DEF Writes
  <2> QED BY <1>3, <2>1, <2>3 DEF ToSend
<1>6. /\ x.at # "write" /\ (x.at = "next" <=> x.row = <<>>) /\ x.row \notin x.todo /\ mayRepeat \subseteq mayRepeat'
  <2>1. \A r \in drain[d].todo : r # <<>>
    <3>1. \A r \in drain[d].todo : r \in Holds(d) BY DEF Holds
    <3> QED BY <1>1, <3>1, HeldRow
  <2> QED BY <1>1, <1>3, <2>1
\* The three ways to write come to the same.
<1>7. ASSUME FatesMove, Divides(Waiting, Open)', Rows' \subseteq Rows, Open' \subseteq Open,
             \A p \in Rows' : \/ attempts'[p] = attempts[p]
                              \/ Writes(d, p) /\ attempts'[p] = held[2] + 1,
             c \notin Rows' \/ c \cap got \subseteq mayRepeat,
             attempts' \in [Parcels -> 0 .. MaxAttempts - 1],
             due' \in SUBSET {p \in Parcels : attempts'[p] > 0}, due' \subseteq due,
             fate' \in [Alerts -> Fates],
             \A a \in Alerts : \/ fate'[a] = fate[a]
                               \/ fate'[a] = "refused"
                               \/ fate'[a] = "delivered" /\ a \in got
                               \/ fate'[a] = "gaveUp" /\ tries[a] >= MaxAttempts
      PROVE  WebInv'
  <2>1. HoldsSound' /\ TriesCounted' /\ RepeatsKnown' /\ drain' \in [Drains -> DrainKind]
    <3>1. drain[d].at = "write" => \/ drain[d].row[1] \notin Rows'
                                   \/ drain[d].row[1] \cap got \subseteq mayRepeat'
      BY <1>a, <1>b, <1>1, <1>7
    <3>2. \A p \in Rows' : \/ attempts'[p] = attempts[p]
                           \/ Writes(d, p) /\ attempts'[p] = drain[d].row[2] + 1
      BY <1>a, <1>7
    <3>3. UNCHANGED <<items, flight, tries, got, twice>> BY <1>1
    <3> QED BY <1>3, <1>4, <1>5, <1>6, <1>7, <3>1, <3>2, <3>3, DrainLetsGo
  <2>2. WebTypeOK' BY <1>1, <1>7, <2>1 DEF WebTypeOK, DrainKind, Counts, Fates
  <2>3. Deleted' /\ MutedWhileOff' BY <1>1, <1>7 DEF WebInv, Deleted, MutedWhileOff
  <2>4. EndsAreTrue'
    <3>1. \A a \in Alerts : tries[a] <= tries'[a] /\ tries'[a] \in Nat BY <1>1, WebFound
    <3> QED BY <1>1, <1>7, <3>1, EndsStay DEF WebInv
  <2> QED BY <1>7, <2>1, <2>2, <2>3, <2>4 DEF WebInv
<1> DEFINE there == attempts[c] > 0
           ended == drain[d].outcome \in {"ok", "permanent"} \/ GivesUp(held)
           how == CASE drain[d].outcome = "ok" -> "delivered"
                    [] drain[d].outcome = "permanent" -> "refused"
                    [] OTHER -> "gaveUp"
<1>8. CASE there /\ ended /\ DeleteRow(c) /\ End(c, how)
  <2>1. c \in Rows BY <1>2, <1>8 DEF Rows
  <2>2. PICK h \in {"delivered", "refused", "gaveUp"} : h = how OBVIOUS
  <2>3. h \in Fates \ {"none", "open"} BY DEF Fates
  <2>4. /\ Rows' = Rows \ {c} /\ Open' = Open \ c /\ Divides(Waiting, Open)' /\ FatesMove
        /\ attempts' \in [Parcels -> 0 .. MaxAttempts - 1]
        /\ due' \in SUBSET {p \in Parcels : attempts'[p] > 0} /\ due' \subseteq due
        /\ fate' \in [Alerts -> Fates]
        /\ \A p \in Rows' : attempts'[p] = attempts[p]
        /\ \A a \in Alerts : fate'[a] = fate[a] \/ (a \in c /\ fate[a] = "open" /\ fate'[a] = h)
    <3> HIDE DEF how
    <3>1. c = (IF c \in Rows THEN c ELSE {}) BY <2>1
    <3>2. End(c, h) /\ DeleteRow(c) /\ UNCHANGED <<items, flight>> BY <1>1, <1>8, <2>2
    <3> QED BY <1>2, <2>3, <3>1, <3>2, RowGoes
  <2>5. h = "delivered" => c \subseteq got BY <1>2, <2>2
  <2>6. h = "gaveUp" => \A a \in c : tries[a] >= MaxAttempts
    <3> SUFFICES ASSUME h = "gaveUp", NEW a \in c PROVE tries[a] >= MaxAttempts OBVIOUS
    <3>1. GivesUp(held) BY <1>8, <2>2
    <3>2. held[2] + 1 >= MaxAttempts BY <3>1 DEF GivesUp
    <3>3. tries[a] \in Nat /\ held[2] < tries[a] BY <1>1, <1>2, WebFound
    <3> QED BY <1>2, <3>2, <3>3
  <2>7. \A a \in Alerts : \/ fate'[a] = fate[a]
                          \/ fate'[a] = "refused"
                          \/ fate'[a] = "delivered" /\ a \in got
                          \/ fate'[a] = "gaveUp" /\ tries[a] >= MaxAttempts
    <3>1. \A a \in c : a \in Alerts BY <1>2
    <3> HIDE DEF how
    <3> QED BY <2>4, <2>5, <2>6
  <2> QED BY <1>7, <2>4, <2>7
<1>9. CASE there /\ ~ended /\ attempts' = [attempts EXCEPT ![c] = held[2] + 1] /\ due' = due \ {c} /\ UNCHANGED fate
  <2>1. /\ attempts \in [Parcels -> 0 .. MaxAttempts - 1] /\ due \subseteq {p \in Parcels : attempts[p] > 0}
        /\ fate \in [Alerts -> Fates]
    BY <1>1, WebFound DEF WebTypeOK
  <2>2. held[2] + 1 \in 1 .. MaxAttempts - 1
    <3>1. ~(held[2] + 1 >= MaxAttempts) BY <1>9 DEF GivesUp
    <3> QED BY <1>2, <3>1
  <2>3. /\ attempts' \in [Parcels -> 0 .. MaxAttempts - 1]
        /\ \A p \in Parcels : attempts'[p] = IF p = c THEN held[2] + 1 ELSE attempts[p]
    BY <1>2, <1>9, <2>1, <2>2
  <2>4. Rows' = Rows
    <3>1. attempts'[c] > 0 /\ attempts[c] > 0 BY <1>2, <1>9, <2>2, <2>3
    <3> QED BY <2>3, <3>1 DEF Rows
  <2>5. Waiting' = Waiting /\ Open' = Open BY <1>1, <1>9, <2>4 DEF Waiting, Open
  <2>6. FatesMove BY <1>9, <2>4 DEF FatesMove
  <2>7. due' \in SUBSET {p \in Parcels : attempts'[p] > 0} /\ due' \subseteq due BY <1>9, <2>1, <2>3
  <2>8. c \cap got \subseteq mayRepeat
    <3>1. drain[d].outcome # "ok" BY <1>9
    <3> QED BY <1>2, <3>1
  <2>9. \A p \in Rows' : attempts'[p] = attempts[p] \/ (Writes(d, p) /\ attempts'[p] = held[2] + 1)
    <3>1. Writes(d, c) BY <1>a, <1>b, <1>1 DEF Writes
    <3>2. Rows' \subseteq Parcels BY <2>4, <1>1, WebFound
    <3> QED BY <2>3, <3>1, <3>2
  <2> QED BY <1>1, <1>7, <1>9, <2>1, <2>3, <2>4, <2>5, <2>6, <2>7, <2>8, <2>9
<1>10. CASE ~there /\ UNCHANGED <<attempts, due, fate>>
  <2>1. Rows' = Rows /\ c \notin Rows BY <1>10 DEF Rows
  <2>2. Waiting' = Waiting /\ Open' = Open BY <1>1, <1>10, <2>1 DEF Waiting, Open
  <2>3. FatesMove BY <1>10, <2>1 DEF FatesMove
  <2>4. /\ attempts' \in [Parcels -> 0 .. MaxAttempts - 1] /\ fate' \in [Alerts -> Fates]
        /\ due' \in SUBSET {p \in Parcels : attempts'[p] > 0}
    BY <1>1, <1>10, WebFound DEF WebTypeOK
  <2> QED BY <1>1, <1>7, <1>10, <2>1, <2>2, <2>3, <2>4
<1> QED BY <1>a, <1>b, <1>8, <1>9, <1>10 DEF DrainWrite

LEMMA DrainFailsStep == ASSUME WebInv, NEW d \in Drains, DrainFails(d) PROVE WebInv'
<1>1. /\ WebTypeOK /\ HoldsSound /\ Divides(Waiting, Open) /\ drain' = [drain EXCEPT ![d] = NoDrain]
      /\ mayRepeat' = mayRepeat \cup (IF drain[d].at = "write" THEN drain[d].row[1] ELSE {})
      /\ UNCHANGED <<channel, items, attempts, due, flight, fate, tries, got, twice, muted>>
      /\ Rows' = Rows /\ Waiting' = Waiting /\ Open' = Open
  BY DEF WebInv, DrainFails, stores, Rows, Waiting, Open
<1>2. hookFaults' \in 0 .. MaxHookFaults /\ hookFaults' \in {hookFaults, hookFaults + 1}
  BY <1>1, WebFound DEF DrainFails, HookFault
<1>3. /\ NoDrain \in DrainKind /\ NoDrain.at = "next" /\ NoDrain.row = <<>> /\ NoDrain.todo = {}
  BY DEF NoDrain, DrainKind
<1>4. FatesMove BY <1>1 DEF FatesMove
<1>5. HoldsSound' /\ TriesCounted' /\ RepeatsKnown' /\ drain' \in [Drains -> DrainKind]
  <2>1. NoDrain.todo \cup ({NoDrain.row} \ {<<>>}) \subseteq ToSend(d) BY <1>3
  <2>2. drain[d].at = "write" => drain[d].row[1] \cap got \subseteq mayRepeat' BY <1>1
  <2> QED BY <1>1, <1>3, <1>4, <2>1, <2>2, DrainLetsGo
<1>6. WebTypeOK'
  <2>1. drain[d].at = "write" => drain[d].row[1] \subseteq Alerts BY <1>1, RowIsHeld, HeldRow
  <2>2. mayRepeat' \in SUBSET Alerts BY <1>1, <2>1 DEF WebTypeOK
  <2> QED BY <1>1, <1>2, <1>5, <2>2 DEF WebTypeOK, DrainKind, Counts
<1>7. Deleted' /\ MutedWhileOff' BY <1>1 DEF WebInv, Deleted, MutedWhileOff
<1>8. EndsAreTrue'
  <2>1. \A a \in Alerts : tries[a] <= tries'[a] /\ tries'[a] \in Nat BY <1>1, WebFound
  <2> QED BY <1>1, <1>2, <2>1, EndsStay DEF WebInv
<1> QED BY <1>1, <1>5, <1>6, <1>7, <1>8 DEF WebInv

(***************************************************************************)
(* The invariant, and what it says of every alert.                         *)
(***************************************************************************)

LEMMA WebInvInit == WebInit => WebInv
<1> SUFFICES ASSUME WebInit PROVE WebInv OBVIOUS
<1>1. /\ channel = "on" /\ items = {} /\ flight = {} /\ attempts = [c \in Parcels |-> 0] /\ due = {}
      /\ drain = [d \in Drains |-> NoDrain] /\ hookFaults = 0 /\ fate = [a \in Alerts |-> "none"]
      /\ tries = [a \in Alerts |-> 0] /\ got = {} /\ twice = {} /\ muted = {} /\ mayRepeat = {}
  BY DEF WebInit
<1>2. /\ NoDrain \in DrainKind /\ NoDrain.at = "next" /\ NoDrain.row = <<>> /\ NoDrain.todo = {}
  BY DEF NoDrain, DrainKind
<1>3. Rows = {} /\ Open = {} BY <1>1 DEF Rows, Open
<1>4. Waiting = {} BY <1>1, <1>3 DEF Waiting
<1>5. \A d \in Drains : drain[d] = NoDrain /\ Holds(d) = {} /\ ToSend(d) = {} BY <1>1, <1>2 DEF Holds, ToSend
<1>6. WebTypeOK
  <2>1. drain \in [Drains -> DrainKind] BY <1>1, <1>2
  <2>2. /\ attempts \in [Parcels -> 0 .. MaxAttempts - 1] /\ tries \in [Alerts -> 0 .. MaxAttempts]
        /\ hookFaults \in 0 .. MaxHookFaults
    BY <1>1, WebAssumption
  <2> QED BY <1>1, <2>1, <2>2 DEF WebTypeOK, DrainKind, Counts
<1>7. Deleted /\ MutedWhileOff /\ Divides(Waiting, Open) BY <1>1, <1>3, <1>4 DEF Deleted, MutedWhileOff, Divides
<1>8. HoldsSound /\ TriesCounted BY <1>1, <1>2, <1>3, <1>5 DEF HoldsSound, TriesCounted
<1>9. RepeatsKnown BY <1>1, <1>2, <1>3, <1>4, <1>5 DEF RepeatsKnown
<1>10. EndsAreTrue BY <1>1 DEF EndsAreTrue
<1> QED BY <1>6, <1>7, <1>8, <1>9, <1>10 DEF WebInv

LEMMA WebInvStep == WebInv /\ [WebNext]_hookVars => WebInv'
<1> SUFFICES ASSUME WebInv, [WebNext]_hookVars PROVE WebInv' OBVIOUS
<1>1. ASSUME NEW a \in Alerts, Raise(a) PROVE WebInv' BY <1>1, RaiseStep
<1>2. ASSUME NEW a \in Alerts, RaiseFails(a) PROVE WebInv' BY <1>2, RaiseFailsStep
<1>3. ASSUME NEW c \in Parcels, FlightStep(c) PROVE WebInv'
  BY <1>3, FirstAttemptStep, EnqueueRetryStep, FlushReadsChannelStep DEF FlightStep
<1>4. ASSUME NEW c \in Parcels, ComesDue(c) PROVE WebInv' BY <1>4, ComesDueStep
<1>5. CASE FlushClaim BY <1>5, FlushClaimStep
<1>6. ASSUME NEW f \in flight, FlightFails(f) PROVE WebInv' BY <1>6, FlightFailsStep
<1>7. ASSUME NEW d \in Drains, DrainStart(d) PROVE WebInv' BY <1>7, DrainStartStep
<1>8. ASSUME NEW d \in Drains, DrainStep(d) PROVE WebInv'
  BY <1>8, DrainNextStep, DrainAttemptStep, DrainWriteStep DEF DrainStep
<1>9. ASSUME NEW d \in Drains, DrainFails(d) PROVE WebInv' BY <1>9, DrainFailsStep
<1>10. CASE SetEnabled BY <1>10, SetEnabledStep
<1>11. CASE DeleteChannel BY <1>11, DeleteChannelStep
<1>12. CASE WebRestart BY <1>12, WebRestartStep
<1>13. CASE UNCHANGED hookVars
  <2>1. /\ UNCHANGED <<channel, items, flight, attempts, due, drain, hookFaults>>
        /\ UNCHANGED <<fate, tries, got, twice, muted, mayRepeat>>
    BY <1>13 DEF hookVars
  <2>2. Rows' = Rows /\ Open' = Open BY <2>1 DEF Rows, Open
  <2>3. Waiting' = Waiting /\ \A d \in Drains : Holds(d)' = Holds(d) /\ ToSend(d)' = ToSend(d)
    BY <2>1, <2>2 DEF Waiting, Holds, ToSend, Writes
  <2>4. WebTypeOK' BY <2>1 DEF WebInv, WebTypeOK
  <2>5. HoldsSound' /\ TriesCounted' BY <2>1, <2>2, <2>3 DEF WebInv, HoldsSound, TriesCounted
  <2>6. RepeatsKnown' BY <2>1, <2>2, <2>3 DEF WebInv, RepeatsKnown, Writes
  <2> QED BY <2>1, <2>2, <2>3, <2>4, <2>5, <2>6 DEF WebInv, Deleted, MutedWhileOff, EndsAreTrue
<1> QED
  BY <1>1, <1>2, <1>3, <1>4, <1>5, <1>6, <1>7, <1>8, <1>9, <1>10, <1>11, <1>12, <1>13 DEF WebNext

\* Where an alert waits are the parcels that have it.
LEMMA WaitsOnce == WebInv => InOnePlace
<1> SUFFICES ASSUME WebInv, NEW a \in Alerts
             PROVE  Cardinality(Places(a)) = IF fate[a] = "open" THEN 1 ELSE 0
  BY DEF InOnePlace
<1>1. Places(a) = {f \in Waiting : a \in f[1]}
  <2>1. \A f \in {<<{y}, "item">> : y \in items} : a \in f[1] <=> (a \in items /\ f = <<{a}, "item">>) OBVIOUS
  <2>2. {<<{y}, "item">> : y \in {a} \cap items} = {f \in {<<{y}, "item">> : y \in items} : a \in f[1]}
    BY <2>1
  <2>3. {<<c, "row">> : c \in {c \in Parcels : attempts[c] > 0 /\ a \in c}}
          = {f \in {<<c, "row">> : c \in Rows} : a \in f[1]}
    BY DEF Rows
  <2> QED BY <2>2, <2>3 DEF Places, Waiting
<1>2. CASE fate[a] = "open"
  <2>1. a \in Open BY <1>2 DEF Open
  <2>2. PICK f \in Waiting : a \in f[1] BY <2>1 DEF WebInv, Divides
  <2>3. \A g \in Waiting : a \in g[1] => g = f BY <2>2 DEF WebInv, Divides
  <2>4. Places(a) = {f} BY <1>1, <2>2, <2>3
  <2> QED BY <1>2, <2>4, FS_Singleton
<1>3. CASE fate[a] # "open"
  <2>1. a \notin Open BY <1>3 DEF Open
  <2>2. Places(a) = {} BY <1>1, <2>1 DEF WebInv, Divides
  <2> QED BY <1>3, <2>2, FS_EmptySet
<1> QED BY <1>2, <1>3

\* Type correctness: a drain holds rows of the retry queue with the attempts
\* it read, and no count passes the attempt limit (webhooks/retryQueue.ts).
THEOREM WebTypeCorrect == WebSpec => []WebTypeOK
<1>1. WebInv => WebTypeOK BY DEF WebInv
<1> QED BY <1>1, WebInvInit, WebInvStep, PTL DEF WebSpec

\* Every alert is accounted for, whatever claims, drains, restarts and
\* deletions come between: it waits in one place or has come to an end that is
\* what is said of it, and the target took it again only for a reason
\* (webhooks/dispatch.ts, bundle.ts, retryQueue.ts).
THEOREM AlertsStayAccounted == WebSpec => []AlertsAccounted
<1>1. WebInv => AlertsAccounted BY WaitsOnce DEF WebInv, AlertsAccounted, RepeatsKnown, RepeatsAreExcused
<1> QED BY <1>1, WebInvInit, WebInvStep, PTL DEF WebSpec

=============================================================================
