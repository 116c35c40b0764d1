---------------------------- MODULE HecForwarder ----------------------------
(***************************************************************************)
(* The webserver's feeds to a SIEM (hec/forwarder.ts). Six tables are      *)
(* paged in the order of a key, each behind a cursor of its own in         *)
(* hec_state: the audit log, observations and certificates by a growing    *)
(* id, scan logs, findings and hosts by (timestamp, id). A pass            *)
(* (runHecForward) goes through the enabled feeds: it reads the cursor,    *)
(* then the next rows, posts them in slices, and stores the last key.      *)
(* Passes are started by a timer that does not wait for the last one, and  *)
(* by an administrator.                                                    *)
(*                                                                         *)
(* A key is handed out when a row is inserted, and the row is seen when    *)
(* its transaction commits, which may be in another order. A host that is  *)
(* seen again, or a scan log that is uploaded again, moves to a new key    *)
(* (Moving).                                                               *)
(*                                                                         *)
(* Left out: what an event says, hec_state's statistics, and that a scan   *)
(* log makes many events, of which the last counts as its row.             *)
(***************************************************************************)
EXTENDS Naturals, FiniteSets

CONSTANTS
    NumFeeds,       \* feeds, in the order a pass takes them
    Moving,         \* those whose rows are updated to a new key
    Passes,         \* passes that may be under way at once
    MaxKey,         \* keys handed out in one behaviour, in all feeds
    RowsPerTick,    \* MAX_ROWS_PER_TICK
    EventsPerPost,  \* MAX_EVENTS_PER_POST
    MaxHecFaults       \* failed posts and restarts in one behaviour

ASSUME HecAssumption ==
    /\ NumFeeds \in Nat /\ MaxKey \in Nat /\ MaxHecFaults \in Nat
    /\ Moving \subseteq 1 .. NumFeeds
    /\ RowsPerTick \in Nat \ {0} /\ EventsPerPost \in Nat \ {0}

Feeds == 1 .. NumFeeds
Keys == 1 .. MaxKey

VARIABLES
    row,        \* of every key: "none", "open" (not committed), "seen", "gone"
    movedFrom,  \* the key a row had before (0: it is new)
    cursor,     \* hec_state (0: null)
    hecOn,      \* the feeds an administrator has enabled
    pass,       \* passes under way
    received,   \* of the rows that are there, those the collector has taken
    hecFaults,
    \* history
    late,       \* those that committed behind the cursor, or behind a pass
    again,      \* feeds of which the collector got a row more than once
    cause       \* feeds for which something happened that makes rows repeat

hecVars == <<row, movedFrom, cursor, hecOn, pass, received, hecFaults, late, again, cause>>
tableVars == <<row, movedFrom>>

NoPass == [todo |-> {}, pc |-> "idle", from |-> 0, rows |-> {}, rest |-> {}]

HecTypeOK ==
    /\ row \in [Feeds -> [Keys -> {"none", "open", "seen", "gone"}]]
    /\ movedFrom \in [Feeds -> [Keys -> {0} \cup Keys]]
    /\ cursor \in [Feeds -> {0} \cup Keys]
    /\ hecOn \in SUBSET Feeds
    /\ pass \in [Passes -> [todo : SUBSET Feeds, pc : {"idle", "cursor", "query", "post", "store"},
                            from : {0} \cup Keys, rows : SUBSET Keys, rest : SUBSET Keys]]
    /\ \A p \in Passes : pass[p].pc \in {"post", "store"} => pass[p].rows # {}
    /\ hecFaults \in 0 .. MaxHecFaults
    /\ received \in [Feeds -> SUBSET Keys]
    /\ late \in [Feeds -> SUBSET Keys]
    /\ again \in SUBSET Feeds
    /\ cause \in SUBSET Feeds

HecInit ==
    /\ row = [f \in Feeds |-> [k \in Keys |-> "none"]]
    /\ movedFrom = [f \in Feeds |-> [k \in Keys |-> 0]]
    /\ cursor = [f \in Feeds |-> 0]
    /\ hecOn = Feeds
    /\ pass = [p \in Passes |-> NoPass]
    /\ received = [f \in Feeds |-> {}]
    /\ hecFaults = 0
    /\ late = [f \in Feeds |-> {}]
    /\ again = {}
    /\ cause = {}

(***************************************************************************)
(* The tables.                                                             *)
(***************************************************************************)

\* A statement takes the next key: nextval of the sequence, or the time.
HandsOut(f, k) ==
    /\ Cardinality({r \in Feeds \X Keys : row[r[1]][r[2]] # "none"}) < MaxKey
    /\ row[f][k] = "none"
    /\ \A j \in Keys : j < k => row[f][j] # "none"

Insert(f, k) ==
    /\ HandsOut(f, k)
    /\ row' = [row EXCEPT ![f][k] = "open"]
    /\ UNCHANGED <<movedFrom, cursor, hecOn, pass, received, hecFaults, late, again, cause>>

\* INSERT ... ON CONFLICT DO UPDATE of a row that is there; it is locked
\* until this transaction ends.
Touch(f, old, k) ==
    /\ f \in Moving
    /\ row[f][old] = "seen"
    /\ \A j \in Keys : movedFrom[f][j] # old
    /\ HandsOut(f, k)
    /\ row' = [row EXCEPT ![f][k] = "open"]
    /\ movedFrom' = [movedFrom EXCEPT ![f][k] = old]
    /\ UNCHANGED <<cursor, hecOn, pass, received, hecFaults, late, again, cause>>

\* Pass p is at feed f, which is the first it has to do.
At(p, f, pc) ==
    /\ pass[p].pc = pc
    /\ f \in pass[p].todo
    /\ \A g \in pass[p].todo : f <= g

\* A pass has read feed f, its cursor or its rows, beyond key k.
LooksPast(p, f, k) ==
    /\ \E pc \in {"query", "post", "store"} : At(p, f, pc)
    /\ \E j \in pass[p].rows \cup {pass[p].from} : k <= j

CommitRow(f, k) ==
    /\ row[f][k] = "open"
    /\ LET old == movedFrom[f][k]
           behind == k <= cursor[f] \/ \E p \in Passes : LooksPast(p, f, k)
       IN  /\ row' = [row EXCEPT ![f] = [j \in Keys |->
                        IF j = k THEN "seen" ELSE IF j = old THEN "gone" ELSE @[j]]]
           /\ received' = [received EXCEPT ![f] = @ \ {old}]
           /\ late' = [late EXCEPT ![f] = (@ \ {old}) \cup IF behind THEN {k} ELSE {}]
    /\ movedFrom' = [movedFrom EXCEPT ![f][k] = 0]
    /\ UNCHANGED <<cursor, hecOn, pass, hecFaults, again, cause>>

Abort(f, k) ==
    /\ row[f][k] = "open"
    /\ row' = [row EXCEPT ![f][k] = "gone"]
    /\ movedFrom' = [movedFrom EXCEPT ![f][k] = 0]
    /\ UNCHANGED <<cursor, hecOn, pass, received, hecFaults, late, again, cause>>

\* Retention, or the deletion of a host. A locked row waits for its transaction.
Purge(f, k) ==
    /\ row[f][k] = "seen"
    /\ \A j \in Keys : movedFrom[f][j] # k
    /\ row' = [row EXCEPT ![f][k] = "gone"]
    /\ received' = [received EXCEPT ![f] = @ \ {k}]
    /\ late' = [late EXCEPT ![f] = @ \ {k}]
    /\ UNCHANGED <<movedFrom, cursor, hecOn, pass, hecFaults, again, cause>>

(***************************************************************************)
(* A pass.                                                                 *)
(***************************************************************************)

\* The settings are read once, at the start.
StartPass(p) ==
    /\ pass[p].pc = "idle"
    /\ hecOn # {}
    /\ pass' = [pass EXCEPT ![p] = [NoPass EXCEPT !.todo = hecOn, !.pc = "cursor"]]
    /\ UNCHANGED <<row, movedFrom, cursor, hecOn, received, hecFaults, late, again, cause>>

\* On to the next enabled feed, or the end.
LeaveFeed(p, f) ==
    LET left == pass[p].todo \ {f}
    IN  [NoPass EXCEPT !.todo = left, !.pc = IF left = {} THEN "idle" ELSE "cursor"]

\* state(). Two passes in one feed take the same rows.
ReadCursor(p, f) ==
    /\ At(p, f, "cursor")
    /\ pass' = [pass EXCEPT ![p].pc = "query", ![p].from = cursor[f]]
    /\ cause' = IF \E q \in Passes \ {p}, pc \in {"query", "post", "store"} : At(q, f, pc)
                THEN cause \cup {f} ELSE cause
    /\ UNCHANGED <<row, movedFrom, cursor, hecOn, received, hecFaults, late, again>>

\* ORDER BY ... LIMIT n
First(n, S) == {k \in S : Cardinality({j \in S : j < k}) < n}

\* Not the code: ">=" for ">", the row of the cursor is read again.
AheadInclusive(f, from) == {k \in Keys : k >= from /\ row[f][k] = "seen"}

Ahead(f, from) == {k \in Keys : k > from /\ row[f][k] = "seen"}

\* Not the code: a page of no rows goes on to be posted.
QueryRowsOrNone(p, f) ==
    /\ At(p, f, "query")
    /\ LET rows == First(RowsPerTick, Ahead(f, pass[p].from))
       IN  pass' = [pass EXCEPT ![p].pc = "post", ![p].rows = rows, ![p].rest = rows]
    /\ UNCHANGED <<row, movedFrom, cursor, hecOn, received, hecFaults, late, again, cause>>

QueryRows(p, f) ==
    /\ At(p, f, "query")
    /\ LET rows == First(RowsPerTick, Ahead(f, pass[p].from))
       IN  pass' = [pass EXCEPT ![p] = IF rows = {} THEN LeaveFeed(p, f)
                      ELSE [@ EXCEPT !.pc = "post", !.rows = rows, !.rest = rows]]
    /\ UNCHANGED <<row, movedFrom, cursor, hecOn, received, hecFaults, late, again, cause>>

Slice(p) == First(EventsPerPost, pass[p].rest)

Takes(f, keys) ==
    /\ received' = [received EXCEPT ![f] = @ \cup {k \in keys : row[f][k] = "seen"}]
    /\ again' = IF keys \cap received[f] = {} THEN again ELSE again \cup {f}

\* Not the code: only the first slice of a page is sent.
PostSliceOnce(p, f) ==
    /\ At(p, f, "post")
    /\ Takes(f, Slice(p))
    /\ pass' = [pass EXCEPT ![p].pc = "store"]
    /\ UNCHANGED <<row, movedFrom, cursor, hecOn, hecFaults, late, cause>>

PostSlice(p, f) ==
    /\ At(p, f, "post")
    /\ Takes(f, Slice(p))
    /\ LET rest == pass[p].rest \ Slice(p)
       IN  pass' = [pass EXCEPT ![p].rest = rest, ![p].pc = IF rest = {} THEN "store" ELSE "post"]
    /\ UNCHANGED <<row, movedFrom, cursor, hecOn, hecFaults, late, cause>>

\* Not the code: the cursor is stored although the post failed.
PostFailsButStores(p, f) ==
    /\ At(p, f, "post")
    /\ hecFaults < MaxHecFaults
    /\ hecFaults' = hecFaults + 1
    /\ UNCHANGED <<received, again>>
    /\ cause' = cause \cup {f}
    /\ pass' = [pass EXCEPT ![p].pc = "store"]
    /\ UNCHANGED <<row, movedFrom, cursor, hecOn, late>>

\* The collector refuses a slice, or takes it and its answer is lost: the
\* pass gives this feed up and the cursor stays where it was.
PostFails(p, f) ==
    /\ At(p, f, "post")
    /\ hecFaults < MaxHecFaults
    /\ hecFaults' = hecFaults + 1
    /\ \/ UNCHANGED <<received, again>>
       \/ Takes(f, Slice(p))
    /\ cause' = cause \cup {f}
    /\ pass' = [pass EXCEPT ![p] = LeaveFeed(p, f)]
    /\ UNCHANGED <<row, movedFrom, cursor, hecOn, late>>

StoreCursor(p, f) ==
    /\ At(p, f, "store")
    /\ \E k \in pass[p].rows :
         /\ \A j \in pass[p].rows : j <= k
         /\ cursor' = [cursor EXCEPT ![f] = k]
    /\ pass' = [pass EXCEPT ![p] = LeaveFeed(p, f)]
    /\ UNCHANGED <<row, movedFrom, hecOn, received, hecFaults, late, again, cause>>

PassStep(p) ==
    \E f \in Feeds : ReadCursor(p, f) \/ QueryRows(p, f) \/ PostSlice(p, f) \/ StoreCursor(p, f)

\* setHecSettings: the cursors stay as they are.
SetHecSettings(on) ==
    /\ hecFaults < MaxHecFaults
    /\ hecFaults' = hecFaults + 1
    /\ on # hecOn
    /\ hecOn' = on
    /\ UNCHANGED <<row, movedFrom, cursor, pass, received, late, again, cause>>

\* The webserver is restarted: its passes are gone.
HecRestart ==
    /\ hecFaults < MaxHecFaults
    /\ hecFaults' = hecFaults + 1
    /\ cause' = cause \cup {f \in Feeds : \E p \in Passes, pc \in {"post", "store"} : At(p, f, pc)}
    /\ pass' = [p \in Passes |-> NoPass]
    /\ UNCHANGED <<row, movedFrom, cursor, hecOn, received, late, again>>

Tables ==
    \E f \in Feeds, k \in Keys :
        \/ Insert(f, k)
        \/ \E old \in Keys : Touch(f, old, k)
        \/ CommitRow(f, k)
        \/ Abort(f, k)
        \/ Purge(f, k)

HecNext ==
    \/ Tables
    \/ \E p \in Passes : StartPass(p) \/ PassStep(p)
    \/ \E p \in Passes, f \in Feeds : PostFails(p, f)
    \/ \E on \in SUBSET Feeds : SetHecSettings(on)
    \/ HecRestart

HecFairness ==
    /\ \A p \in Passes : WF_hecVars(StartPass(p)) /\ WF_hecVars(PassStep(p))

HecSpec == HecInit /\ [][HecNext]_hecVars /\ HecFairness

(***************************************************************************)
(* Properties.                                                             *)
(***************************************************************************)

\* Nothing behind a cursor is missing at the collector, except rows whose
\* transaction committed after a pass had looked past their key. The comment
\* at forwarder.ts:134 promises "never skipping one".
OnlyLateRowsSkipped ==
    \A f \in Feeds, k \in Keys :
        row[f][k] = "seen" /\ k <= cursor[f] => k \in received[f] \cup late[f]

\* A row is sent again only where a post failed, two passes met in one feed,
\* or the webserver was restarted between a post and its cursor.
RepeatsHaveACause == again \subseteq cause

\* Every row that is not late reaches the collector, whatever fails on the
\* way, as long as its feed stays enabled and the row exists.
RowsArrive ==
    \A f \in Feeds, k \in Keys :
        row[f][k] = "seen" ~> (\/ k \in received[f] \cup late[f]
                               \/ row[f][k] # "seen"
                               \/ f \notin hecOn)

\* What stays true of a feed whatever passes, transactions and faults do: the
\* collector has every row behind the cursor that was there to be read, and
\* has a row twice only for a reason.
FeedIsExact == HecTypeOK /\ OnlyLateRowsSkipped /\ RepeatsHaveACause

=============================================================================
