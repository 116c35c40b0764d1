------------------------------ MODULE Webhooks ------------------------------
(***************************************************************************)
(* How an alert reaches one channel (webhooks/dispatch.ts, bundle.ts,      *)
(* retryQueue.ts). An immediate alert is posted by the process that raises *)
(* it; a per-host alert of a bundling channel is stored, and a flush every *)
(* 30 seconds claims what has waited long enough and posts it as one       *)
(* parcel. What fails for now is stored in webhook_retry_queue and posted  *)
(* again by a drain every minute, until an attempt limit. Neither timer    *)
(* waits for its last pass.                                                *)
(*                                                                         *)
(* Stored items and retry rows survive a restart and go with the channel;  *)
(* a parcel under way is only in memory. The target may refuse a parcel    *)
(* for good, fail for now, or take it and have its answer lost.            *)
(*                                                                         *)
(* Left out: filters and wording, the diagnostic tail webhook_deliveries,  *)
(* the order and the limit of 50 rows in which a drain goes through what   *)
(* is due.                                                                 *)
(***************************************************************************)
EXTENDS Naturals, FiniteSets

CONSTANTS
    Alerts,         \* alerts raised in one behaviour
    Bundled,        \* those this channel may bundle (BUNDLEABLE_EVENTS)
    Drains,         \* drains of the retry queue that may be under way at once
    MaxAttempts,    \* MAX_ATTEMPTS
    MaxHookFaults   \* failing statements, lost answers and restarts

ASSUME WebAssumption ==
    /\ Bundled \subseteq Alerts
    /\ MaxAttempts \in Nat /\ MaxAttempts > 1
    /\ MaxHookFaults \in Nat

Parcels == (SUBSET Alerts) \ {{}}

VARIABLES
    channel,    \* the webhooks row: "on", "off", "gone"
    items,      \* webhook_bundle_items
    flight,     \* first attempts in memory: <<parcel, step>>
    attempts,   \* webhook_retry_queue.attempt_count (0: no row)
    due,        \* rows whose next_attempt_at has come
    drain,      \* drains under way
    hookFaults,
    \* history
    fate,       \* what became of an alert
    tries,      \* how often it was posted, up to MaxAttempts
    got,        \* alerts the target took
    twice,      \* more than once
    muted,      \* still to be delivered when the channel was switched off or deleted
    mayRepeat     \* a restart, a lost answer or a second drain makes them repeat

hookVars == <<channel, items, flight, attempts, due, drain, hookFaults,
              fate, tries, got, twice, muted, mayRepeat>>
hookHistory == <<fate, tries, got, twice, muted, mayRepeat>>
stores == <<items, attempts, due>>

Open == {a \in Alerts : fate[a] = "open"}

\* Where an alert waits: stored, in memory, or queued for a retry.
Places(a) ==
    {<<{x}, "item">> : x \in {a} \cap items}
    \cup {f \in flight : a \in f[1]}
    \cup {<<c, "row">> : c \in {c \in Parcels : attempts[c] > 0 /\ a \in c}}

WebTypeOK ==
    /\ channel \in {"on", "off", "gone"}
    /\ items \in SUBSET Bundled
    /\ flight \in SUBSET (Parcels \X {"claimed", "sending", "failed"})
    /\ attempts \in [Parcels -> 0 .. MaxAttempts - 1]
    /\ due \in SUBSET {c \in Parcels : attempts[c] > 0}
    /\ drain \in [Drains -> [todo : SUBSET (Parcels \X (1 .. MaxAttempts - 1)),
                             at : {"next", "send", "write"},
                             row : (Parcels \X (1 .. MaxAttempts - 1)) \cup {<<>>},
                             outcome : {"none", "ok", "permanent", "transient"}]]
    /\ hookFaults \in 0 .. MaxHookFaults
    /\ fate \in [Alerts -> {"none", "open", "delivered", "refused", "gaveUp", "dropped", "cut"}]
    /\ tries \in [Alerts -> 0 .. MaxAttempts]
    /\ got \in SUBSET Alerts /\ twice \in SUBSET got
    /\ muted \in SUBSET Alerts /\ mayRepeat \in SUBSET Alerts
    /\ channel = "gone" => items = {} /\ due = {}

NoDrain == [todo |-> {}, at |-> "next", row |-> <<>>, outcome |-> "none"]

WebInit ==
    /\ channel = "on"
    /\ items = {}
    /\ flight = {}
    /\ attempts = [c \in Parcels |-> 0]
    /\ due = {}
    /\ drain = [d \in Drains |-> NoDrain]
    /\ hookFaults = 0
    /\ fate = [a \in Alerts |-> "none"]
    /\ tries = [a \in Alerts |-> 0]
    /\ got = {}
    /\ twice = {}
    /\ muted = {}
    /\ mayRepeat = {}

HookFault == hookFaults < MaxHookFaults /\ hookFaults' = hookFaults + 1

\* An end an alert comes to; what has come to one keeps it.
End(alerts, how) ==
    fate' = [a \in Alerts |-> IF a \in alerts /\ fate[a] = "open" THEN how ELSE fate[a]]

(***************************************************************************)
(* An attempt at posting a parcel.                                         *)
(***************************************************************************)

Posted(c) ==
    tries' = [a \in Alerts |-> IF a \in c /\ tries[a] < MaxAttempts THEN tries[a] + 1 ELSE tries[a]]

Taken(c) ==
    /\ got' = got \cup c
    /\ twice' = twice \cup (c \cap got)

\* attemptDelivery. A transport error has no status and is transient, and
\* so are 408 and 429; the other 4xx are permanent.
Attempt(c, outcome) ==
    /\ Posted(c)
    /\ \/ /\ outcome = "ok"
          /\ Taken(c)
          /\ UNCHANGED <<mayRepeat, hookFaults>>
       \/ /\ outcome \in {"permanent", "transient"}
          /\ UNCHANGED <<got, twice, mayRepeat, hookFaults>>
       \/ /\ outcome = "transient"
          /\ HookFault
          /\ Taken(c)
          /\ mayRepeat' = mayRepeat \cup c

(***************************************************************************)
(* dispatchWebhook.                                                        *)
(***************************************************************************)

\* The channel bundles while its bundle_minutes, which an administrator may
\* change at any time, are positive; other alerts are posted at once.
Raise(a) ==
    /\ fate[a] = "none"
    /\ channel = "on"
    /\ fate' = [fate EXCEPT ![a] = "open"]
    /\ \/ /\ a \in Bundled
          /\ items' = items \cup {a}
          /\ UNCHANGED flight
       \/ /\ flight' = flight \cup {<<{a}, "sending">>}
          /\ UNCHANGED items
    /\ UNCHANGED <<channel, attempts, due, drain, hookFaults, tries, got, twice, muted, mayRepeat>>

\* The lookup of the channels, or the insert of collectForBundle, fails.
RaiseFails(a) ==
    /\ fate[a] = "none"
    /\ channel = "on"
    /\ HookFault
    /\ fate' = [fate EXCEPT ![a] = "cut"]
    /\ UNCHANGED <<channel, stores, flight, drain, tries, got, twice, muted, mayRepeat>>

\* The first attempt, of dispatchWebhook or flushBundles. Whether the
\* channel is still on was asked before.
FirstAttempt(c) ==
    /\ <<c, "sending">> \in flight
    /\ \E outcome \in {"ok", "permanent", "transient"} :
         /\ Attempt(c, outcome)
         /\ flight' = (flight \ {<<c, "sending">>})
                      \cup (IF outcome = "transient" THEN {<<c, "failed">>} ELSE {})
         /\ CASE outcome = "ok" -> End(c, "delivered")
              [] outcome = "permanent" -> End(c, "refused")
              [] OTHER -> UNCHANGED fate
    /\ UNCHANGED <<channel, stores, drain, muted>>

\* Not the code: the row keeps the parcel in flight as well.
EnqueueRetryKeeps(c) ==
    /\ <<c, "failed">> \in flight
    /\ channel # "gone"
    /\ attempts' = [attempts EXCEPT ![c] = 1]
    /\ UNCHANGED fate
    /\ UNCHANGED <<channel, items, due, flight, drain, hookFaults, tries, got, twice, muted, mayRepeat>>

\* enqueueRetry: the row refers to the channel, and cannot be inserted once
\* that is deleted.
EnqueueRetry(c) ==
    /\ <<c, "failed">> \in flight
    /\ flight' = flight \ {<<c, "failed">>}
    /\ \/ /\ channel # "gone"
          /\ attempts' = [attempts EXCEPT ![c] = 1]
          /\ UNCHANGED fate
       \/ /\ channel = "gone"
          /\ End(c, "dropped")
          /\ UNCHANGED attempts
    /\ UNCHANGED <<channel, items, due, drain, hookFaults, tries, got, twice, muted, mayRepeat>>

(***************************************************************************)
(* flushBundles.                                                           *)
(***************************************************************************)

\* Not the code: the items are read, and deleted once they are sent.
FlushClaimReads ==
    /\ items # {}
    /\ flight' = flight \cup {<<items, "claimed">>}
    /\ UNCHANGED <<channel, stores, drain, hookFaults, hookHistory>>

\* DELETE ... RETURNING, once the window of the oldest item is up (or that of
\* an older one was, when a slower flush drew up its list).
FlushClaim ==
    /\ items # {}
    /\ flight' = flight \cup {<<items, "claimed">>}
    /\ items' = {}
    /\ UNCHANGED <<channel, attempts, due, drain, hookFaults, hookHistory>>

\* Not the code: a parcel of a channel that is off waits for it.
FlushReadsChannelWaits(c) ==
    /\ <<c, "claimed">> \in flight
    /\ channel = "on"
    /\ flight' = (flight \ {<<c, "claimed">>}) \cup {<<c, "sending">>}
    /\ UNCHANGED <<channel, stores, drain, hookFaults, hookHistory>>

FlushReadsChannel(c) ==
    /\ <<c, "claimed">> \in flight
    /\ \/ /\ channel = "on"
          /\ flight' = (flight \ {<<c, "claimed">>}) \cup {<<c, "sending">>}
          /\ UNCHANGED fate
       \/ /\ channel # "on"
          /\ flight' = flight \ {<<c, "claimed">>}
          /\ End(c, "dropped")
    /\ UNCHANGED <<channel, stores, drain, hookFaults, tries, got, twice, muted, mayRepeat>>

\* A statement between the claim and the retry row fails: the flush, or
\* enqueueRetry, logs it.
FlightFails(f) ==
    /\ f \in flight
    /\ f[2] \in {"claimed", "failed"}
    /\ HookFault
    /\ flight' = flight \ {f}
    /\ End(f[1], "cut")
    /\ UNCHANGED <<channel, stores, drain, tries, got, twice, muted, mayRepeat>>

(***************************************************************************)
(* drainWebhookRetryQueue.                                                 *)
(***************************************************************************)

ComesDue(c) ==
    /\ attempts[c] > 0
    /\ c \notin due
    /\ due' = due \cup {c}
    /\ UNCHANGED <<channel, items, flight, attempts, drain, hookFaults, hookHistory>>

\* The rows a drain has read and not written yet.
Holds(d) == drain[d].todo \cup ({drain[d].row} \ {<<>>})

DrainStart(d) ==
    /\ Holds(d) = {}
    /\ due # {}
    /\ drain' = [drain EXCEPT ![d] = [NoDrain EXCEPT !.todo = {<<c, attempts[c]>> : c \in due}]]
    /\ mayRepeat' = mayRepeat \cup
         {a \in Alerts : \E c \in due, e \in Drains \ {d} : a \in c /\ \E r \in Holds(e) : r[1] = c}
    /\ UNCHANGED <<channel, stores, flight, hookFaults, fate, tries, got, twice, muted>>

DeleteRow(c) ==
    /\ attempts' = [attempts EXCEPT ![c] = 0]
    /\ due' = due \ {c}

\* The next row: its channel is read again.
DrainNext(d, row) ==
    /\ drain[d].row = <<>>
    /\ row \in drain[d].todo
    /\ \/ /\ channel = "on"
          /\ drain' = [drain EXCEPT ![d].todo = @ \ {row}, ![d].row = row, ![d].at = "send"]
          /\ UNCHANGED <<attempts, due, fate>>
       \/ /\ channel # "on"
          /\ drain' = [drain EXCEPT ![d].todo = @ \ {row}]
          /\ DeleteRow(row[1])
          /\ End(IF attempts[row[1]] > 0 THEN row[1] ELSE {}, "dropped")
    /\ UNCHANGED <<channel, items, flight, hookFaults, tries, got, twice, muted, mayRepeat>>

DrainAttempt(d) ==
    /\ drain[d].at = "send"
    /\ \E outcome \in {"ok", "permanent", "transient"} :
         /\ Attempt(drain[d].row[1], outcome)
         /\ drain' = [drain EXCEPT ![d].at = "write", ![d].outcome = outcome]
    /\ UNCHANGED <<channel, stores, flight, fate, muted>>

\* Not the code: the last attempt of the schedule is not made.
GivesUpEarly(row) == row[2] + 1 >= MaxAttempts - 1

GivesUp(row) == row[2] + 1 >= MaxAttempts

\* Not the code: a row that is gone is inserted again.
DrainWriteUpserts(d) ==
    LET row == drain[d].row
        c == row[1]
    IN  /\ drain[d].at = "write"
        /\ drain' = [drain EXCEPT ![d].row = <<>>, ![d].at = "next", ![d].outcome = "none"]
        /\ \/ /\ drain[d].outcome = "ok"
              /\ DeleteRow(c) /\ End(c, "delivered")
           \/ /\ drain[d].outcome # "ok"
              /\ attempts' = [attempts EXCEPT ![c] = 1] /\ due' = due \ {c} /\ UNCHANGED fate
        /\ UNCHANGED <<channel, items, flight, hookFaults, tries, got, twice, muted, mayRepeat>>

\* The row is deleted or updated by its id, which does nothing once another
\* drain, or the deletion of the channel, has removed it.
DrainWrite(d) ==
    LET row == drain[d].row
        c == row[1]
        there == attempts[c] > 0
        ended == drain[d].outcome \in {"ok", "permanent"} \/ GivesUp(row)
    IN  /\ drain[d].at = "write"
        /\ drain' = [drain EXCEPT ![d].row = <<>>, ![d].at = "next", ![d].outcome = "none"]
        /\ \/ /\ there /\ ended
              /\ DeleteRow(c)
              /\ End(c, CASE drain[d].outcome = "ok" -> "delivered"
                          [] drain[d].outcome = "permanent" -> "refused"
                          [] OTHER -> "gaveUp")
           \/ /\ there /\ ~ended
              /\ attempts' = [attempts EXCEPT ![c] = row[2] + 1]
              /\ due' = due \ {c}
              /\ UNCHANGED fate
           \/ /\ ~there
              /\ UNCHANGED <<attempts, due, fate>>
        /\ UNCHANGED <<channel, items, flight, hookFaults, tries, got, twice, muted, mayRepeat>>

\* A statement of the drain fails: the rest of its rows is left to the next.
DrainFails(d) ==
    /\ Holds(d) # {}
    /\ drain[d].at # "send"
    /\ HookFault
    /\ mayRepeat' = mayRepeat \cup (IF drain[d].at = "write" THEN drain[d].row[1] ELSE {})
    /\ drain' = [drain EXCEPT ![d] = NoDrain]
    /\ UNCHANGED <<channel, stores, flight, fate, tries, got, twice, muted>>

(***************************************************************************)
(* The administrator, and the process.                                     *)
(***************************************************************************)

SetEnabled ==
    /\ channel # "gone"
    /\ channel' = IF channel = "on" THEN "off" ELSE "on"
    /\ muted' = IF channel = "on" THEN muted \cup Open ELSE muted
    /\ UNCHANGED <<stores, flight, drain, hookFaults, fate, tries, got, twice, mayRepeat>>

\* The stored items and the retry rows go with the channel.
DeleteChannel ==
    /\ channel # "gone"
    /\ channel' = "gone"
    /\ items' = {}
    /\ attempts' = [c \in Parcels |-> 0]
    /\ due' = {}
    /\ End(items \cup UNION {c \in Parcels : attempts[c] > 0}, "dropped")
    /\ muted' = muted \cup Open
    /\ UNCHANGED <<flight, drain, hookFaults, tries, got, twice, mayRepeat>>

WebRestart ==
    /\ HookFault
    /\ flight' = {}
    /\ drain' = [d \in Drains |-> NoDrain]
    /\ End(UNION {f[1] : f \in flight}, "cut")
    /\ mayRepeat' = mayRepeat \cup UNION {drain[d].row[1] : d \in {d \in Drains : drain[d].at = "write"}}
    /\ UNCHANGED <<channel, stores, tries, got, twice, muted>>

FlightStep(c) == FirstAttempt(c) \/ EnqueueRetry(c) \/ FlushReadsChannel(c)
DrainStep(d) == (\E row \in drain[d].todo : DrainNext(d, row)) \/ DrainAttempt(d) \/ DrainWrite(d)

WebNext ==
    \/ \E a \in Alerts : Raise(a) \/ RaiseFails(a)
    \/ \E c \in Parcels : FlightStep(c) \/ ComesDue(c)
    \/ FlushClaim
    \/ \E f \in flight : FlightFails(f)
    \/ \E d \in Drains : DrainStart(d) \/ DrainStep(d) \/ DrainFails(d)
    \/ SetEnabled
    \/ DeleteChannel
    \/ WebRestart

\* The process goes on with what it has begun, outboundPost ends every attempt
\* by its timeout, and both timers fire.
WebFairness ==
    /\ WF_hookVars(FlushClaim)
    /\ \A c \in Parcels : WF_hookVars(FlightStep(c)) /\ WF_hookVars(ComesDue(c))
    /\ \A d \in Drains : WF_hookVars(DrainStart(d)) /\ WF_hookVars(DrainStep(d))

WebSpec == WebInit /\ [][WebNext]_hookVars /\ WebFairness

(***************************************************************************)
(* Properties.                                                             *)
(***************************************************************************)

\* An alert that was raised and has come to no end waits in exactly one
\* place, and one that has come to an end in none, whoever claims, drains,
\* deletes or restarts meanwhile (bundle.ts:51-54, the migration of
\* webhook_retry_queue).
InOnePlace ==
    \A a \in Alerts : Cardinality(Places(a)) = IF fate[a] = "open" THEN 1 ELSE 0

\* What is said of the end of an alert is true: delivered is what the target
\* took, given up what it was offered MAX_ATTEMPTS times, dropped what was
\* waiting when the channel was switched off, cut what a fault caught.
EndsAreTrue ==
    \A a \in Alerts :
        /\ fate[a] = "delivered" => a \in got
        /\ fate[a] = "gaveUp" => tries[a] >= MaxAttempts
        /\ fate[a] = "dropped" => a \in muted
        /\ fate[a] = "cut" => hookFaults > 0

\* The target gets an alert again only after its answer was lost, after a
\* fault between an attempt and the write of its outcome, or where two drains
\* held its row. Two flushes never send an item twice (bundle.ts:52).
RepeatsAreExcused == twice \subseteq mayRepeat

\* Every alert that was raised comes to an end, however often the target fails.
AlertsSettle == \A a \in Alerts : fate[a] = "open" ~> fate[a] # "open"

\* Every alert is accounted for: it waits in one place or has come to an end
\* that is what is said of it, and the target got it again only for a reason.
AlertsAccounted == WebTypeOK /\ InOnePlace /\ EndsAreTrue /\ RepeatsAreExcused

=============================================================================
