---------------------------- MODULE SubmitQueue ----------------------------
(***************************************************************************)
(* How the result of one scanned host reaches the webserver.  The callback *)
(* of the scan submits it; when that fails it is written to a directory of *)
(* the local queue, which the retry watcher of the serve process and every *)
(* other scanner invocation (scan, menu, queue flush) drain, each of them  *)
(* without knowing of the others.                                          *)
(*                                                                         *)
(* One action is one HTTP call or one operation on the file system.  The   *)
(* file item.json is written by os.WriteFile: created or truncated first,  *)
(* filled in afterwards, and gone for good when its directory is removed   *)
(* in between although the write itself succeeds.                          *)
(***************************************************************************)
EXTENDS Naturals, FiniteSets

CONSTANTS
  Results,      \* host results, each one the content of at most one entry
  Invalid,      \* results the webserver rejects (a 4xx)
  Drainers,     \* everything that calls Drain
  Watcher,      \* the drainer that is the serve process's own
  NoResult,
  MaxAttempts,  \* failed retries after which an entry is given up
  MaxOutages,   \* bound on failed submissions of one behaviour
  MaxFaults     \* bound on crashes and file system errors of one behaviour

ASSUME SubmitQueueAssumption ==
  /\ IsFiniteSet(Results)
  /\ Invalid \subseteq Results
  /\ Watcher \in Drainers
  /\ NoResult \notin Results
  /\ MaxAttempts \in Nat \ {0}
  /\ MaxOutages \in Nat /\ MaxFaults \in Nat

VARIABLES
  live,      \* where the scan's callback for a result is
  entry,     \* the entry directory: "bare" has no item.json yet, "torn" half of one
  attempts,  \* queuedItem.Attempts as stored
  expired,   \* entries older than maxAge
  drain,     \* what each drainer is doing
  pending,   \* client.submitQueuePending of the serve process
  audit,     \* "submitted" of the result's line in the audit log
  arrived,   \* history: results the webserver has ingested
  tried,     \* history: failed retries of a result
  fate,      \* history: why a result was abandoned
  torn,      \* history: entries a crash left incomplete
  outages, faults

liveVars == <<live, audit>>
diskVars == <<entry, attempts, expired>>
histVars == <<arrived, tried, fate, torn>>
vars == <<liveVars, diskVars, drain, pending, histVars, outages, faults>>

-----------------------------------------------------------------------------
LiveStates  == {"scanning", "unsent", "copying", "writing", "queued", "done", "dead"}
EntryStates == {"none", "bare", "torn", "whole"}
Fates       == {"rejected", "gaveUp", "dropped", "discarded", "lost"}

\* todo: entries of the snapshot still to be looked at; cur: the one at hand;
\* seen: its attempts as read; left: DrainResult.Pending so far.
IdleDrain       == [pc |-> "idle", todo |-> {}, cur |-> NoResult, seen |-> 0, left |-> 0]
Snapshot(queue) == [pc |-> "loop", todo |-> queue, cur |-> NoResult, seen |-> 0, left |-> 0]

DrainStates ==
  [pc : {"idle", "loop"}, todo : SUBSET Results, cur : {NoResult}, seen : Nat, left : Nat]
    \cup
  [pc : {"submitting", "rewriting"}, todo : SUBSET Results, cur : Results, seen : Nat, left : Nat]

Entries    == {r \in Results : entry[r] # "none"}
Incomplete == {r \in Results : entry[r] \in {"bare", "torn"}}

Enqueueing(r)   == live[r] \in {"copying", "writing"}
Rewriting(d, r) == drain[d].pc = "rewriting" /\ drain[d].cur = r

Fault  == faults < MaxFaults /\ faults' = faults + 1
Outage == outages < MaxOutages /\ outages' = outages + 1

Init ==
  /\ live     = [r \in Results |-> "scanning"]
  /\ entry    = [r \in Results |-> "none"]
  /\ attempts = [r \in Results |-> 0]
  /\ expired  = {}
  /\ drain    = [d \in Drainers |-> IdleDrain]
  /\ pending  = 0
  /\ audit    = [r \in Results |-> "none"]
  /\ arrived  = {}
  /\ tried    = [r \in Results |-> 0]
  /\ fate     = [r \in Results |-> {}]
  /\ torn     = {}
  /\ outages  = 0
  /\ faults   = 0

Abandon(r, why) == fate' = [fate EXCEPT ![r] = @ \cup {why}]

\* os.RemoveAll of the entry directory.
Remove(r) == entry' = [entry EXCEPT ![r] = "none"]

-----------------------------------------------------------------------------
(* The callback of the scan: submit, else Enqueue, then the audit line. *)

Return(r, submitted) ==
  /\ live'  = [live EXCEPT ![r] = "done"]
  /\ audit' = [audit EXCEPT ![r] = submitted]

SubmitLive(r) ==
  /\ live[r] = "scanning"
  /\ \/ /\ r \notin Invalid
        /\ arrived' = arrived \cup {r}
        /\ Return(r, "yes")
        /\ UNCHANGED <<fate, outages>>
     \/ /\ r \in Invalid
        /\ Abandon(r, "rejected")
        /\ Return(r, "no")
        /\ UNCHANGED <<arrived, outages>>
     \/ /\ Outage      \* also when the answer to an ingested result is lost
        /\ arrived' \in {arrived, arrived \cup ({r} \ Invalid)}
        /\ live' = [live EXCEPT ![r] = "unsent"]
        /\ UNCHANGED <<audit, fate>>
  /\ UNCHANGED <<diskVars, drain, pending, tried, torn, faults>>

\* Enqueue makes the entry directory and copies the images into it.
MakeEntry(r) ==
  /\ live[r] = "unsent"
  /\ \/ /\ live'  = [live EXCEPT ![r] = "copying"]
        /\ entry' = [entry EXCEPT ![r] = "bare"]
        /\ UNCHANGED <<audit, fate, faults>>
     \/ Fault /\ Abandon(r, "lost") /\ Return(r, "no") /\ UNCHANGED entry
  /\ UNCHANGED <<attempts, expired, drain, pending, arrived, tried, torn, outages>>

KeepPartial(r) == UNCHANGED entry

\* Enqueue's error paths remove what they had written.
RemovePartial(r) == Remove(r)

\* os.WriteFile creates item.json; without its directory it cannot.
CreateItem(r) ==
  /\ live[r] = "copying"
  /\ \/ /\ entry[r] = "bare"
        /\ entry' = [entry EXCEPT ![r] = "torn"]
        /\ live'  = [live EXCEPT ![r] = "writing"]
        /\ UNCHANGED <<audit, fate, faults>>
     \/ /\ IF entry[r] = "none" THEN UNCHANGED faults ELSE Fault
        /\ Abandon(r, "lost") /\ Return(r, "no") /\ RemovePartial(r)
  /\ UNCHANGED <<attempts, expired, drain, pending, arrived, tried, torn, outages>>

FillItemUntracked(r) ==
  /\ live'  = [live EXCEPT ![r] = "queued"]
  /\ entry' = [entry EXCEPT ![r] = "filled"]

\* The bytes reach the file; if it was unlinked, nothing is left of them.
FillItem(r) ==
  /\ live'  = [live EXCEPT ![r] = "queued"]
  /\ entry' = [entry EXCEPT ![r] = IF @ = "torn" THEN "whole" ELSE @]

WriteItem(r) ==
  /\ live[r] = "writing"
  /\ \/ FillItem(r) /\ UNCHANGED <<audit, fate, faults>>
     \/ Fault /\ Abandon(r, "lost") /\ Return(r, "no") /\ RemovePartial(r)
  /\ UNCHANGED <<attempts, expired, drain, pending, arrived, tried, torn, outages>>

\* SetSubmitQueuePending(CountPending), and the audit line.
PublishPending(r) ==
  /\ live[r] = "queued"
  /\ pending' = Cardinality(Entries)
  /\ Return(r, "no")
  /\ UNCHANGED <<diskVars, drain, histVars, outages, faults>>

-----------------------------------------------------------------------------
(* Drain and drainEntry. *)

\* os.ReadDir: what is added later waits for the next drain.
StartDrain(d) ==
  /\ drain[d].pc = "idle"
  /\ drain' = [drain EXCEPT ![d] = Snapshot(Entries)]
  /\ UNCHANGED <<liveVars, diskVars, pending, histVars, outages, faults>>

\* The loop goes on; counted is what the entry adds to DrainResult.Pending.
NextEntry(d, counted) ==
  drain' = [drain EXCEPT ![d] = [pc |-> "loop", todo |-> @.todo, cur |-> NoResult,
                                 seen |-> @.seen, left |-> @.left + counted]]

\* item.json is there in full: it is read and submitted next.
ReadItem(d, r) ==
  /\ drain[d].pc = "loop"
  /\ r \in drain[d].todo
  /\ entry[r] = "whole"
  /\ drain' = [drain EXCEPT ![d] = [pc |-> "submitting", todo |-> @.todo \ {r}, cur |-> r,
                                    seen |-> attempts[r], left |-> @.left]]
  /\ UNCHANGED <<liveVars, diskVars, pending, histVars, outages, faults>>

\* item.json is missing or does not parse: the entry is "corrupt".
DropEntry(d, r) ==
  /\ drain[d].pc = "loop"
  /\ r \in drain[d].todo
  /\ entry[r] # "whole"
  /\ Remove(r)
  /\ IF r \in Incomplete THEN Abandon(r, "dropped") ELSE UNCHANGED fate
  /\ drain' = [drain EXCEPT ![d].todo = @ \ {r}]
  /\ UNCHANGED <<liveVars, attempts, expired, pending, arrived, tried, torn, outages, faults>>

RemoveOnAnyAnswer(r) == Remove(r) /\ arrived' \in {arrived, arrived \cup {r}}
KeepDelivered(r)     == UNCHANGED entry /\ arrived' = arrived \cup {r}
RemoveDelivered(r)   == Remove(r) /\ arrived' = arrived \cup {r}

\* Accepted, or rejected with a 4xx: the entry is done with.
Resubmit(d) ==
  /\ drain[d].pc = "submitting"
  /\ LET r == drain[d].cur IN
     IF r \in Invalid THEN Remove(r) /\ Abandon(r, "rejected") /\ UNCHANGED arrived
                      ELSE RemoveDelivered(r) /\ UNCHANGED fate
  /\ NextEntry(d, 0)
  /\ UNCHANGED <<liveVars, attempts, expired, pending, tried, torn, outages, faults>>

LastAttemptEarly(d) == drain[d].seen + 2 >= MaxAttempts \/ drain[d].cur \in expired
LastAttempt(d) == drain[d].seen + 1 >= MaxAttempts \/ drain[d].cur \in expired

\* A timeout, a network error or a 5xx: given up, or truncated for the
\* rewrite with one more attempt.
RetryFails(d) ==
  /\ drain[d].pc = "submitting"
  /\ Outage
  /\ LET r == drain[d].cur IN
     /\ arrived' \in {arrived, arrived \cup ({r} \ Invalid)}
     /\ tried' = [tried EXCEPT ![r] = @ + 1]
     /\ \/ /\ LastAttempt(d)
           /\ Remove(r)
           /\ Abandon(r, "gaveUp")
           /\ NextEntry(d, 0)
        \/ /\ ~LastAttempt(d)
           /\ entry' = [entry EXCEPT ![r] = IF @ = "none" THEN @ ELSE "torn"]
           /\ drain' = [drain EXCEPT ![d].pc = "rewriting"]
           /\ UNCHANGED fate
  /\ UNCHANGED <<liveVars, attempts, expired, pending, torn, faults>>

StoreAttempts(d, r) == attempts' = [attempts EXCEPT ![r] = drain[d].seen + 1]

\* A failed rewrite leaves the truncated file behind.
RewriteItem(d) ==
  /\ drain[d].pc = "rewriting"
  /\ LET r == drain[d].cur IN
     \/ /\ entry' = [entry EXCEPT ![r] = IF @ = "none" THEN @ ELSE "whole"]
        /\ StoreAttempts(d, r)
        /\ UNCHANGED <<torn, faults>>
     \/ /\ Fault
        /\ torn' = torn \cup {r}
        /\ UNCHANGED <<entry, attempts>>
  /\ NextEntry(d, 1)
  /\ UNCHANGED <<liveVars, expired, pending, arrived, tried, fate, outages>>

\* StartRetryWatcher hands DrainResult.Pending to the header.
EndDrain(d) ==
  /\ drain[d].pc = "loop"
  /\ drain[d].todo = {}
  /\ pending' = IF d = Watcher THEN drain[d].left ELSE pending
  /\ drain' = [drain EXCEPT ![d] = IdleDrain]
  /\ UNCHANGED <<liveVars, diskVars, histVars, outages, faults>>

\* queue discard removes whatever is there, entry by entry.
Discard(r) ==
  /\ entry[r] # "none"
  /\ Remove(r)
  /\ Abandon(r, "discarded")
  /\ UNCHANGED <<liveVars, attempts, expired, drain, pending, arrived, tried, torn, outages, faults>>

\* Seven days pass.
Expire(r) ==
  /\ entry[r] # "none"
  /\ r \notin expired
  /\ expired' = expired \cup {r}
  /\ UNCHANGED <<liveVars, entry, attempts, drain, pending, histVars, outages, faults>>

\* The process of a drainer dies.  With the serve process go the callbacks
\* of its scans; what they had written stays.
Crash(d) ==
  /\ Fault
  /\ torn' = torn \cup {r \in Results : \/ Rewriting(d, r)
                                        \/ d = Watcher /\ Enqueueing(r)}
  /\ drain' = [drain EXCEPT ![d] = IdleDrain]
  /\ IF d = Watcher
       THEN /\ live' = [r \in Results |-> IF live[r] = "done" THEN "done" ELSE "dead"]
            /\ pending' = 0
       ELSE UNCHANGED <<live, pending>>
  /\ UNCHANGED <<audit, diskVars, arrived, tried, fate, outages>>

-----------------------------------------------------------------------------
Callback(r) == SubmitLive(r) \/ MakeEntry(r) \/ CreateItem(r) \/ WriteItem(r) \/ PublishPending(r)

DrainStep(d) ==
  \/ StartDrain(d)
  \/ \E r \in Results : ReadItem(d, r) \/ DropEntry(d, r)
  \/ Resubmit(d) \/ RetryFails(d) \/ RewriteItem(d)
  \/ EndDrain(d)

Next ==
  \/ \E r \in Results : Callback(r) \/ Discard(r) \/ Expire(r)
  \/ \E d \in Drainers : DrainStep(d) \/ Crash(d)

Spec == Init /\ [][Next]_vars

\* The watcher ticks for as long as serve runs, and callbacks return.  An
\* operator who starts another drain owes nothing, not even its end.
FairSpec == Spec /\ WF_vars(DrainStep(Watcher)) /\ \A r \in Results : WF_vars(Callback(r))

-----------------------------------------------------------------------------
\* Every variable keeps its type.
TypeOK ==
  /\ live \in [Results -> LiveStates]
  /\ entry \in [Results -> EntryStates]
  /\ attempts \in [Results -> Nat]
  /\ expired \subseteq Results
  /\ drain \in [Drainers -> DrainStates]
  /\ pending \in Nat
  /\ audit \in [Results -> {"none", "yes", "no"}]
  /\ arrived \subseteq Results
  /\ tried \in [Results -> Nat]
  /\ fate \in [Results -> SUBSET Fates]
  /\ torn \subseteq Results
  /\ outages \in Nat /\ faults \in Nat

Accounted(r) == r \in arrived \/ fate[r] # {}

\* No result disappears without a trace, however many drains, discards and
\* callbacks work on its entry at once: once its callback has returned, it
\* is on disk, or the webserver has it, or some count or log line says why
\* it was abandoned.
NothingVanishes ==
  \A r \in Results : live[r] \in {"queued", "done"} /\ entry[r] = "none" => Accounted(r)

\* An entry that looks corrupt is one a writer is still at work on, or one
\* a crash cut short: no interleaving of Enqueue and Drain leaves a torn
\* item.json behind.
TornHasAWriter ==
  \A r \in Incomplete \ torn :
    Enqueueing(r) \/ \E d \in Drainers : Rewriting(d, r)

\* No entry is given up early.  Drains that overlap overwrite each other's
\* attempt count, but only downwards.
GaveUpHonestly ==
  \A r \in Results :
    "gaveUp" \in fate[r] => tried[r] >= MaxAttempts \/ r \in expired

\* Every result whose live submission failed is eventually done with, even
\* beside an operator's drain that stops halfway: the queue cannot keep it
\* for ever.
EveryResultSettles ==
  \A r \in Results :
    live[r] = "unsent" ~> live[r] = "dead" \/ (entry[r] = "none" /\ Accounted(r))

\* submitqueue.go: "Enqueue durably persists host [...] Returns an error only
\* when persisting itself failed".  Once Enqueue has returned without one,
\* no drain finds the entry unreadable.
EnqueuedIsDurable ==
  \A r \in Results : live[r] = "queued" => "dropped" \notin fate[r]

\* The queue on disk stays sound: a torn entry has a writer at work on it, and
\* an entry is given up only after all its attempts.
QueueIsSound == TypeOK /\ TornHasAWriter /\ GaveUpHonestly
=============================================================================
