------------------------------ MODULE HostIngest ------------------------------
(***************************************************************************)
(* What the webserver makes of the results for one address of one scanner  *)
(* (ingestHostPayload in ingest/routes.ts): the host's row, its port       *)
(* observations, and the alerts that tell what has changed. A result is    *)
(* one transaction (READ COMMITTED). It reads which ports are open before  *)
(* its upsert locks the host, and its observations carry the time at which *)
(* it started; current_host_ports shows the latest of each port. A scanner *)
(* that got no answer sends its result again, and several scans may reach  *)
(* an address, so results overlap. Meanwhile the retention sweep, or a     *)
(* user, deletes the host, and the process restarts.                       *)
(*                                                                         *)
(* Left out: everything a result says but its open ports and one finding;  *)
(* other hosts of the same payload, and tags, which are inserted ON        *)
(* CONFLICT DO NOTHING under the lock.                                     *)
(***************************************************************************)
EXTENDS Naturals, FiniteSets

CONSTANTS
    MaxResults,     \* results for this address in one behaviour
    TcpPorts,
    UdpPorts,
    MaxHostFaults   \* restarts and failing statements in one behaviour

ASSUME HostAssumption == MaxResults \in Nat /\ MaxHostFaults \in Nat

\* In the order in which they start, which is what observed_at tells.
Results == 1 .. MaxResults
None == 0

Ports == (TcpPorts \X {"tcp"}) \cup (UdpPorts \X {"udp"})

\* Port numbers: what port.opened and the exclude lists go by.
Numbers(S) == {p[1] : p \in S}

VARIABLES
    host,       \* the row of hosts: 0, or its id
    aged,       \* its last_seen_at is past the retention window
    view,       \* current_host_ports: when a port was last observed, and if open
    found,      \* the nuclei finding is on record for this host
    lock,       \* the transaction that holds the row
    res,        \* the results
    sweep,      \* the id the retention sweep is about to delete, or 0
    hostFaults,
    \* history
    said,       \* what the latest started result that covered a port said of it
    raced,      \* ports whose opening had started, and not committed, when a later result looked
    told,       \* ports that are open by what the alerts say
    masked,     \* ports whose opening raised no alert, for their number was open
    muddled,    \* results overlapped, or their alerts were lost, in this host's life
    unfounded,  \* ports said to have closed by a scan that did not look at them
    excluded,   \* ports a scan covered and was told to leave alone
    findings,   \* alerts for the finding in this host's life, up to 2
    empty,      \* this host was created by a result without ports
    swept       \* the host was deleted under such a result

hostVars == <<host, aged, view, found, lock, res, sweep, hostFaults,
              said, raced, told, masked, muddled, unfounded, excluded, findings, empty, swept>>
record == <<host, aged, view, found>>
hostHistory == <<said, raced, told, masked, muddled, unfounded, excluded, findings, empty, swept>>

Stamp == {0} \cup Results
Unseen == [p \in Ports |-> [at |-> 0, open |-> FALSE]]
Blank == [pc |-> "none", covers |-> {}, skips |-> {}, open |-> {}, finds |-> FALSE,
          read |-> {}, new |-> FALSE]

HostTypeOK ==
    /\ host \in Stamp
    /\ aged \in BOOLEAN /\ found \in BOOLEAN
    /\ view \in [Ports -> [at : Stamp, open : BOOLEAN]]
    /\ said \in [Ports -> [at : Stamp, open : BOOLEAN]]
    /\ lock \in Stamp
    /\ res \in [Results -> [pc : {"none", "known", "read", "upsert", "commit", "tell", "done"},
                            covers : SUBSET Ports, skips : SUBSET Ports,
                            open : SUBSET Ports, finds : BOOLEAN, read : SUBSET Ports, new : BOOLEAN]]
    /\ \A t \in Results : lock = t <=> res[t].pc = "commit"
    /\ sweep \in Stamp
    /\ hostFaults \in 0 .. MaxHostFaults
    /\ {raced, told, masked, unfounded, excluded} \subseteq SUBSET Ports
    /\ {muddled, empty, swept} \subseteq BOOLEAN
    /\ findings \in 0 .. 2
    /\ host = 0 => view = Unseen /\ ~found

HostInit ==
    /\ host = 0
    /\ aged = FALSE
    /\ view = Unseen
    /\ found = FALSE
    /\ lock = None
    /\ res = [t \in Results |-> Blank]
    /\ sweep = 0
    /\ hostFaults = 0
    /\ said = Unseen
    /\ raced = {} /\ told = {} /\ masked = {} /\ unfounded = {} /\ excluded = {}
    /\ muddled = FALSE /\ empty = FALSE /\ swept = FALSE
    /\ findings = 0

OpenPorts == {p \in Ports : view[p].open}

Under(t) == res[t].pc \in {"known", "read", "upsert", "commit"}

(***************************************************************************)
(* A result.                                                               *)
(***************************************************************************)

\* The scan was asked for the ports it covers, fewer those on the exclude
\* lists, and found some of them open. Without a port spec that can be
\* parsed (covers = {}) nothing is inferred from what is missing.
Begin(t, covers, excludes, open, finds) ==
    /\ res[t].pc = "none" /\ \A u \in Results : u < t => res[u].pc # "none"
    /\ \/ covers = {} /\ excludes = {}
       \/ open \subseteq covers
    /\ Numbers(open) \cap excludes = {}
    /\ finds => open # {}
    /\ res' = [res EXCEPT ![t] = [Blank EXCEPT
                 !.pc = IF open = {} THEN "known" ELSE "read", !.covers = covers,
                 !.skips = {p \in covers : p[1] \in excludes}, !.open = open, !.finds = finds]]
    /\ excluded' = excluded \cup res'[t].skips
    /\ muddled' = (muddled \/ \E u \in Results : Under(u) \/ res[u].pc = "tell")
    /\ UNCHANGED <<record, lock, sweep, hostFaults, said, raced, told, masked, unfounded, findings, empty, swept>>

\* Not the code: a result without ports is recorded like any other.
ReadKnownNot(t) ==
    /\ res[t].pc = "known"
    /\ res' = [res EXCEPT ![t].pc = "read"]
    /\ UNCHANGED <<record, lock, sweep, hostFaults, hostHistory>>

\* A result without ports makes no host: "only creation is skipped".
ReadKnown(t) ==
    /\ res[t].pc = "known"
    /\ res' = [res EXCEPT ![t].pc = IF host = 0 THEN "done" ELSE "read"]
    /\ UNCHANGED <<record, lock, sweep, hostFaults, hostHistory>>

ReadOpen(t) ==
    /\ res[t].pc = "read"
    /\ res' = [res EXCEPT ![t].pc = "upsert", ![t].read = OpenPorts]
    /\ raced' = raced \cup UNION {res[u].open : u \in {u \in Results : Under(u) /\ u < t}}
    /\ UNCHANGED <<record, lock, sweep, hostFaults, said, told, masked, muddled, unfounded,
                   excluded, findings, empty, swept>>

\* Not the code: the row is not locked.
UpsertUnlocked(t) ==
    /\ res[t].pc = "upsert"
    /\ lock' = t
    /\ res' = [res EXCEPT ![t].pc = "commit", ![t].new = (host = 0)]
    /\ UNCHANGED <<record, sweep, hostFaults, hostHistory>>

\* INSERT ... ON CONFLICT DO UPDATE; xmax = 0 tells an insert.
Upsert(t) ==
    /\ res[t].pc = "upsert"
    /\ lock = None
    /\ lock' = t
    /\ res' = [res EXCEPT ![t].pc = "commit", ![t].new = (host = 0)]
    /\ UNCHANGED <<record, sweep, hostFaults, hostHistory>>

\* Not the code: a port that is missing is left as it was.
ClosedNever(t) == {}

\* What this result says has closed: it was open, is not reported, and the
\* port spec of the scan covers it.
Closed(t) == IF res[t].new THEN {} ELSE (res[t].read \cap res[t].covers) \ res[t].open

\* Not the code: what is open is read once the result has committed.
OpenedNow(t) == IF res[t].new THEN {} ELSE {p \in res[t].open : p[1] \notin Numbers(OpenPorts)}

\* By the port's number, in whichever protocol that is open.
Opened(t) == IF res[t].new THEN {} ELSE {p \in res[t].open : p[1] \notin Numbers(res[t].read)}

\* DISTINCT ON (port, protocol) ... ORDER BY observed_at DESC
Observe(table, ports, at, open) ==
    [p \in Ports |-> IF p \in ports /\ table[p].at < at THEN [at |-> at, open |-> p \in open] ELSE table[p]]

\* Not the code: what was found before is not looked up.
NewFindingAgain(t) == res[t].finds

\* Looked up under the lock.
NewFinding(t) == res[t].finds /\ ~found

Commit(t) ==
    LET r == res[t]
    IN  /\ r.pc = "commit"
        /\ host' = IF r.new THEN t ELSE host
        /\ aged' = FALSE
        /\ view' = Observe(view, r.open \cup Closed(t), t, r.open)
        /\ said' = Observe(said, r.open \cup r.covers, t, r.open)
        /\ found' = (found \/ r.finds)
        /\ findings' = IF NewFinding(t) /\ findings < 2 THEN findings + 1 ELSE findings
        /\ empty' = IF r.new THEN r.open = {} ELSE empty
        /\ lock' = None
        /\ res' = [res EXCEPT ![t].pc = "tell"]
    /\ UNCHANGED <<sweep, hostFaults, raced, told, masked, muddled, unfounded, excluded, swept>>

\* The alerts go out once it has committed, host.new for a new host with all
\* its ports.
Tell(t) ==
    LET r == res[t]
        silent == {p \in r.open \ r.read : ~r.new /\ p[1] \in Numbers(r.read)}
    IN  /\ r.pc = "tell"
        /\ told' = IF r.new THEN r.open ELSE (told \cup Opened(t)) \ Closed(t)
        /\ masked' = IF r.new THEN {} ELSE (masked \cup silent) \ Closed(t)
        /\ unfounded' = unfounded \cup (Closed(t) \ (r.covers \ r.skips))
        /\ res' = [res EXCEPT ![t].pc = "done"]
    /\ UNCHANGED <<record, lock, sweep, hostFaults, said, raced, muddled, excluded, findings, empty, swept>>

\* A statement fails, or the connection is gone: nothing of it stays.
Rollback(t) ==
    /\ Under(t)
    /\ hostFaults < MaxHostFaults
    /\ hostFaults' = hostFaults + 1
    /\ res' = [res EXCEPT ![t].pc = "done"]
    /\ lock' = IF lock = t THEN None ELSE lock
    /\ UNCHANGED <<record, sweep, hostHistory>>

(***************************************************************************)
(* Deletion.                                                               *)
(***************************************************************************)

Ages ==
    /\ host # 0
    /\ lock = None
    /\ ~aged
    /\ aged' = TRUE
    /\ UNCHANGED <<host, view, found, lock, res, sweep, hostFaults, hostHistory>>

\* Its observations go with it. Two deletes, and a result, wait for each other.
Delete ==
    /\ host # 0
    /\ lock = None
    /\ host' = 0
    /\ aged' = FALSE
    /\ view' = Unseen
    /\ found' = FALSE
    /\ said' = Unseen
    /\ told' = {} /\ masked' = {} /\ findings' = 0 /\ empty' = FALSE
    /\ raced' = IF \E t \in Results : Under(t) THEN raced ELSE {}
    /\ muddled' = \E t \in Results : Under(t) \/ res[t].pc = "tell"
    /\ swept' = (swept \/ \E t \in Results : res[t].open = {} /\ res[t].pc \in {"read", "upsert"})
    /\ UNCHANGED <<lock, res, hostFaults, unfounded, excluded>>

SweepReads ==
    /\ sweep = 0
    /\ host # 0 /\ aged
    /\ sweep' = host
    /\ UNCHANGED <<record, lock, res, hostFaults, hostHistory>>

\* By the id alone: last_seen_at is not looked at again.
SweepDeletes ==
    /\ sweep # 0
    /\ sweep' = 0
    /\ \/ host = sweep /\ Delete
       \/ host # sweep /\ UNCHANGED <<record, lock, res, hostFaults, hostHistory>>

UserDeletes == Delete /\ UNCHANGED sweep

HostRestart ==
    /\ hostFaults < MaxHostFaults
    /\ hostFaults' = hostFaults + 1
    /\ muddled' = (muddled \/ \E t \in Results : res[t].pc = "tell")
    /\ res' = [t \in Results |-> IF res[t].pc = "none" THEN Blank ELSE [res[t] EXCEPT !.pc = "done"]]
    /\ lock' = None
    /\ sweep' = 0
    /\ UNCHANGED <<record, said, raced, told, masked, unfounded, excluded, findings, empty, swept>>

ResultStep(t) == ReadKnown(t) \/ ReadOpen(t) \/ Upsert(t) \/ Commit(t) \/ Tell(t)

\* The results that may begin, and what may be on the exclude lists.
ResultBegins(some, lists) ==
    \E t \in {t \in some : res[t].pc = "none"} :
        \E covers \in SUBSET Ports, excludes \in lists, open \in SUBSET Ports, finds \in BOOLEAN :
            Begin(t, covers, excludes, open, finds)

HostSteps ==
    \/ \E t \in Results : ResultStep(t) \/ Rollback(t)
    \/ Ages
    \/ SweepReads
    \/ SweepDeletes
    \/ UserDeletes
    \/ HostRestart

HostNext == ResultBegins(Results, SUBSET Numbers(Ports)) \/ HostSteps

HostSpec == HostInit /\ [][HostNext]_hostVars

(***************************************************************************)
(* Properties.                                                             *)
(***************************************************************************)

\* A port is shown as the latest started result that covered it said,
\* whatever the order in which results commit; except where that result
\* looked before the one that opened the port had committed.
ViewIsLatest ==
    host # 0 => \A p \in Ports \ raced : view[p].open = said[p].open

\* While results do not overlap and no alerts are lost, the alerts tell what is
\* open: a port that is shown open was told, but for one whose number was open
\* in the other protocol, and a port that was told open is shown open.
AlertsTellTheView ==
    host # 0 /\ ~muddled /\ (\A t \in Results : ~Under(t) /\ res[t].pc # "tell") =>
        /\ OpenPorts \subseteq told \cup masked
        /\ told \subseteq OpenPorts

\* A port is said to have closed only by a scan whose port spec covers it;
\* one that did not look at it was told to leave it alone.
ClosedWasCovered == unfounded \subseteq excluded

\* A finding alerts once in the life of a host, even where results overlap.
FindingAlertsOnce == findings < 2

\* A result without ports never creates a host (ingest/routes.ts:836-853),
\* unless the host was deleted between its look and its upsert.
EmptyMakesNoHost == empty => swept

\* The record of a host is what the latest results said, and there is none for
\* an address that never answered.
RecordIsLatest == HostTypeOK /\ ViewIsLatest /\ EmptyMakesNoHost

\* What the alerts say of a host is so: they tell what is shown, a port closed
\* only by a scan that covered it, and a finding once.
AlertsAreTrue == AlertsTellTheView /\ ClosedWasCovered /\ FindingAlertsOnce

=============================================================================
