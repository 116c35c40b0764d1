-------------------------------- MODULE Uptime --------------------------------
(***************************************************************************)
(* How the webserver tells from SNMP readings that a device has rebooted   *)
(* (lib/snmpUptime.ts, and its use in ingestHostPayload). A reading is how *)
(* long the device has been up, from its SNMPv3 engine, which counts its   *)
(* boots, or else from sysUpTime, a counter that wraps. The boot time that *)
(* is stored is the time of ingest less the uptime; so the time between    *)
(* the probe and the ingest adds to it, which is seconds, or as long as    *)
(* the scanner had to keep the result in its queue. Results may overtake   *)
(* each other there.                                                       *)
(*                                                                         *)
(* Time is counted in small units; only its order, the tolerance and the   *)
(* wrap matter.                                                            *)
(***************************************************************************)
EXTENDS Integers, FiniteSets

CONSTANTS
    Tolerance,      \* REBOOT_TOLERANCE_SECONDS
    Wrap,           \* SYSUPTIME_WRAP_SECONDS
    MaxTime,
    MaxBoots,       \* boots in one behaviour
    MaxWaiting,     \* results a scanner keeps at once
    MaxDelay        \* how long it keeps them

ASSUME UptimeAssumption ==
    /\ {Tolerance, Wrap, MaxTime, MaxWaiting, MaxDelay} \subseteq Nat
    /\ MaxBoots \in Nat \ {0}
    /\ 2 * Tolerance < Wrap

Time == 0 .. MaxTime
Sources == {"engine", "sysuptime"}

VARIABLES
    now,
    booted,     \* when the device booted, for every boot so far
    waiting,    \* readings on their way; taken and of are when, and of which boot
    stored,     \* hosts.boot_time, uptime_source ("none": null), snmp_engine_boots (0: null); of and late are history
    verdict     \* history: what the last ingest said, and what was the case

uptimeVars == <<now, booted, waiting, stored, verdict>>

Readings == [up : Time, source : Sources, boots : 0 .. MaxBoots, taken : Time, of : 1 .. MaxBoots]

NoUptime == [bootTime |-> 0, source |-> "none", boots |-> 0, of |-> 0, late |-> 0]
NoVerdict == [rebooted |-> FALSE, real |-> FALSE, excuses |-> {}]

Boots == DOMAIN booted

UptimeTypeOK ==
    /\ now \in Time
    /\ Boots \in {1 .. n : n \in 1 .. MaxBoots} /\ booted \in [Boots -> Time]
    /\ waiting \subseteq Readings /\ Cardinality(waiting) <= MaxWaiting
    /\ stored \in [bootTime : Time, source : Sources \cup {"none"}, boots : 0 .. MaxBoots,
                   of : 0 .. MaxBoots, late : Time]
    /\ verdict \in [rebooted : BOOLEAN, real : BOOLEAN,
                    excuses : SUBSET {"late", "edge", "mixed", "overtaken", "coincidence", "soon"}]
    /\ stored.source = "engine" => stored.boots > 0

UptimeInit ==
    /\ now = 0
    /\ booted = [b \in {1} |-> 0]
    /\ waiting = {}
    /\ stored = NoUptime
    /\ verdict = NoVerdict

LastBoot == Cardinality(Boots)

Tick ==
    /\ now < MaxTime
    /\ \A r \in waiting : now < r.taken + MaxDelay
    /\ now' = now + 1
    /\ UNCHANGED <<booted, waiting, stored, verdict>>

DeviceReboots ==
    /\ LastBoot < MaxBoots
    /\ booted[LastBoot] < now
    /\ booted' = [b \in 1 .. LastBoot + 1 |-> IF b \in Boots THEN booted[b] ELSE now]
    /\ UNCHANGED <<now, waiting, stored, verdict>>

\* Whichever of the two scripts was answered; a reading of zero says nothing.
Probe(source) ==
    LET up == now - booted[LastBoot]
        reading == [up |-> IF source = "engine" THEN up ELSE up % Wrap, source |-> source,
                    boots |-> IF source = "engine" THEN LastBoot ELSE 0,
                    taken |-> now, of |-> LastBoot]
    IN  /\ reading.up > 0
        /\ Cardinality(waiting) < MaxWaiting
        /\ waiting' = waiting \cup {reading}
        /\ UNCHANGED <<now, booted, stored, verdict>>

Near(a, b) == a - b <= Tolerance /\ b - a <= Tolerance

\* Not the code: a wrap is only recognised by the counter's first period.
IsWrapOnce(r) ==
    /\ r.source = "sysuptime"
    /\ now - stored.bootTime >= Wrap
    /\ Near(r.up, now - stored.bootTime - Wrap)

\* The counter reads what it would after a wrap.
IsWrap(r) ==
    /\ r.source = "sysuptime"
    /\ now - stored.bootTime >= Wrap
    /\ Near(r.up, (now - stored.bootTime) % Wrap)

MovedLater(r) == (now - r.up) - stored.bootTime > Tolerance

Counted(r) == r.boots > 0 /\ stored.boots > 0

\* Not the code: whatever a counter reads after its first period is a wrap.
RebootedInFirstPeriod(r) ==
    /\ stored.source # "none"
    /\ IF Counted(r) THEN r.boots > stored.boots ELSE MovedLater(r) /\ now - stored.bootTime < Wrap

Rebooted(r) ==
    /\ stored.source # "none"
    /\ IF Counted(r) THEN r.boots > stored.boots ELSE MovedLater(r) /\ ~IsWrap(r)

\* Not the code: the number of boots stays as it was first read.
ReconcileKeepsBoots(r) ==
    [bootTime |-> now - r.up, source |-> r.source, boots |-> stored.boots, of |-> r.of, late |-> now - r.taken]

\* What is stored: at a wrap, what was.
Reconcile(r) ==
    IF stored.source # "none" /\ ~Counted(r) /\ MovedLater(r) /\ IsWrap(r)
    THEN stored
    ELSE [bootTime |-> now - r.up, source |-> r.source,
          boots |-> IF r.boots > 0 THEN r.boots ELSE stored.boots, of |-> r.of, late |-> now - r.taken]

\* What may mislead the comparison of two boot times.
Excuses(r) ==
    {x \in {"late", "edge", "mixed", "overtaken", "coincidence", "soon"} :
        CASE x = "late" -> now - r.taken > Tolerance \/ stored.late > Tolerance
          [] x = "edge" -> r.source = "sysuptime" /\ (r.up <= Tolerance \/ r.up >= Wrap - Tolerance)
          [] x = "mixed" -> stored.boots \notin {0, stored.of}
          [] x = "overtaken" -> r.of < stored.of
          [] x = "coincidence" -> IsWrap(r)
          [] x = "soon" -> stored.of > 0 /\ booted[r.of] - stored.bootTime <= Tolerance}

IngestUptime(r) ==
    /\ r \in waiting
    /\ waiting' = waiting \ {r}
    /\ stored' = Reconcile(r)
    /\ verdict' = [rebooted |-> Rebooted(r), real |-> stored.of > 0 /\ r.of > stored.of,
                   excuses |-> Excuses(r)]
    /\ UNCHANGED <<now, booted>>

UptimeNext ==
    \/ Tick
    \/ DeviceReboots
    \/ \E source \in Sources : Probe(source)
    \/ \E r \in waiting : IngestUptime(r)

UptimeSpec == UptimeInit /\ [][UptimeNext]_uptimeVars

(***************************************************************************)
(* Properties.                                                             *)
(***************************************************************************)

\* A reboot is only reported of a device that has rebooted, however often its
\* counter wraps; unless a result, this or the one on record, was kept for longer
\* than the tolerance, or was overtaken, the counter is about to wrap or just
\* has, or the number of boots on record is of another boot than the time.
RebootsAreReal ==
    verdict.rebooted /\ ~verdict.real => verdict.excuses \cap {"late", "edge", "overtaken", "mixed"} # {}

\* A reboot is reported, unless the boot time on record is as late as it,
\* sysUpTime happens to read what a wrap would leave, or the counter on record is
\* of another boot than the time.
RebootsAreNoticed ==
    verdict.real /\ ~verdict.rebooted => verdict.excuses \cap {"coincidence", "soon", "mixed"} # {}

\* A reboot is reported when there was one and only then, but for the named
\* cases in which two boot times cannot be compared.
RebootsAreTold == UptimeTypeOK /\ RebootsAreReal /\ RebootsAreNoticed

=============================================================================
