----------------------------- MODULE AlertChecks -----------------------------
(***************************************************************************)
(* The periodic checks that raise an alert once: each reads a condition    *)
(* and a flag, raises the alert when the condition holds and the flag does *)
(* not, then sets the flag, and (most of them) clears it when the          *)
(* condition is over. They differ in the order of their reads, in what     *)
(* they clear the flag by, and in what the flag says; a record describes   *)
(* each of them. A timer starts a check without waiting for the last one,  *)
(* and between its statements the condition, or another check, may change  *)
(* what it has read.                                                       *)
(*                                                                         *)
(* One subject (a scanner, a host, a key, ...) of one check at a time:     *)
(* subjects do not share flags. Its condition is a level: 0, 1 for what    *)
(* lies between (a disk between its two lines, too few samples, a CVE that *)
(* affects nothing, a key on two addresses), 2.                            *)
(***************************************************************************)
EXTENDS Naturals, FiniteSets

CONSTANTS
    Rounds,         \* checks that may be under way at once
    MaxEpisodes,    \* how often the condition begins in one behaviour
    MaxCheckFaults  \* restarts and failing statements

ASSUME CheckAssumption == MaxEpisodes \in Nat /\ MaxCheckFaults \in Nat

Level == 0 .. 2

(***************************************************************************)
(* The checks. By default the flag is read with the condition, set after   *)
(* the alert, and never cleared.                                           *)
(***************************************************************************)

Once == [reads |-> "both",      \* the order of its reads: "both", "flag", "level" first
         clears |-> "never",    \* or by what it has "read", or by what it reads "again"
         low |-> 1,             \* at this level and below the condition is over
         grows |-> FALSE,       \* the flag holds the level, a higher one alerts again
         marks |-> FALSE,       \* what does not affect the fleet is flagged too
         keyed |-> FALSE,       \* the flag names an episode
         claims |-> FALSE]      \* the flag is set first, if it is not set

ComesAndGoes == [Once EXCEPT !.clears = "read"]

StaleScans == Once
ScannedCertificates == Once
TrustedCaCertificates == Once
WebserverCertificate == [Once EXCEPT !.reads = "level", !.keyed = TRUE]
QueueBacklog == ComesAndGoes
OfflineScanners == [Once EXCEPT !.clears = "again"]
DisappearedHosts == [Once EXCEPT !.clears = "again"]
NetworkCoverage == ComesAndGoes
SharedSSHKeys == [ComesAndGoes EXCEPT !.reads = "level", !.low = 0, !.grows = TRUE]
BaselineDeviations == [ComesAndGoes EXCEPT !.reads = "flag"]
PortPolicies == [ComesAndGoes EXCEPT !.reads = "flag"]
SavedSearches == [ComesAndGoes EXCEPT !.reads = "level"]
ResourcePressure == [ComesAndGoes EXCEPT !.low = 0]
DiskLow == [ComesAndGoes EXCEPT !.low = 0]
WebserverDisk == [ComesAndGoes EXCEPT !.reads = "level", !.low = 0]
DailyDigest == [Once EXCEPT !.reads = "level", !.keyed = TRUE]
WeeklyReport == [Once EXCEPT !.reads = "level", !.keyed = TRUE]
ScheduledBackup == [Once EXCEPT !.keyed = TRUE, !.claims = TRUE]
HighEpss == [Once EXCEPT !.reads = "flag", !.low = 0, !.marks = TRUE]
Kev == [Once EXCEPT !.reads = "flag", !.low = 0, !.marks = TRUE]

Checks == {StaleScans, ScannedCertificates, TrustedCaCertificates, WebserverCertificate,
           QueueBacklog, OfflineScanners, DisappearedHosts, NetworkCoverage, SharedSSHKeys,
           BaselineDeviations, PortPolicies, SavedSearches, ResourcePressure, DiskLow,
           WebserverDisk, DailyDigest, WeeklyReport, ScheduledBackup, HighEpss, Kev}

VARIABLES
    check,      \* which of them
    level,      \* of the condition
    episode,    \* how often it has begun
    flag,       \* 0: not set; else the level it was set at, or 2
    round,      \* checks under way
    checkFaults,
    \* history
    alerted,    \* levels alerted in this episode
    ever,       \* an alert was ever sent
    repeated,   \* the same level was alerted twice in an episode
    excused,    \* checks overlapped, or one was cut off before it set its flag
    cut,        \* one was cut off after it had claimed
    clean       \* this episode began with no flag set and no check under way

alertVars == <<check, level, episode, flag, round, checkFaults,
               alerted, ever, repeated, excused, cut, clean>>

Quiet == [pc |-> "idle", level |-> 0, flag |-> 0, episode |-> 0]

AlertTypeOK ==
    /\ check \in Checks
    /\ level \in Level
    /\ episode \in 0 .. MaxEpisodes
    /\ flag \in Level
    /\ round \in [Rounds -> [pc : {"idle", "level", "flag", "decide", "claim", "alert", "set", "clear"},
                             level : Level, flag : Level, episode : 0 .. MaxEpisodes]]
    /\ checkFaults \in 0 .. MaxCheckFaults
    /\ alerted \in SUBSET {1, 2}
    /\ {ever, repeated, excused, cut, clean} \subseteq BOOLEAN
    /\ alerted # {} => ever
    /\ flag = 1 => check.grows

AlertInit ==
    /\ check \in Checks
    /\ level = 0
    /\ episode = 0
    /\ flag = 0
    /\ round = [r \in Rounds |-> Quiet]
    /\ checkFaults = 0
    /\ alerted = {}
    /\ ever = FALSE
    /\ repeated = FALSE
    /\ excused = FALSE
    /\ cut = FALSE
    /\ clean = FALSE

Idle == \A r \in Rounds : round[r].pc = "idle"

(***************************************************************************)
(* The condition.                                                          *)
(***************************************************************************)

Begins(l) == level <= check.low /\ l > check.low

\* A flag that names an episode (a date, a fingerprint) says nothing of the
\* next one.
Changes(l) ==
    /\ l # level
    /\ level' = l
    /\ IF Begins(l)
       THEN /\ episode < MaxEpisodes
            /\ episode' = episode + 1
            /\ flag' = IF check.keyed THEN 0 ELSE flag
            /\ alerted' = {}
            /\ clean' = (flag' = 0 /\ Idle)
       ELSE UNCHANGED <<episode, flag, alerted, clean>>
    /\ UNCHANGED <<check, round, checkFaults, ever, repeated, excused, cut>>

\* kevSync deletes the rows that left the catalogue, and their flags.
Delisted ==
    /\ check = Kev
    /\ level' = 0
    /\ flag' = 0
    /\ UNCHANGED <<check, episode, round, checkFaults, alerted, ever, repeated, excused, cut, clean>>

(***************************************************************************)
(* A check.                                                                *)
(***************************************************************************)

StartCheck(r) ==
    /\ round[r].pc = "idle"
    /\ excused' = (excused \/ ~Idle)
    /\ round' = [round EXCEPT ![r] =
         CASE check.reads = "both" -> [pc |-> "decide", level |-> level, flag |-> flag, episode |-> episode]
           [] check.reads = "level" -> [Quiet EXCEPT !.pc = "flag", !.level = level, !.episode = episode]
           [] check.reads = "flag" -> [Quiet EXCEPT !.pc = "level", !.flag = flag]]
    /\ UNCHANGED <<check, level, episode, flag, checkFaults, alerted, ever, repeated, cut, clean>>

ReadSecond(r) ==
    /\ \/ /\ round[r].pc = "flag"
          /\ round' = [round EXCEPT ![r].pc = "decide", ![r].flag = flag]
       \/ /\ round[r].pc = "level"
          /\ round' = [round EXCEPT ![r].pc = "decide", ![r].level = level, ![r].episode = episode]
    /\ UNCHANGED <<check, level, episode, flag, checkFaults, alerted, ever, repeated, excused, cut, clean>>

\* Not the code: the flag is not looked at.
FiresUnflagged(s) == s.level = 2

Fires(s) == IF check.grows THEN s.level > s.flag ELSE s.level = 2 /\ s.flag = 0

\* Not the code: every check marks what is not to be alerted on yet.
MarksAll(s) == s.level = 1 /\ s.flag = 0

Marks(s) == check.marks /\ s.level = 1 /\ s.flag = 0

Decide(r) ==
    /\ round[r].pc = "decide"
    /\ round' = [round EXCEPT ![r].pc =
         CASE Fires(round[r]) -> IF check.claims THEN "claim" ELSE "alert"
           [] Marks(round[r]) -> "set"
           [] OTHER -> "clear"]
    /\ UNCHANGED <<check, level, episode, flag, checkFaults, alerted, ever, repeated, excused, cut, clean>>

\* UPDATE ... WHERE the date is not this one.
Claim(r) ==
    /\ round[r].pc = "claim"
    /\ LET free == round[r].episode # episode \/ flag = 0
       IN  /\ round' = [round EXCEPT ![r].pc = IF free THEN "alert" ELSE "idle"]
           /\ flag' = IF free /\ round[r].episode = episode THEN 2 ELSE flag
    /\ UNCHANGED <<check, level, episode, checkFaults, alerted, ever, repeated, excused, cut, clean>>

\* dispatchWebhook (the deliveries are not waited for), or the backup itself.
RaiseAlert(r) ==
    /\ round[r].pc = "alert"
    /\ ever' = TRUE
    /\ IF round[r].episode = episode
       THEN /\ alerted' = alerted \cup {round[r].level}
            /\ repeated' = (repeated \/ \E l \in alerted : l >= round[r].level)
       ELSE UNCHANGED <<alerted, repeated>>
    /\ round' = [round EXCEPT ![r].pc = IF check.claims THEN "clear" ELSE "set"]
    /\ UNCHANGED <<check, level, episode, flag, checkFaults, excused, cut, clean>>

SetFlag(r) ==
    /\ round[r].pc = "set"
    /\ flag' = IF check.keyed /\ round[r].episode # episode THEN 0
               ELSE IF check.grows THEN round[r].level ELSE 2
    /\ round' = [round EXCEPT ![r].pc = "clear"]
    /\ UNCHANGED <<check, level, episode, checkFaults, alerted, ever, repeated, excused, cut, clean>>

\* Not the code: the flag is cleared by what was read, whatever it was.
OverAlways(s) == s.flag # 0

\* Whether the flag is to be cleared, by what the check has read or reads now.
Over(s) ==
    \/ check.clears = "read" /\ s.flag # 0 /\ s.level <= check.low
    \/ check.clears = "again" /\ level <= check.low

Clear(r) ==
    /\ round[r].pc = "clear"
    /\ flag' = IF Over(round[r]) THEN 0 ELSE flag
    /\ round' = [round EXCEPT ![r] = Quiet]
    /\ UNCHANGED <<check, level, episode, checkFaults, alerted, ever, repeated, excused, cut, clean>>

\* A statement of the check fails, or the webserver is restarted: what comes
\* after it is left out. The statement that sets the flag is one of them.
CheckCut(r) ==
    /\ round[r].pc # "idle"
    /\ checkFaults < MaxCheckFaults
    /\ checkFaults' = checkFaults + 1
    /\ excused' = (excused \/ round[r].pc = "set")
    /\ cut' = (cut \/ (check.claims /\ round[r].pc = "alert"))
    /\ round' = [round EXCEPT ![r] = Quiet]
    /\ UNCHANGED <<check, level, episode, flag, alerted, ever, repeated, clean>>

CheckStep(r) == ReadSecond(r) \/ Decide(r) \/ Claim(r) \/ RaiseAlert(r) \/ SetFlag(r) \/ Clear(r)

AlertNext ==
    \/ \E l \in Level : Changes(l)
    \/ Delisted
    \/ \E r \in Rounds : StartCheck(r) \/ CheckStep(r) \/ CheckCut(r)

\* The timers fire, and a check goes on with what it has begun.
AlertFairness ==
    /\ WF_alertVars(\E r \in Rounds : StartCheck(r))
    /\ \A r \in Rounds : WF_alertVars(CheckStep(r))

AlertSpec == AlertInit /\ [][AlertNext]_alertVars /\ AlertFairness

(***************************************************************************)
(* Properties.                                                             *)
(***************************************************************************)

\* One alert per episode (or per level, where it grows), unless checks
\* overlapped or one was cut off between its alert and its flag; the
\* scheduled backup, which claims its day first, runs once without exception
\* (operationalAlerts.ts:94-102, 185-187; backup/schedule.ts:235-238).
OncePerEpisode == repeated => excused /\ ~check.claims

\* No episode is silenced by the flag of an earlier one, or by a flag no alert
\* was sent for: while the condition holds and the flag is set, the alert was
\* sent, or is being sent, in this episode. Excepted are an episode that began
\* while the flag was still set or a check was under way, those that alert once
\* for ever and have done so, what is marked unaffected, and a claim that was
\* cut off.
NotSilenced ==
    level = 2 /\ flag # 0 /\ clean /\ ~check.marks /\ ~cut =>
        \/ alerted # {}
        \/ check.clears = "never" /\ ~check.keyed /\ ever
        \/ \E r \in Rounds : round[r].pc = "alert" /\ round[r].episode = episode

\* A condition that lasts is alerted.
LastingIsAlerted ==
    level = 2 /\ clean /\ ~check.marks ~>
        alerted # {} \/ level # 2 \/ cut \/ (check.clears = "never" /\ ~check.keyed /\ ever)

\* Once a condition that comes and goes is over for good, its alert is armed
\* again.
Rearmed == check.clears # "never" /\ level <= check.low ~> flag = 0 \/ level > check.low

\* The alerts keep up with a condition, whatever its turns: it is alerted
\* while it lasts, and armed again when it is over.
AlertsKeepUp == LastingIsAlerted /\ Rearmed

\* A check alerts once per episode, and no flag silences an episode it was not
\* set in.
AlertedOnce == AlertTypeOK /\ OncePerEpisode /\ NotSilenced

=============================================================================
