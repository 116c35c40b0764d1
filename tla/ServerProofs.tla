------------------------------ MODULE ServerProofs ------------------------------
(* Theorems about five parts of the webserver: the ticks of the scheduler  *)
(* (TickOverlap), the limit on failed logins (LoginLimiter), the checks    *)
(* that alert once (AlertChecks), the ingest of host results (HostIngest)  *)
(* and what it concludes of a device's uptime (Uptime). Each holds for any *)
(* number of ticks, logins, checks, results and boots, and any faults.     *)
EXTENDS TickOverlap, LoginLimiter, AlertChecks, HostIngest, Uptime, FiniteSetTheorems, TLAPS

(***************************************************************************)
(* TickOverlap. As long as two ticks have not met, the one that is under   *)
(* way works on what it has read; met or not, a tick that is to queue has  *)
(* found nothing waiting, and there are no more of these, and of their     *)
(* requests, than ticks.                                                   *)
(***************************************************************************)

Queueing == {t \in Ticks : ticking[t].pc = "queue"}

\* The only tick under way has read what is still the case.
TicksAlone ==
    ~met =>
        /\ \A t, u \in Busy : t = u
        /\ \A t \in Busy : enabled /\ isDue /\ ticking[t].read = skipped
        /\ enabled /\ isDue => runs = 0
        /\ runs <= 1
        /\ skipped = skips

TickInv ==
    /\ TickTypeOK
    /\ TicksAlone
    /\ queued + Cardinality(Queueing) <= Cardinality(Ticks)
    /\ skipped <= skips
    /\ \A t \in Ticks : ticking[t].read <= skips

Ticking == [pc : {"idle", "turn", "skip", "queue"}, read : Nat]

LEMMA TickCounts ==
  ASSUME TickTypeOK
  PROVE  /\ IsFiniteSet(Ticks) /\ Cardinality(Ticks) \in Nat
         /\ IsFiniteSet(Queueing) /\ Cardinality(Queueing) \in Nat
         /\ ticking \in [Ticks -> Ticking]
<1>1. IsFiniteSet(Ticks) /\ Cardinality(Ticks) \in Nat BY TickAssumption, FS_CardinalityType
<1>2. Queueing \subseteq Ticks BY DEF Queueing
<1> QED BY <1>1, <1>2, FS_Subset, FS_CardinalityType DEF TickTypeOK, Ticking

\* One tick changes its place to x: what that does to those that are to queue.
LEMMA QueueingMoves ==
  ASSUME TickTypeOK, NEW t \in Ticks, NEW x \in Ticking, ticking' = [ticking EXCEPT ![t] = x]
  PROVE  /\ ticking' \in [Ticks -> Ticking]
         /\ ticking'[t] = x /\ \A u \in Ticks \ {t} : ticking'[u] = ticking[u]
         /\ Cardinality(Queueing') \in Nat
         /\ x.pc # "queue" => Cardinality(Queueing') <= Cardinality(Queueing)
         /\ x.pc # "queue" /\ ticking[t].pc = "queue" => Cardinality(Queueing') = Cardinality(Queueing) - 1
         /\ Cardinality(Queueing') <= Cardinality(Ticks)
<1>1. ticking \in [Ticks -> Ticking] BY TickCounts
<1>2. ticking'[t] = x /\ \A u \in Ticks \ {t} : ticking'[u] = ticking[u] BY <1>1
<1>3. IsFiniteSet(Queueing) /\ IsFiniteSet(Ticks) BY TickCounts
<1>4. Queueing' \subseteq Ticks BY DEF Queueing
<1>5. IsFiniteSet(Queueing') /\ Cardinality(Queueing') <= Cardinality(Ticks)
      /\ Cardinality(Queueing') \in Nat
  BY <1>3, <1>4, FS_Subset, FS_CardinalityType
<1>6. ASSUME x.pc # "queue" PROVE Queueing' = Queueing \ {t}
  BY <1>2, <1>6 DEF Queueing
<1>7. x.pc # "queue" => Cardinality(Queueing') <= Cardinality(Queueing)
  BY <1>3, <1>6, FS_Subset
<1>8. x.pc # "queue" /\ ticking[t].pc = "queue" => Cardinality(Queueing') = Cardinality(Queueing) - 1
  <2> SUFFICES ASSUME x.pc # "queue", ticking[t].pc = "queue"
               PROVE Cardinality(Queueing') = Cardinality(Queueing) - 1
    OBVIOUS
  <2>1. t \in Queueing BY DEF Queueing
  <2> QED BY <1>3, <1>6, <2>1, FS_RemoveElement
<1> QED BY <1>1, <1>2, <1>5, <1>7, <1>8

LEMMA TickInvInit == TickInit => TickInv
<1> SUFFICES ASSUME TickInit PROVE TickInv OBVIOUS
<1>1. TickTypeOK
  <2>1. {once, enabled, isDue, met} \subseteq BOOLEAN BY DEF TickInit
  <2>2. /\ queued \in Nat /\ runs \in Nat /\ skipped \in Nat /\ skips \in Nat
        /\ tickFaults \in 0 .. MaxTickFaults /\ dues \in 0 .. MaxDue
    BY TickAssumption DEF TickInit
  <2>3. ticking \in [Ticks -> Ticking] BY DEF TickInit, Asleep, Ticking
  <2> QED BY <2>1, <2>2, <2>3 DEF TickTypeOK, Ticking
<1>2. Queueing = {} /\ Busy = {} BY DEF TickInit, Queueing, Busy, Asleep
<1>3. Cardinality(Queueing) = 0 BY <1>2, FS_EmptySet
<1>4. Cardinality(Ticks) \in Nat BY TickAssumption, FS_CardinalityType
<1>5. \A t \in Ticks : ticking[t].read <= skips BY DEF TickInit, Asleep
<1> QED BY <1>1, <1>2, <1>3, <1>4, <1>5 DEF TickInv, TicksAlone, TickInit

\* The steps of the schedule: it comes due, it is switched on, its request leaves.
LEMMA DueStep ==
  ASSUME TickInv, ComesDueAgain \/ SwitchOn \/ RequestLeaves PROVE TickInv'
<1>t. /\ skipped \in Nat /\ skips \in Nat /\ queued \in Nat /\ runs \in Nat
      /\ dues \in 0 .. MaxDue /\ MaxDue \in Nat
      /\ Cardinality(Queueing) \in Nat /\ Cardinality(Ticks) \in Nat
  BY TickCounts, TickAssumption DEF TickInv, TickTypeOK
<1>1. UNCHANGED <<once, skipped, ticking, tickFaults, skips, met>> /\ Queueing' = Queueing /\ Busy' = Busy
  BY DEF ComesDueAgain, SwitchOn, RequestLeaves, Queueing, Busy
<1>2. TickTypeOK'
  <2>1. {once, enabled, isDue, met}' \subseteq BOOLEAN
    BY DEF TickInv, TickTypeOK, ComesDueAgain, SwitchOn, RequestLeaves
  <2>2. queued' \in Nat /\ runs' \in Nat /\ dues' \in 0 .. MaxDue
    BY <1>t DEF ComesDueAgain, SwitchOn, RequestLeaves
  <2> QED BY <1>1, <2>1, <2>2 DEF TickInv, TickTypeOK
<1>3. TicksAlone' BY <1>1, <1>t DEF TickInv, TicksAlone, ComesDueAgain, SwitchOn, RequestLeaves
<1>4. queued' <= queued BY <1>t DEF ComesDueAgain, SwitchOn, RequestLeaves
<1>5. queued' \in Nat BY <1>2 DEF TickTypeOK
<1>6. queued' + Cardinality(Queueing') <= Cardinality(Ticks) BY <1>1, <1>4, <1>5, <1>t DEF TickInv
<1> QED BY <1>1, <1>2, <1>3, <1>6 DEF TickInv

\* What TickTypeOK says of the numbers.
LEMMA TickNumbers ==
  ASSUME TickInv
  PROVE  /\ skipped \in Nat /\ skips \in Nat /\ queued \in Nat /\ runs \in Nat
         /\ Cardinality(Queueing) \in Nat /\ Cardinality(Ticks) \in Nat
         /\ \A t \in Ticks : ticking[t].read \in Nat
                             /\ ticking[t].pc \in {"idle", "turn", "skip", "queue"}
         /\ Asleep \in Ticking /\ Asleep.pc = "idle" /\ Asleep.read = 0
BY TickCounts DEF TickInv, TickTypeOK, Asleep, Ticking

LEMMA ReadStep == ASSUME TickInv, NEW t \in Ticks, ReadDue(t) PROVE TickInv'
<1> DEFINE x == [pc |-> "turn", read |-> skipped]
<1>1. /\ ticking[t].pc = "idle" /\ enabled /\ isDue /\ ticking' = [ticking EXCEPT ![t] = x]
      /\ met' = (met \/ Busy # {})
      /\ UNCHANGED <<once, enabled, isDue, skipped, queued, tickFaults, dues, runs, skips>>
  BY DEF ReadDue
<1>2. x \in Ticking /\ x.pc = "turn" /\ x.read = skipped BY TickNumbers DEF Ticking
<1> HIDE DEF x
<1>3. /\ ticking' \in [Ticks -> Ticking]
      /\ ticking'[t] = x /\ \A u \in Ticks \ {t} : ticking'[u] = ticking[u]
      /\ Cardinality(Queueing') \in Nat /\ Cardinality(Queueing') <= Cardinality(Queueing)
  BY <1>1, <1>2, QueueingMoves DEF TickInv
<1>4. TickTypeOK'
  <2>1. {once, enabled, isDue, met}' \subseteq BOOLEAN BY <1>1 DEF TickInv, TickTypeOK
  <2> QED BY <1>1, <1>3, <2>1 DEF TickInv, TickTypeOK, Ticking
<1>5. TicksAlone'
  <2> SUFFICES ASSUME ~met' PROVE TicksAlone' BY DEF TicksAlone
  <2>1. ~met /\ Busy = {} BY <1>1
  <2>2. Busy' = {t} BY <1>2, <1>3, <2>1 DEF Busy
  <2> QED BY <1>1, <1>2, <1>3, <2>1, <2>2 DEF TicksAlone, TickInv
<1>6. \A u \in Ticks : ticking'[u].read <= skips' BY <1>1, <1>2, <1>3 DEF TickInv
<1> QED BY <1>1, <1>3, <1>4, <1>5, <1>6, TickNumbers DEF TickInv

LEMMA TurnStep == ASSUME TickInv, NEW t \in Ticks, TakeTurn(t) \/ TickCut(t) PROVE TickInv'
<1>1. ticking[t].pc # "idle"
      /\ UNCHANGED <<once, enabled, isDue, skipped, queued, dues, runs, skips, met>>
  BY DEF TakeTurn, TickCut
<1>2. tickFaults' \in 0 .. MaxTickFaults
  BY TickAssumption DEF TakeTurn, TickCut, TickInv, TickTypeOK
<1>3. \E x \in Ticking : /\ ticking' = [ticking EXCEPT ![t] = x]
                         /\ x = Asleep \/ x.read = ticking[t].read
                         /\ x.pc = "queue" => queued = 0
  <2>1. CASE ticking' = [ticking EXCEPT ![t] = Asleep] BY <2>1, TickNumbers
  <2>2. CASE TakeTurn(t) /\ ticking' # [ticking EXCEPT ![t] = Asleep]
    <3> DEFINE pc == IF queued > 0 THEN "skip" ELSE "queue"
    <3> DEFINE x == [ticking[t] EXCEPT !.pc = pc]
    <3>1. ticking' = [ticking EXCEPT ![t] = x] BY <2>2 DEF TakeTurn
    <3>2. ticking[t] \in Ticking BY TickCounts DEF TickInv
    <3>3. x \in Ticking /\ x.pc = pc /\ x.read = ticking[t].read BY <3>2 DEF Ticking
    <3>4. pc = "queue" => queued = 0 BY TickNumbers
    <3> QED BY <3>1, <3>3, <3>4
  <2> QED BY <2>1, <2>2 DEF TakeTurn, TickCut
<1>4. PICK x \in Ticking : /\ ticking' = [ticking EXCEPT ![t] = x]
                           /\ x = Asleep \/ x.read = ticking[t].read
                           /\ x.pc = "queue" => queued = 0
  BY <1>3
<1>5. /\ ticking' \in [Ticks -> Ticking]
      /\ ticking'[t] = x /\ \A u \in Ticks \ {t} : ticking'[u] = ticking[u]
      /\ Cardinality(Queueing') \in Nat /\ Cardinality(Queueing') <= Cardinality(Ticks)
      /\ x.pc # "queue" => Cardinality(Queueing') <= Cardinality(Queueing)
  BY <1>4, QueueingMoves DEF TickInv
<1>6. TickTypeOK'
  <2>1. {once, enabled, isDue, met}' \subseteq BOOLEAN BY <1>1 DEF TickInv, TickTypeOK
  <2> QED BY <1>1, <1>2, <1>5, <2>1 DEF TickInv, TickTypeOK, Ticking
<1>7. TicksAlone'
  <2>1. Busy' \subseteq Busy BY <1>1, <1>5 DEF Busy
  <2>2. \A u \in Busy' : ticking'[u].read = ticking[u].read BY <1>4, <1>5 DEF Busy, Asleep
  <2> QED BY <1>1, <2>1, <2>2 DEF TicksAlone, TickInv
<1>8. \A u \in Ticks : ticking'[u].read <= skips' BY <1>1, <1>4, <1>5, TickNumbers DEF TickInv
<1>9. queued' + Cardinality(Queueing') <= Cardinality(Ticks)' BY <1>1, <1>4, <1>5, TickNumbers DEF TickInv
<1> QED BY <1>1, <1>6, <1>7, <1>8, <1>9 DEF TickInv

LEMMA SkipStep == ASSUME TickInv, NEW t \in Ticks, SkipRun(t) PROVE TickInv'
<1>1. /\ ticking[t].pc = "skip" /\ isDue' = FALSE
      /\ skipped' = ticking[t].read + 1 /\ skips' = skips + 1
      /\ ticking' = [ticking EXCEPT ![t] = Asleep]
      /\ UNCHANGED <<once, enabled, queued, tickFaults, dues, runs, met>>
  BY DEF SkipRun
<1>2. /\ ticking' \in [Ticks -> Ticking]
      /\ ticking'[t] = Asleep /\ \A u \in Ticks \ {t} : ticking'[u] = ticking[u]
      /\ Cardinality(Queueing') \in Nat /\ Cardinality(Queueing') <= Cardinality(Queueing)
  BY <1>1, TickNumbers, QueueingMoves DEF TickInv
<1>3. TickTypeOK'
  <2>1. {once, enabled, isDue, met}' \subseteq BOOLEAN BY <1>1 DEF TickInv, TickTypeOK
  <2> QED BY <1>1, <1>2, <2>1, TickNumbers DEF TickInv, TickTypeOK, Ticking
<1>4. TicksAlone'
  <2> SUFFICES ASSUME ~met PROVE TicksAlone' BY <1>1 DEF TicksAlone
  <2>1. t \in Busy BY <1>1 DEF Busy
  <2>2. Busy' = {} BY <1>2, <2>1, TickNumbers DEF Busy, TickInv, TicksAlone
  <2> QED BY <1>1, <2>1, <2>2 DEF TickInv, TicksAlone
<1>5. skipped' <= skips' /\ \A u \in Ticks : ticking'[u].read <= skips'
  BY <1>1, <1>2, TickNumbers DEF TickInv
<1> QED BY <1>1, <1>2, <1>3, <1>4, <1>5, TickNumbers DEF TickInv

LEMMA QueueStep == ASSUME TickInv, NEW t \in Ticks, QueueForRun(t) PROVE TickInv'
<1>1. /\ ticking[t].pc = "queue" /\ queued' = queued + 1 /\ runs' = runs + 1
      /\ ticking' = [ticking EXCEPT ![t] = Asleep]
      /\ (enabled' = FALSE /\ isDue' = isDue) \/ (isDue' = FALSE /\ enabled' = enabled)
      /\ UNCHANGED <<once, skipped, tickFaults, dues, skips, met>>
  BY DEF QueueForRun
<1>2. /\ ticking' \in [Ticks -> Ticking]
      /\ ticking'[t] = Asleep /\ \A u \in Ticks \ {t} : ticking'[u] = ticking[u]
      /\ Cardinality(Queueing') \in Nat /\ Cardinality(Queueing') = Cardinality(Queueing) - 1
  BY <1>1, TickNumbers, QueueingMoves DEF TickInv
<1>3. TickTypeOK'
  <2>1. {once, enabled, isDue, met}' \subseteq BOOLEAN BY <1>1 DEF TickInv, TickTypeOK
  <2> QED BY <1>1, <1>2, <2>1, TickNumbers DEF TickInv, TickTypeOK, Ticking
<1>4. TicksAlone'
  <2> SUFFICES ASSUME ~met PROVE TicksAlone' BY <1>1 DEF TicksAlone
  <2>1. t \in Busy BY <1>1 DEF Busy
  <2>2. Busy' = {} BY <1>2, <2>1, TickNumbers DEF Busy, TickInv, TicksAlone
  <2>3. runs = 0 BY <2>1 DEF TickInv, TicksAlone
  <2> QED BY <1>1, <2>1, <2>2, <2>3 DEF TickInv, TicksAlone
<1>5. \A u \in Ticks : ticking'[u].read <= skips' BY <1>1, <1>2, TickNumbers DEF TickInv
<1> QED BY <1>1, <1>2, <1>3, <1>4, <1>5, TickNumbers DEF TickInv

LEMMA TickInvStep == ASSUME TickInv, [TickNext]_tickVars PROVE TickInv'
<1>1. CASE UNCHANGED tickVars
  <2>1. Queueing' = Queueing /\ Busy' = Busy /\ Cardinality(Queueing)' = Cardinality(Queueing)
    BY <1>1 DEF tickVars, Queueing, Busy
  <2> QED BY <1>1, <2>1 DEF tickVars, TickInv, TickTypeOK, TicksAlone
<1>2. CASE TickNext
  BY <1>2, DueStep, ReadStep, TurnStep, SkipStep, QueueStep DEF TickNext
<1> QED BY <1>1, <1>2

\* The type of the ticks' variables is kept.
THEOREM TickTypeCorrect == TickSpec => []TickTypeOK
<1>1. TickInv => TickTypeOK BY DEF TickInv
<1> QED BY <1>1, TickInvInit, TickInvStep, PTL DEF TickSpec

\* A run is queued once unless ticks met, no more requests wait than there
\* are ticks, and skips are counted (scheduler.ts:66-74, 166), for any number
\* of ticks that overlap.
THEOREM TicksKeepAgreeing == TickSpec => []TicksAgree
<1>1. ASSUME TickInv PROVE TicksAgree
  <2>1. TickTypeOK /\ OneRunPerDue /\ SkipsAreCounted
    BY <1>1, TickNumbers DEF TickInv, TicksAlone, OneRunPerDue, SkipsAreCounted
  <2>2. PileUpIsBounded BY <1>1, TickNumbers DEF TickInv, PileUpIsBounded
  <2> QED BY <2>1, <2>2 DEF TicksAgree
<1> QED BY <1>1, TickInvInit, TickInvStep, PTL DEF TickSpec

(***************************************************************************)
(* LoginLimiter. Only an attempt that asked before the lock can count to a *)
(* locked counter, and there are no more of these than logins under way.   *)
(***************************************************************************)

\* The attempts that will count to c if they fail.
Verifying(c) == {l \in Logins : login[l].pc = "verify" /\ c \in login[l].keys}

\* A counter that is not locked is below its limit; one that is went over it
\* by attempts that are no longer under way.
CountersBounded ==
    \A c \in Counters :
        /\ c \notin locked => tried[c] < MaxTries
        /\ c \in locked => tried[c] + Cardinality(Verifying(c)) < MaxTries + Cardinality(Logins)

LoginInv ==
    /\ LimiterTypeOK
    /\ CountersBounded
    /\ \A c \in Counters : alarms[c] <= 1

LoginStates == [pc : {"idle", "verify"}, keys : SUBSET Counters]

LEMMA LoginFacts ==
  ASSUME LimiterTypeOK
  PROVE  /\ login \in [Logins -> LoginStates] /\ NoLogin \in LoginStates
         /\ NoLogin.pc = "idle" /\ NoLogin.keys = {}
         /\ IsFiniteSet(Logins) /\ Cardinality(Logins) \in Nat /\ MaxTries \in Nat /\ MaxTries > 1
         /\ MaxPasses \in Nat
         /\ \A c \in Counters : /\ tried[c] \in Nat /\ alarms[c] \in Nat
                                /\ IsFiniteSet(Verifying(c)) /\ Cardinality(Verifying(c)) \in Nat
                                /\ Cardinality(Verifying(c)) <= Cardinality(Logins)
<1>1. IsFiniteSet(Logins) /\ Cardinality(Logins) \in Nat BY LoginAssumption, FS_CardinalityType
<1>2. \A c \in Counters : /\ IsFiniteSet(Verifying(c)) /\ Cardinality(Verifying(c)) \in Nat
                          /\ Cardinality(Verifying(c)) <= Cardinality(Logins)
  <2> TAKE c \in Counters
  <2>1. Verifying(c) \subseteq Logins BY DEF Verifying
  <2> QED BY <1>1, <2>1, FS_Subset, FS_CardinalityType
<1>3. login \in [Logins -> LoginStates] /\ NoLogin \in LoginStates
      /\ NoLogin.pc = "idle" /\ NoLogin.keys = {}
  BY DEF LimiterTypeOK, LoginStates, NoLogin
<1>4. \A c \in Counters : tried[c] \in Nat /\ alarms[c] \in Nat BY DEF LimiterTypeOK
<1> QED BY <1>1, <1>2, <1>3, <1>4, LoginAssumption

\* A login ends: it verifies nothing any more, and the others are as before.
LEMMA LoginEnds ==
  ASSUME LimiterTypeOK, NEW l \in Logins, login' = [login EXCEPT ![l] = NoLogin]
  PROVE  /\ login' \in [Logins -> LoginStates]
         /\ \A c \in Counters : Cardinality(Verifying(c)') \in Nat
                                /\ Cardinality(Verifying(c)') <= Cardinality(Verifying(c))
         /\ \A c \in login[l].keys :
              login[l].pc = "verify" /\ c \in Counters =>
                Cardinality(Verifying(c)') = Cardinality(Verifying(c)) - 1
<1>1. login' \in [Logins -> LoginStates] /\ \A k \in Logins : login'[k] = IF k = l THEN NoLogin ELSE login[k]
  BY LoginFacts
<1>2. \A c \in Counters : Verifying(c)' = Verifying(c) \ {l}
  BY <1>1, LoginFacts DEF Verifying
<1>3. \A c \in Counters : Cardinality(Verifying(c)') \in Nat
                          /\ Cardinality(Verifying(c)') <= Cardinality(Verifying(c))
  BY <1>2, LoginFacts, FS_Subset, FS_CardinalityType
<1>4. \A c \in login[l].keys :
        login[l].pc = "verify" /\ c \in Counters =>
          Cardinality(Verifying(c)') = Cardinality(Verifying(c)) - 1
  <2> TAKE c \in login[l].keys
  <2> SUFFICES ASSUME login[l].pc = "verify", c \in Counters
               PROVE Cardinality(Verifying(c)') = Cardinality(Verifying(c)) - 1
    OBVIOUS
  <2>1. l \in Verifying(c) BY DEF Verifying
  <2> QED BY <1>2, <2>1, LoginFacts, FS_RemoveElement
<1> QED BY <1>1, <1>3, <1>4

LEMMA LoginInvInit == LoginInit => LoginInv
<1> SUFFICES ASSUME LoginInit PROVE LoginInv OBVIOUS
<1>1. LimiterTypeOK BY LoginAssumption DEF LoginInit, LimiterTypeOK, NoLogin
<1>2. CountersBounded BY LoginAssumption DEF LoginInit, CountersBounded
<1> QED BY <1>1, <1>2 DEF LoginInv, LoginInit

\* Counters are forgotten.
LEMMA ForgetKeeps ==
  ASSUME LoginInv, NEW keys, Forget(keys), UNCHANGED alarms, passes' \in 0 .. MaxPasses,
         login' \in [Logins -> LoginStates],
         \A c \in locked \ keys : Cardinality(Verifying(c)') <= Cardinality(Verifying(c))
                                  /\ Cardinality(Verifying(c)') \in Nat
  PROVE  LoginInv'
<1>1. /\ tried' = [c \in Counters |-> IF c \in keys THEN 0 ELSE tried[c]]
      /\ windowOver' = windowOver \ keys /\ locked' = locked \ keys /\ lockOver' = lockOver \ keys
  BY DEF Forget
<1>2. LimiterTypeOK' BY <1>1, LoginFacts DEF LoginInv, LimiterTypeOK, LoginStates
<1>3. CountersBounded'
  <2> SUFFICES ASSUME NEW c \in Counters
      PROVE /\ c \notin locked' => tried'[c] < MaxTries
            /\ c \in locked' => tried'[c] + Cardinality(Verifying(c)') < MaxTries + Cardinality(Logins)
    BY DEF CountersBounded
  <2>1. tried'[c] = IF c \in keys THEN 0 ELSE tried[c] BY <1>1
  <2> QED BY <1>1, <2>1, LoginFacts DEF LoginInv, CountersBounded
<1> QED BY <1>2, <1>3 DEF LoginInv

LEMMA AskStep ==
  ASSUME LoginInv, NEW l \in Logins, NEW a \in ClientIps, NEW u \in Users, AskLimiter(l, a, u) PROVE LoginInv'
<1> DEFINE keys == {a, u} \cap (IF a \in locked \ lockOver THEN {} ELSE lockOver)
<1> DEFINE x == [pc |-> "verify", keys |-> {a, u}]
<1>1. /\ Forget(keys) /\ login[l].pc = "idle"
      /\ login' = IF StillLocked(a, u) = {} THEN [login EXCEPT ![l] = x] ELSE login
      /\ UNCHANGED <<passes, alarms>>
  BY DEF AskLimiter
<1>2. x \in LoginStates BY DEF LoginStates, Counters
<1>3. login' \in [Logins -> LoginStates]
  BY <1>1, <1>2, LoginFacts DEF LoginInv
<1>4. \A c \in locked \ keys : Verifying(c)' = Verifying(c)
  <2> TAKE c \in locked \ keys
  <2>1. CASE StillLocked(a, u) # {} BY <1>1, <2>1 DEF Verifying
  <2>2. CASE StillLocked(a, u) = {}
    <3>1. c \notin {a, u} BY <2>2 DEF StillLocked
    <3>2. \A k \in Logins : login'[k] = IF k = l THEN x ELSE login[k] BY <1>1, <2>2, LoginFacts DEF LoginInv
    <3> QED BY <1>1, <3>1, <3>2 DEF Verifying
  <2> QED BY <2>1, <2>2
<1>5. \A c \in locked \ keys : Cardinality(Verifying(c)') <= Cardinality(Verifying(c))
                               /\ Cardinality(Verifying(c)') \in Nat
  BY <1>4, LoginFacts DEF LoginInv, LimiterTypeOK
<1>6. passes' \in 0 .. MaxPasses BY <1>1 DEF LoginInv, LimiterTypeOK
<1> HIDE DEF keys
<1> QED BY <1>1, <1>3, <1>5, <1>6, ForgetKeeps

LEMMA FailStep == ASSUME LoginInv, NEW l \in Logins, LoginFails(l) PROVE LoginInv'
<1> DEFINE keys == login[l].keys
<1> DEFINE anew == keys \cap windowOver
<1> DEFINE locking == {c \in keys : Locks(c)}
<1>1. /\ login[l].pc = "verify"
      /\ tried' = [c \in Counters |-> IF c \in anew THEN 1 ELSE IF c \in keys THEN tried[c] + 1 ELSE tried[c]]
      /\ windowOver' = windowOver \ anew
      /\ locked' = (locked \ anew) \cup locking
      /\ lockOver' = (lockOver \ anew) \ locking
      /\ alarms' = [c \in Counters |-> IF c \in locking THEN 1 + (IF c \in locked THEN alarms[c] ELSE 0) ELSE alarms[c]]
      /\ login' = [login EXCEPT ![l] = NoLogin]
      /\ UNCHANGED passes
  BY DEF LoginFails
<1>2. keys \in SUBSET Counters BY LoginFacts DEF LoginInv, LoginStates
<1>3. \A c \in locking : c \in Counters /\ c \in keys /\ c \notin windowOver /\ tried[c] + 1 >= MaxTries /\ c \notin locked
  BY <1>2 DEF Locks
<1>4. \A c \in keys \ locking : c \in windowOver \/ c \in locked \/ tried[c] + 1 < MaxTries
  <2> TAKE c \in keys \ locking
  <2>1. tried[c] \in Nat /\ MaxTries \in Nat BY <1>2, LoginFacts DEF LoginInv
  <2> QED BY <2>1 DEF Locks
<1>5. /\ login' \in [Logins -> LoginStates]
      /\ \A c \in Counters : Cardinality(Verifying(c)') \in Nat
                             /\ Cardinality(Verifying(c)') <= Cardinality(Verifying(c))
      /\ \A c \in keys : Cardinality(Verifying(c)') = Cardinality(Verifying(c)) - 1
  BY <1>1, <1>2, LoginEnds DEF LoginInv
<1> HIDE DEF keys, locking
<1>6. \A c \in Counters : alarms'[c] <= 1 /\ alarms'[c] \in Nat
  BY <1>1, <1>3, LoginFacts DEF LoginInv
<1>7. \A c \in Counters : tried'[c] = IF c \in anew THEN 1 ELSE IF c \in keys THEN tried[c] + 1 ELSE tried[c]
  BY <1>1
<1>8. CountersBounded'
  <2> SUFFICES ASSUME NEW c \in Counters
      PROVE /\ c \notin locked' => tried'[c] < MaxTries
            /\ c \in locked' => tried'[c] + Cardinality(Verifying(c)') < MaxTries + Cardinality(Logins)
    BY DEF CountersBounded
  <2>n. /\ tried[c] \in Nat /\ MaxTries \in Nat /\ MaxTries > 1 /\ Cardinality(Logins) \in Nat
        /\ Cardinality(Verifying(c)) \in Nat /\ Cardinality(Verifying(c)') \in Nat
        /\ Cardinality(Verifying(c)) <= Cardinality(Logins)
        /\ Cardinality(Verifying(c)') <= Cardinality(Verifying(c))
    BY <1>5, LoginFacts DEF LoginInv
  <2>i. /\ c \notin locked => tried[c] < MaxTries
        /\ c \in locked => tried[c] + Cardinality(Verifying(c)) < MaxTries + Cardinality(Logins)
    BY DEF LoginInv, CountersBounded
  <2>1. CASE c \in anew BY <1>1, <1>3, <1>7, <2>1, <2>n
  <2>2. CASE c \in keys \ anew
    <3>1. tried'[c] = tried[c] + 1 /\ Cardinality(Verifying(c)') = Cardinality(Verifying(c)) - 1
      BY <1>5, <1>7, <2>2
    <3>2. CASE c \in locking
      <4>1. c \in locked' /\ c \notin locked BY <1>1, <1>3, <3>2
      <4> QED BY <2>i, <2>n, <3>1, <4>1
    <3>3. CASE c \notin locking
      <4>1. c \in locked \/ tried[c] + 1 < MaxTries BY <1>4, <2>2, <3>3
      <4>2. c \in locked' <=> c \in locked BY <1>1, <2>2, <3>3
      <4> QED BY <2>i, <2>n, <3>1, <4>1, <4>2
    <3> QED BY <3>2, <3>3
  <2>3. CASE c \notin keys
    <3>1. tried'[c] = tried[c] /\ (c \in locked' <=> c \in locked) BY <1>1, <1>3, <1>7, <2>3
    <3> QED BY <2>i, <2>n, <3>1
  <2> QED BY <2>1, <2>2, <2>3
<1>9. LimiterTypeOK'
  <2>1. tried' \in [Counters -> Nat] /\ alarms' \in [Counters -> Nat]
    BY <1>1, <1>6, LoginFacts DEF LoginInv
  <2>2. windowOver' \in SUBSET Counters /\ locked' \in SUBSET Counters /\ lockOver' \in SUBSET locked'
    BY <1>1, <1>3 DEF LoginInv, LimiterTypeOK
  <2>3. \A c \in locked' : tried'[c] >= MaxTries
    <3> TAKE c \in locked'
    <3>1. c \in Counters BY <2>2
    <3>2. tried[c] \in Nat /\ MaxTries \in Nat BY <3>1, LoginFacts DEF LoginInv
    <3>3. CASE c \in locking
      <4>1. tried'[c] = tried[c] + 1 /\ tried[c] + 1 >= MaxTries BY <1>3, <1>7, <3>1, <3>3
      <4> QED BY <4>1
    <3>4. CASE c \in locked \ anew
      <4>1. tried[c] >= MaxTries BY <3>4 DEF LoginInv, LimiterTypeOK
      <4>2. tried'[c] = tried[c] + 1 \/ tried'[c] = tried[c] BY <1>7, <3>1, <3>4
      <4> QED BY <3>2, <4>1, <4>2
    <3> QED BY <1>1, <3>3, <3>4
  <2> QED BY <1>1, <1>5, <2>1, <2>2, <2>3 DEF LoginInv, LimiterTypeOK, LoginStates
<1> QED BY <1>6, <1>8, <1>9 DEF LoginInv

LEMMA EndStep ==
  ASSUME LoginInv, NEW l \in Logins, LoginSucceeds(l) \/ LoginBreaks(l) PROVE LoginInv'
<1>1. login' = [login EXCEPT ![l] = NoLogin] /\ UNCHANGED <<passes, alarms>>
  BY DEF LoginSucceeds, LoginBreaks
<1>2. /\ login' \in [Logins -> LoginStates]
      /\ \A c \in Counters : Cardinality(Verifying(c)') \in Nat
                             /\ Cardinality(Verifying(c)') <= Cardinality(Verifying(c))
  BY <1>1, LoginEnds DEF LoginInv
<1>3. passes' \in 0 .. MaxPasses /\ locked \subseteq Counters BY <1>1 DEF LoginInv, LimiterTypeOK
<1>4. CASE LoginSucceeds(l)
  <2>1. Forget(login[l].keys) BY <1>4 DEF LoginSucceeds
  <2> QED BY <1>1, <1>2, <1>3, <2>1, ForgetKeeps
<1>5. CASE LoginBreaks(l)
  <2>1. UNCHANGED <<tried, windowOver, locked, lockOver>> BY <1>5 DEF LoginBreaks
  <2>2. LimiterTypeOK' BY <1>1, <1>2, <2>1 DEF LoginInv, LimiterTypeOK, LoginStates
  <2>3. CountersBounded'
    <3> SUFFICES ASSUME NEW c \in Counters
        PROVE /\ c \notin locked' => tried'[c] < MaxTries
              /\ c \in locked' => tried'[c] + Cardinality(Verifying(c)') < MaxTries + Cardinality(Logins)
      BY DEF CountersBounded
    <3> QED BY <1>2, <2>1, LoginFacts DEF LoginInv, CountersBounded
  <2> QED BY <1>1, <2>2, <2>3 DEF LoginInv
<1> QED BY <1>4, <1>5

LEMMA PassesStep ==
  ASSUME LoginInv, NEW c \in Counters, WindowPasses(c) \/ LockPasses(c) PROVE LoginInv'
<1>1. UNCHANGED <<tried, locked, login, alarms>> BY DEF WindowPasses, LockPasses
<1>2. LimiterTypeOK'
  BY <1>1, LoginAssumption DEF LoginInv, LimiterTypeOK, WindowPasses, LockPasses
<1>3. \A b \in Counters : Cardinality(Verifying(b))' = Cardinality(Verifying(b)) BY <1>1 DEF Verifying
<1>4. CountersBounded' BY <1>1, <1>3 DEF LoginInv, CountersBounded
<1> QED BY <1>1, <1>2, <1>4 DEF LoginInv

LEMMA RestartStep == ASSUME LoginInv, LimiterRestart PROVE LoginInv'
<1>1. Forget(Counters) /\ login' = [l \in Logins |-> NoLogin] /\ UNCHANGED alarms /\ passes' \in 0 .. MaxPasses
  BY LoginAssumption DEF LimiterRestart, LoginInv, LimiterTypeOK
<1>2. login' \in [Logins -> LoginStates] BY <1>1, LoginFacts DEF LoginInv
<1>3. locked \subseteq Counters BY DEF LoginInv, LimiterTypeOK
<1> QED BY <1>1, <1>2, <1>3, ForgetKeeps

LEMMA LoginInvStep == ASSUME LoginInv, [LoginNext]_loginVars PROVE LoginInv'
<1>1. CASE UNCHANGED loginVars
  <2>1. \A c \in Counters : Cardinality(Verifying(c))' = Cardinality(Verifying(c))
    BY <1>1 DEF loginVars, Verifying
  <2> QED BY <1>1, <2>1 DEF loginVars, LoginInv, LimiterTypeOK, CountersBounded
<1>2. CASE LoginNext
  BY <1>2, AskStep, FailStep, EndStep, PassesStep, RestartStep DEF LoginNext
<1> QED BY <1>1, <1>2

\* The type of the limiter's variables is kept; a locked counter is at its limit.
THEOREM LimiterTypeCorrect == LoginSpec => []LimiterTypeOK
<1>1. LoginInv => LimiterTypeOK BY DEF LoginInv
<1> QED BY <1>1, LoginInvInit, LoginInvStep, PTL DEF LoginSpec

\* Attempts beyond MAX_ATTEMPTS are fewer than the logins under way at once,
\* and a lock is told once (rateLimiter.ts:20, 30-38), for any number of
\* logins, addresses and users.
THEOREM LockStaysSound == LoginSpec => []LockIsSound
<1>1. ASSUME LoginInv PROVE LockIsSound
  <2>1. OverrunIsBounded
    <3> SUFFICES ASSUME NEW c \in Counters PROVE tried[c] < MaxTries + Cardinality(Logins)
      BY DEF OverrunIsBounded
    <3> QED BY <1>1, LoginFacts DEF LoginInv, CountersBounded
  <2> QED BY <1>1, <2>1 DEF LoginInv, LockIsSound, OneAlarmPerLock
<1> QED BY <1>1, LoginInvInit, LoginInvStep, PTL DEF LoginSpec

(***************************************************************************)
(* AlertChecks. While checks do not overlap, and none is cut off between   *)
(* its alert and its flag, the flag is at least as high as every alert of  *)
(* the episode, and so is what a check has read of it; a check that claims *)
(* first has the episode to itself whatever the others do; and in an       *)
(* episode that began with neither flag nor check, whoever sets the flag   *)
(* has alerted.                                                            *)
(***************************************************************************)

\* A check that has read the condition.
HasRead(r) == round[r].pc \notin {"idle", "level"}

Current(r) == HasRead(r) /\ round[r].episode = episode

Covered(f) == \A l \in alerted : l <= f

\* What a check holds, whatever the others do.
RoundSound(r) ==
    /\ round[r].episode <= episode
    /\ round[r].pc = "flag" => check.reads = "level"
    /\ round[r].pc = "claim" => check.claims
    /\ round[r].pc \in {"claim", "alert"} => Fires(round[r])
    /\ Current(r) /\ round[r].level <= check.low => level <= check.low

\* What it holds if it is the only one under way.
RoundAlone(r) ==
    /\ HasRead(r) /\ ~Current(r) => alerted = {}
    /\ round[r].pc = "level" => flag <= round[r].flag
    /\ Current(r) /\ round[r].level > check.low =>
         /\ round[r].pc = "flag" => Covered(flag)
         /\ round[r].pc \in {"decide", "alert"} => Covered(round[r].flag)
         /\ round[r].pc = "set" => Covered(round[r].level)

ChecksAlone ==
    ~excused /\ ~check.claims =>
        /\ \A r, u \in Rounds : round[r].pc # "idle" /\ round[u].pc # "idle" => r = u
        /\ \A r \in Rounds : RoundAlone(r)
        /\ level > check.low /\ (\A r \in Rounds : round[r].pc # "set") => Covered(flag)
        /\ ~repeated

ClaimsExclude ==
    check.claims =>
        /\ \A r \in Rounds : /\ round[r].pc # "set"
                             /\ round[r].pc = "alert" /\ Current(r) => flag # 0 /\ alerted = {}
        /\ \A r, u \in Rounds :
             round[r].pc = "alert" /\ Current(r) /\ round[u].pc = "alert" /\ Current(u) => r = u
        /\ alerted # {} => flag # 0
        /\ ~repeated

CleanEpisode ==
    clean =>
        /\ \A r \in Rounds : HasRead(r) => Current(r)
        /\ ~check.marks =>
             /\ \A r \in Rounds : round[r].pc = "set" => alerted # {}
             /\ flag # 0 /\ ~cut =>
                  \/ alerted # {}
                  \/ check.claims /\ \E r \in Rounds : round[r].pc = "alert" /\ Current(r)

AlertInv ==
    /\ AlertTypeOK
    /\ \A r \in Rounds : RoundSound(r)
    /\ ChecksAlone
    /\ ClaimsExclude
    /\ CleanEpisode

\* What the checks have in common.
CheckKind(c) ==
    /\ c.reads \in {"both", "flag", "level"} /\ c.clears \in {"never", "read", "again"} /\ c.low \in {0, 1}
    /\ {c.grows, c.marks, c.keyed, c.claims} \subseteq BOOLEAN
    /\ c.claims => ~c.marks /\ ~c.grows /\ c.keyed /\ c.clears = "never"
    /\ c.grows => c.low = 0 /\ ~c.marks /\ ~c.keyed

LEMMA CheckKinds ==
  ASSUME check \in Checks
  PROVE  CheckKind(check) /\ (check = Kev => ~check.claims /\ ~check.keyed /\ check.reads = "flag" /\ check.marks)
<1> DEFINE K(c) == CheckKind(c) /\ (c = Kev => ~c.claims /\ ~c.keyed /\ c.reads = "flag" /\ c.marks)
<1>1. K(StaleScans) /\ K(ScannedCertificates) /\ K(TrustedCaCertificates)
  BY DEF CheckKind, Once, Kev, StaleScans, ScannedCertificates, TrustedCaCertificates
<1>2. K(QueueBacklog) /\ K(NetworkCoverage)
  BY DEF CheckKind, Once, ComesAndGoes, Kev, QueueBacklog, NetworkCoverage
<1>3. K(OfflineScanners) /\ K(DisappearedHosts)
  BY DEF CheckKind, Once, Kev, OfflineScanners, DisappearedHosts
<1>4. K(SharedSSHKeys) /\ K(WebserverDisk)
  BY DEF CheckKind, Once, ComesAndGoes, Kev, SharedSSHKeys, WebserverDisk
<1>5. K(BaselineDeviations) /\ K(PortPolicies) /\ K(SavedSearches)
  BY DEF CheckKind, Once, ComesAndGoes, Kev, BaselineDeviations, PortPolicies, SavedSearches
<1>6. K(ResourcePressure) /\ K(DiskLow)
  BY DEF CheckKind, Once, ComesAndGoes, Kev, ResourcePressure, DiskLow
<1>7. K(WebserverCertificate) /\ K(DailyDigest) /\ K(WeeklyReport)
  BY DEF CheckKind, Once, Kev, WebserverCertificate, DailyDigest, WeeklyReport
<1>8. K(ScheduledBackup) BY DEF CheckKind, Once, Kev, ScheduledBackup
<1>9. K(HighEpss) /\ K(Kev) BY DEF CheckKind, Once, Kev, HighEpss
<1> QED BY <1>1, <1>2, <1>3, <1>4, <1>5, <1>6, <1>7, <1>8, <1>9 DEF Checks

RoundStates ==
    [pc : {"idle", "level", "flag", "decide", "claim", "alert", "set", "clear"},
     level : Level, flag : Level, episode : 0 .. MaxEpisodes]

LEMMA AlertTypes ==
  ASSUME AlertTypeOK
  PROVE  /\ CheckKind(check) /\ level \in 0 .. 2 /\ flag \in 0 .. 2 /\ episode \in Nat /\ MaxEpisodes \in Nat
         /\ checkFaults \in Nat /\ MaxCheckFaults \in Nat
         /\ round \in [Rounds -> RoundStates]
         /\ \A r \in Rounds : /\ round[r].level \in 0 .. 2 /\ round[r].flag \in 0 .. 2 /\ round[r].episode \in Nat
         /\ Quiet \in RoundStates /\ Quiet.pc = "idle" /\ Quiet.episode = 0
<1>1. round \in [Rounds -> RoundStates] BY DEF AlertTypeOK, RoundStates
<1>2. \A r \in Rounds : /\ round[r].level \in 0 .. 2 /\ round[r].flag \in 0 .. 2 /\ round[r].episode \in Nat
  BY <1>1, CheckAssumption DEF RoundStates, Level
<1>3. Quiet \in RoundStates /\ Quiet.pc = "idle" /\ Quiet.episode = 0
  BY CheckAssumption DEF Quiet, RoundStates, Level
<1> QED BY <1>1, <1>2, <1>3, CheckKinds, CheckAssumption DEF AlertTypeOK, Level

LEMMA AlertInvInit == AlertInit => AlertInv
<1> SUFFICES ASSUME AlertInit PROVE AlertInv OBVIOUS
<1>1. {ever, repeated, excused, cut, clean} \subseteq BOOLEAN BY DEF AlertInit
<1>2. round \in [Rounds -> RoundStates] /\ \A r \in Rounds : round[r] = Quiet
  BY CheckAssumption DEF AlertInit, Quiet, RoundStates, Level
<1>3. AlertTypeOK
  BY <1>1, <1>2, CheckAssumption DEF AlertInit, AlertTypeOK, Level, RoundStates
<1>4. \A r \in Rounds : round[r].pc = "idle" /\ round[r].episode = 0 BY <1>2, AlertTypes, <1>3
<1>5. \A r \in Rounds : RoundSound(r) /\ RoundAlone(r)
  BY <1>4 DEF AlertInit, RoundSound, RoundAlone, HasRead, Current
<1>6. ChecksAlone /\ ClaimsExclude /\ CleanEpisode
  BY <1>4, <1>5 DEF AlertInit, ChecksAlone, ClaimsExclude, CleanEpisode, Covered
<1> QED BY <1>3, <1>5, <1>6 DEF AlertInv

\* The condition changes: a new episode, in which nothing is alerted yet, or
\* the same one, with the level on the same side of the line or below it.
LEMMA ConditionStep ==
  ASSUME AlertInv, NEW l \in Level, Changes(l) \/ Delisted PROVE AlertInv'
<1>t. /\ CheckKind(check) /\ level \in 0 .. 2 /\ flag \in 0 .. 2 /\ episode \in Nat
      /\ \A r \in Rounds : /\ round[r].level \in 0 .. 2 /\ round[r].flag \in 0 .. 2 /\ round[r].episode \in Nat
  BY AlertTypes DEF AlertInv
<1>1. UNCHANGED <<check, round, checkFaults, ever, repeated, excused, cut>>
  BY DEF Changes, Delisted
<1>2. \/ /\ level <= check.low /\ level' > check.low /\ episode' = episode + 1 /\ episode < MaxEpisodes
         /\ flag' = (IF check.keyed THEN 0 ELSE flag) /\ alerted' = {} /\ (clean' => flag' = 0 /\ Idle)
      \/ /\ level' > check.low => level > check.low
         /\ UNCHANGED <<episode, alerted, clean>>
         /\ flag' = flag \/ (flag' = 0 /\ check = Kev /\ level' = 0)
  BY <1>t DEF Changes, Delisted, Begins, Level, CheckKind
<1>3. level' \in 0 .. 2 /\ flag' \in 0 .. 2 /\ flag' <= flag /\ episode' \in Nat /\ (flag' = flag \/ flag' = 0)
  BY <1>2, <1>t DEF Changes, Delisted, Level
<1>4. AlertTypeOK'
  <2>1. {ever, repeated, excused, cut, clean}' \subseteq BOOLEAN
    <3>1. clean' \in BOOLEAN BY DEF AlertInv, AlertTypeOK, Changes, Delisted
    <3> QED BY <1>1, <3>1 DEF AlertInv, AlertTypeOK
  <2>2. /\ episode' \in 0 .. MaxEpisodes /\ alerted' \in SUBSET {1, 2} /\ (alerted' # {} => ever)
        /\ (flag' = 1 => check.grows)
    <3>1. episode \in 0 .. MaxEpisodes /\ alerted \in SUBSET {1, 2} /\ (alerted # {} => ever) /\ (flag = 1 => check.grows)
      BY DEF AlertInv, AlertTypeOK
    <3>2. (episode' = episode + 1 /\ episode < MaxEpisodes /\ alerted' = {}) \/ UNCHANGED <<episode, alerted>>
      BY <1>2
    <3>3. episode' \in 0 .. MaxEpisodes BY <3>1, <3>2, CheckAssumption
    <3>4. alerted' \in SUBSET {1, 2} /\ (alerted' # {} => ever) BY <3>1, <3>2
    <3>5. flag' = 1 => check.grows BY <1>3, <3>1
    <3> QED BY <3>3, <3>4, <3>5
  <2> QED BY <1>1, <1>3, <2>1, <2>2 DEF AlertInv, AlertTypeOK, Level
<1>5. \A r \in Rounds : RoundSound(r)'
  <2> TAKE r \in Rounds
  <2>1. RoundSound(r) BY DEF AlertInv
  <2>2. Fires(round[r])' <=> Fires(round[r]) BY <1>1 DEF Fires
  <2>3. episode' \in {episode, episode + 1} /\ (episode' = episode /\ level <= check.low => level' <= check.low)
    <3>1. check.low \in {0, 1} BY <1>t DEF CheckKind
    <3> QED BY <1>2, <1>3, <1>t, <3>1
  <2>4. round[r].episode <= episode' BY <1>t, <2>1, <2>3 DEF RoundSound
  <2>5. Current(r)' => Current(r) /\ episode' = episode
    BY <1>1, <1>t, <2>1, <2>3 DEF Current, HasRead, RoundSound
  <2> QED BY <1>1, <2>1, <2>2, <2>3, <2>4, <2>5 DEF RoundSound
<1>6. ChecksAlone'
  <2> SUFFICES ASSUME ~excused, ~check.claims PROVE ChecksAlone' BY <1>1 DEF ChecksAlone
  <2>1. \A r \in Rounds : RoundAlone(r)' 
    <3> TAKE r \in Rounds
    <3>1. RoundAlone(r) /\ RoundSound(r) BY DEF AlertInv, ChecksAlone
    <3>2. CASE episode' = episode + 1
      <4>1. ~Current(r)' /\ alerted' = {} /\ HasRead(r)' = HasRead(r)
        BY <1>1, <1>2, <1>t, <3>1, <3>2 DEF Current, HasRead, RoundSound
      <4> QED BY <1>1, <1>3, <1>t, <3>1, <4>1 DEF RoundAlone
    <3>3. CASE episode' = episode
      <4>1. UNCHANGED alerted BY <1>2, <1>t, <3>3
      <4>2. round[r].pc = "flag" => flag' = flag
        BY <1>2, <1>t, <3>1, <3>3, CheckKinds DEF AlertInv, AlertTypeOK, RoundSound
      <4> QED BY <1>1, <1>3, <1>t, <3>1, <3>3, <4>1, <4>2 DEF RoundAlone, HasRead, Current, Covered
    <3> QED BY <1>2, <1>t, <3>2, <3>3
  <2>2. level' > check.low /\ (\A r \in Rounds : round[r].pc # "set") => Covered(flag)'
    BY <1>2, <1>t DEF AlertInv, ChecksAlone, Covered, CheckKind
  <2> QED BY <1>1, <2>1, <2>2 DEF AlertInv, ChecksAlone
<1>7. ClaimsExclude'
  <2> SUFFICES ASSUME check.claims PROVE ClaimsExclude' BY <1>1 DEF ClaimsExclude
  <2>1. check # Kev BY CheckKinds DEF AlertInv, AlertTypeOK
  <2>2. CASE episode' = episode + 1
    <3>1. \A r \in Rounds : ~Current(r)' 
      BY <1>1, <1>t, <2>2 DEF AlertInv, RoundSound, Current, HasRead
    <3> QED BY <1>1, <1>2, <1>t, <2>2, <3>1 DEF AlertInv, ClaimsExclude
  <2>3. CASE UNCHANGED <<episode, alerted, flag>>
    BY <1>1, <2>3 DEF AlertInv, ClaimsExclude, Current, HasRead
  <2> QED BY <1>2, <2>1, <2>2, <2>3
<1>8. CleanEpisode'
  <2> SUFFICES ASSUME clean' PROVE CleanEpisode' BY DEF CleanEpisode
  <2>1. CASE episode' = episode + 1
    <3>1. episode' # episode BY <1>t, <2>1
    <3>2. flag' = 0 /\ Idle BY <1>2, <3>1
    <3>3. \A r \in Rounds : round'[r].pc = "idle" BY <1>1, <3>2 DEF Idle
    <3> QED BY <3>2, <3>3 DEF CleanEpisode, HasRead
  <2>2. CASE UNCHANGED <<episode, alerted, clean>>
    BY <1>1, <1>3, <2>2 DEF AlertInv, CleanEpisode, Current, HasRead
  <2> QED BY <1>2, <2>1, <2>2
<1> QED BY <1>4, <1>5, <1>6, <1>7, <1>8, <1>1 DEF AlertInv

(***************************************************************************)
(* A check moves to x. What is left to show of each of its steps.          *)
(***************************************************************************)

LEMMA RoundMoves ==
  ASSUME AlertInv, NEW r \in Rounds, NEW x \in RoundStates, round' = [round EXCEPT ![r] = x],
         UNCHANGED <<check, level, episode>>
  PROVE  /\ round' \in [Rounds -> RoundStates]
         /\ round'[r] = x /\ \A u \in Rounds \ {r} : round'[u] = round[u]
         /\ RoundSound(r)' => \A u \in Rounds : RoundSound(u)'
<1>1. round' \in [Rounds -> RoundStates] /\ round'[r] = x /\ \A u \in Rounds \ {r} : round'[u] = round[u]
  BY AlertTypes DEF AlertInv
<1>2. \A u \in Rounds \ {r} : RoundSound(u)'
  BY <1>1 DEF AlertInv, RoundSound, HasRead, Current, Fires
<1> QED BY <1>1, <1>2

LEMMA AloneMoves ==
  ASSUME AlertInv, NEW r \in Rounds, NEW x \in RoundStates, round' = [round EXCEPT ![r] = x],
         UNCHANGED <<check, level, episode>>, excused => excused',
         ~excused' => round[r].pc # "idle" \/ Idle,
         ~excused' /\ ~check.claims =>
            /\ RoundAlone(r)' /\ ~repeated'
            /\ level > check.low /\ x.pc # "set" => Covered(flag)'
  PROVE  ChecksAlone'
<1> SUFFICES ASSUME ~excused', ~check.claims PROVE ChecksAlone' BY DEF ChecksAlone
<1>1. /\ round'[r] = x /\ \A u \in Rounds \ {r} : round'[u] = round[u]
  BY RoundMoves
<1>2. \A u \in Rounds \ {r} : round'[u].pc = "idle"
  BY <1>1 DEF AlertInv, ChecksAlone, Idle
<1>3. \A u \in Rounds \ {r} : RoundAlone(u)' BY <1>2 DEF RoundAlone, HasRead, Current
<1>4. \A u \in Rounds : RoundAlone(u)' BY <1>3
<1>5. level > check.low /\ (\A u \in Rounds : round'[u].pc # "set") => Covered(flag)' BY <1>1
<1> QED BY <1>2, <1>4, <1>5 DEF ChecksAlone

\* Unless a check raises its alert or claims, it leaves the claims as they are.
LEMMA ClaimsStay ==
  ASSUME AlertInv, NEW r \in Rounds, NEW x \in RoundStates, round' = [round EXCEPT ![r] = x],
         UNCHANGED <<check, level, episode>>,
         check.claims => x.pc \notin {"set", "alert"} /\ UNCHANGED <<flag, alerted, repeated>>
  PROVE  ClaimsExclude'
<1> SUFFICES ASSUME check.claims PROVE ClaimsExclude' BY DEF ClaimsExclude
<1>1. round'[r] = x /\ \A u \in Rounds \ {r} : round'[u] = round[u] BY RoundMoves
<1>2. \A u \in Rounds : round'[u].pc = "alert" /\ Current(u)' => u # r /\ round[u].pc = "alert" /\ Current(u)
  BY <1>1 DEF Current, HasRead
<1> QED BY <1>1, <1>2 DEF AlertInv, ClaimsExclude

\* Nor does it change what a clean episode is, if it leaves the flag alone or
\* clears it.
LEMMA CleanStays ==
  ASSUME AlertInv, NEW r \in Rounds, NEW x \in RoundStates, round' = [round EXCEPT ![r] = x],
         UNCHANGED <<check, level, episode, alerted, clean>>, cut => cut',
         flag' # 0 => flag # 0,
         clean /\ HasRead(r)' => Current(r)',
         clean /\ ~check.marks => x.pc # "set",
         clean /\ round[r].pc = "alert" /\ check.claims => cut'
  PROVE  CleanEpisode'
<1> SUFFICES ASSUME clean PROVE CleanEpisode' BY DEF CleanEpisode
<1>1. round'[r] = x /\ \A u \in Rounds \ {r} : round'[u] = round[u] BY RoundMoves
<1>2. \A u \in Rounds \ {r} : (HasRead(u)' <=> HasRead(u)) /\ (Current(u)' <=> Current(u))
  BY <1>1 DEF HasRead, Current
<1>3. \A u \in Rounds : HasRead(u)' => Current(u)' BY <1>2 DEF AlertInv, CleanEpisode
<1>4. ASSUME ~check.marks
      PROVE  /\ \A u \in Rounds : round'[u].pc = "set" => alerted # {}
             /\ flag' # 0 /\ ~cut' =>
                  \/ alerted # {}
                  \/ check.claims /\ \E u \in Rounds : round'[u].pc = "alert" /\ Current(u)'
  <2>1. \A u \in Rounds : round'[u].pc = "set" => alerted # {} BY <1>1, <1>4 DEF AlertInv, CleanEpisode
  <2>2. ASSUME flag' # 0, ~cut', alerted = {}
        PROVE  check.claims /\ \E u \in Rounds : round'[u].pc = "alert" /\ Current(u)'
    <3>1. check.claims BY <1>4, <2>2 DEF AlertInv, CleanEpisode
    <3>2. PICK u \in Rounds : round[u].pc = "alert" /\ Current(u) BY <1>4, <2>2 DEF AlertInv, CleanEpisode
    <3>3. u # r BY <2>2, <3>1, <3>2
    <3> QED BY <1>1, <1>2, <3>1, <3>2, <3>3
  <2> QED BY <2>1, <2>2
<1> QED BY <1>3, <1>4 DEF CleanEpisode

LEMMA AlertTypeMoves ==
  ASSUME AlertInv, NEW r \in Rounds, NEW x \in RoundStates, round' = [round EXCEPT ![r] = x],
         UNCHANGED <<check, level, episode>>,
         flag' \in Level, flag' = 1 => check.grows, checkFaults' \in 0 .. MaxCheckFaults,
         alerted' \in SUBSET {1, 2}, alerted' # {} => ever',
         {ever, repeated, excused, cut, clean}' \subseteq BOOLEAN
  PROVE  AlertTypeOK'
BY RoundMoves DEF AlertInv, AlertTypeOK, RoundStates

\* The reads of a check.
LEMMA StartStep == ASSUME AlertInv, NEW r \in Rounds, StartCheck(r) PROVE AlertInv'
<1> DEFINE x == CASE check.reads = "both" -> [pc |-> "decide", level |-> level, flag |-> flag, episode |-> episode]
                  [] check.reads = "level" -> [Quiet EXCEPT !.pc = "flag", !.level = level, !.episode = episode]
                  [] check.reads = "flag" -> [Quiet EXCEPT !.pc = "level", !.flag = flag]
<1>1. /\ round[r].pc = "idle" /\ round' = [round EXCEPT ![r] = x]
      /\ UNCHANGED <<check, level, episode, flag, checkFaults, alerted, ever, repeated, cut, clean>>
  BY DEF StartCheck
<1>2. (excused => excused') /\ (~excused' => Idle) /\ excused' \in BOOLEAN
  BY DEF StartCheck
<1>t. CheckKind(check) /\ level \in Level /\ flag \in Level /\ episode \in 0 .. MaxEpisodes /\ MaxEpisodes \in Nat
  BY CheckKinds, CheckAssumption DEF AlertInv, AlertTypeOK
<1>3. /\ x \in RoundStates /\ x.pc \in {"decide", "flag", "level"}
      /\ x.pc # "level" => x.level = level /\ x.episode = episode
      /\ x.pc = "level" => x.episode = 0
      /\ x.pc # "flag" => x.flag = flag
      /\ x.pc = "flag" => check.reads = "level"
  <2>1. CASE check.reads = "both" BY <1>t, <2>1 DEF RoundStates, Level
  <2>2. CASE check.reads = "level"
    <3>1. x = [pc |-> "flag", level |-> level, flag |-> 0, episode |-> episode] BY <2>2 DEF Quiet
    <3> HIDE DEF x
    <3> QED BY <1>t, <2>2, <3>1 DEF RoundStates, Level
  <2>3. CASE check.reads = "flag"
    <3>1. x = [pc |-> "level", level |-> 0, flag |-> flag, episode |-> 0] BY <2>3 DEF Quiet
    <3> HIDE DEF x
    <3> QED BY <1>t, <2>3, <3>1 DEF RoundStates, Level
  <2> QED BY <1>t, <2>1, <2>2, <2>3 DEF CheckKind
<1> HIDE DEF x
<1>4. round'[r] = x BY <1>1, <1>3, RoundMoves
<1>5. RoundSound(r)' BY <1>1, <1>3, <1>4, <1>t, AlertTypes DEF AlertInv, RoundSound, Current, HasRead
<1>6. \A u \in Rounds : RoundSound(u)' BY <1>1, <1>3, <1>5, RoundMoves
<1>7. ASSUME ~excused', ~check.claims
      PROVE /\ RoundAlone(r)' /\ ~repeated'
            /\ level > check.low /\ x.pc # "set" => Covered(flag)'
  <2>1. ~repeated /\ (level > check.low => Covered(flag))
    <3>1. \A u \in Rounds : round[u].pc # "set" BY <1>2, <1>7 DEF Idle
    <3> QED BY <1>2, <1>7, <3>1 DEF AlertInv, ChecksAlone
  <2>2. Covered(flag)' <=> Covered(flag) BY <1>1 DEF Covered
  <2>3. Covered(round[r].flag)' <=> Covered(x.flag) BY <1>1, <1>4 DEF Covered
  <2>4. RoundAlone(r)'
    BY <1>1, <1>3, <1>4, <1>t, <2>1, <2>2, <2>3, AlertTypes DEF AlertInv, RoundAlone, HasRead, Current
  <2> QED BY <1>1, <2>1, <2>2, <2>4
<1>8. ChecksAlone' BY <1>1, <1>2, <1>3, <1>7, AloneMoves
<1>9. ClaimsExclude' BY <1>1, <1>3, ClaimsStay
<1>10. CleanEpisode'
  <2>1. HasRead(r)' => Current(r)' BY <1>1, <1>3, <1>4 DEF HasRead, Current
  <2> QED BY <1>1, <1>3, <2>1, CleanStays
<1>11. AlertTypeOK'
  <2>1. {ever, repeated, excused, cut, clean}' \subseteq BOOLEAN BY <1>1, <1>2 DEF AlertInv, AlertTypeOK
  <2> QED BY <1>1, <1>3, <2>1, AlertTypeMoves DEF AlertInv, AlertTypeOK
<1> QED BY <1>6, <1>8, <1>9, <1>10, <1>11 DEF AlertInv

LEMMA ReadStepOfCheck == ASSUME AlertInv, NEW r \in Rounds, ReadSecond(r) PROVE AlertInv'
<1>t. /\ CheckKind(check) /\ level \in Level /\ flag \in Level /\ episode \in 0 .. MaxEpisodes /\ MaxEpisodes \in Nat
      /\ round[r] \in RoundStates
  BY AlertTypes, CheckKinds, CheckAssumption DEF AlertInv, AlertTypeOK
<1> DEFINE x == IF round[r].pc = "flag" THEN [round[r] EXCEPT !.pc = "decide", !.flag = flag]
                ELSE [round[r] EXCEPT !.pc = "decide", !.level = level, !.episode = episode]
<1>1. /\ round[r].pc \in {"flag", "level"} /\ round' = [round EXCEPT ![r] = x]
      /\ UNCHANGED <<check, level, episode, flag, checkFaults, alerted, ever, repeated, excused, cut, clean>>
  <2>1. round \in [Rounds -> RoundStates] BY AlertTypes DEF AlertInv
  <2> QED BY <2>1 DEF ReadSecond
<1>3. /\ x \in RoundStates /\ x.pc = "decide"
      /\ round[r].pc = "flag" => x.level = round[r].level /\ x.episode = round[r].episode /\ x.flag = flag
      /\ round[r].pc = "level" => x.level = level /\ x.episode = episode /\ x.flag = round[r].flag
  BY <1>1, <1>t DEF RoundStates
<1> HIDE DEF x
<1>4. round'[r] = x BY <1>1, <1>3, RoundMoves
<1>s. RoundSound(r) BY DEF AlertInv
<1>5. RoundSound(r)' BY <1>1, <1>3, <1>4, <1>t, <1>s, AlertTypes DEF AlertInv, RoundSound, Current, HasRead
<1>6. \A u \in Rounds : RoundSound(u)' BY <1>1, <1>3, <1>5, RoundMoves
<1>7. ASSUME ~excused', ~check.claims
      PROVE /\ RoundAlone(r)' /\ ~repeated'
            /\ level > check.low /\ x.pc # "set" => Covered(flag)'
  <2>1. RoundAlone(r) /\ ~repeated /\ (level > check.low => Covered(flag))
    <3>1. \A u \in Rounds : u # r => round[u].pc = "idle" BY <1>1, <1>7 DEF AlertInv, ChecksAlone
    <3>2. \A u \in Rounds : round[u].pc # "set" BY <1>1, <3>1
    <3> QED BY <1>1, <1>7, <3>2 DEF AlertInv, ChecksAlone
  <2>2. Covered(flag)' <=> Covered(flag) BY <1>1 DEF Covered
  <2>3. HasRead(r)' /\ (Current(r)' <=> x.episode = episode) BY <1>1, <1>3, <1>4 DEF HasRead, Current
  <2>4. HasRead(r)' /\ ~Current(r)' => alerted' = {}
    BY <1>1, <1>3, <2>1, <2>3 DEF RoundAlone, HasRead, Current
  <2>5. x.episode = episode /\ x.level > check.low => Covered(x.flag)
    <3>1. CASE round[r].pc = "flag" BY <1>3, <2>1, <3>1 DEF RoundAlone, HasRead, Current
    <3>2. CASE round[r].pc = "level"
      <4>1. flag <= round[r].flag BY <2>1, <3>2 DEF RoundAlone
      <4>2. flag \in 0 .. 2 /\ x.flag \in 0 .. 2 /\ alerted \subseteq {1, 2}
        BY <1>3, <1>t DEF AlertInv, AlertTypeOK, RoundStates, Level
      <4> QED BY <1>3, <2>1, <3>2, <4>1, <4>2 DEF Covered
    <3> QED BY <1>1, <3>1, <3>2
  <2>6. Covered(round[r].flag)' <=> Covered(x.flag) BY <1>1, <1>4 DEF Covered
  <2>7. RoundAlone(r)' BY <1>1, <1>3, <1>4, <2>3, <2>4, <2>5, <2>6 DEF RoundAlone
  <2> QED BY <1>1, <2>1, <2>2, <2>7
<1>8. ChecksAlone' BY <1>1, <1>3, <1>7, AloneMoves
<1>9. ClaimsExclude' BY <1>1, <1>3, ClaimsStay
<1>10. CleanEpisode'
  <2>1. clean => Current(r)'
    BY <1>1, <1>3, <1>4 DEF AlertInv, CleanEpisode, HasRead, Current
  <2> QED BY <1>1, <1>3, <2>1, CleanStays
<1>11. AlertTypeOK'
  <2>1. {ever, repeated, excused, cut, clean}' \subseteq BOOLEAN BY <1>1 DEF AlertInv, AlertTypeOK
  <2> QED BY <1>1, <1>3, <2>1, AlertTypeMoves DEF AlertInv, AlertTypeOK
<1> QED BY <1>6, <1>8, <1>9, <1>10, <1>11 DEF AlertInv

\* A check goes on with what it has read.
LEMMA GoesOn ==
  ASSUME AlertInv, NEW r \in Rounds,
         NEW p \in {"idle", "level", "flag", "decide", "claim", "alert", "set", "clear"}
  PROVE  LET x == [round[r] EXCEPT !.pc = p]
         IN  /\ x \in RoundStates /\ x.pc = p
             /\ x.level = round[r].level /\ x.flag = round[r].flag /\ x.episode = round[r].episode
             /\ [round EXCEPT ![r].pc = p] = [round EXCEPT ![r] = x]
<1>1. round \in [Rounds -> RoundStates] /\ round[r] \in RoundStates BY AlertTypes DEF AlertInv
<1> QED BY <1>1 DEF RoundStates

LEMMA DecideStep == ASSUME AlertInv, NEW r \in Rounds, Decide(r) PROVE AlertInv'
<1>t. /\ CheckKind(check) /\ level \in 0 .. 2 /\ flag \in 0 .. 2 /\ alerted \subseteq {1, 2}
      /\ round[r].level \in 0 .. 2 /\ round[r].flag \in 0 .. 2
  BY AlertTypes DEF AlertInv, AlertTypeOK
<1> DEFINE p == CASE Fires(round[r]) -> IF check.claims THEN "claim" ELSE "alert"
                  [] Marks(round[r]) -> "set"
                  [] OTHER -> "clear"
<1>1. /\ round[r].pc = "decide" /\ round' = [round EXCEPT ![r].pc = p]
      /\ UNCHANGED <<check, level, episode, flag, checkFaults, alerted, ever, repeated, excused, cut, clean>>
  BY DEF Decide
<1>2. /\ p \in {"claim", "alert", "set", "clear"}
      /\ p \in {"claim", "alert"} => Fires(round[r])
      /\ p = "claim" => check.claims
      /\ p = "alert" => ~check.claims
      /\ p = "set" => Marks(round[r]) /\ check.marks
  <2>1. CASE Fires(round[r])
    <3>0. ~Marks(round[r]) BY <1>t, <2>1 DEF Fires, Marks, CheckKind
    <3>1. p = IF check.claims THEN "claim" ELSE "alert" BY <2>1, <3>0
    <3> HIDE DEF p
    <3> QED BY <2>1, <3>1
  <2>2. CASE ~Fires(round[r]) /\ Marks(round[r])
    <3>1. p = "set" BY <2>2
    <3> HIDE DEF p
    <3> QED BY <2>2, <3>1 DEF Marks
  <2>3. CASE ~Fires(round[r]) /\ ~Marks(round[r])
    <3>1. p = "clear" BY <2>3
    <3> HIDE DEF p
    <3> QED BY <3>1
  <2> QED BY <2>1, <2>2, <2>3
<1> HIDE DEF p
<1> DEFINE x == [round[r] EXCEPT !.pc = p]
<1>3. /\ x \in RoundStates /\ round' = [round EXCEPT ![r] = x] /\ x.pc = p
      /\ x.level = round[r].level /\ x.flag = round[r].flag /\ x.episode = round[r].episode
  <2>1. p \in {"idle", "level", "flag", "decide", "claim", "alert", "set", "clear"} BY <1>2
  <2>2. round' = [round EXCEPT ![r].pc = p] BY <1>1
  <2> HIDE DEF p
  <2> QED BY <2>1, <2>2, GoesOn, ZenonT(60)
<1> HIDE DEF x
<1>4. round'[r] = x BY <1>1, <1>3, RoundMoves
<1>5. HasRead(r) /\ HasRead(r)' /\ (Current(r)' <=> Current(r))
  BY <1>1, <1>2, <1>3, <1>4 DEF HasRead, Current
<1>6. \A u \in Rounds : RoundSound(u)'
  <2>1. Fires(round[r])' <=> Fires(round[r]) BY <1>1, <1>3, <1>4 DEF Fires
  <2>2. RoundSound(r)' BY <1>1, <1>2, <1>3, <1>4, <1>5, <2>1 DEF AlertInv, RoundSound
  <2> QED BY <1>1, <1>3, <2>2, RoundMoves
<1>7. ASSUME ~excused', ~check.claims
      PROVE /\ RoundAlone(r)' /\ ~repeated'
            /\ level > check.low /\ x.pc # "set" => Covered(flag)'
  <2>1. RoundAlone(r) /\ ~repeated /\ (level > check.low => Covered(flag))
    <3>1. \A u \in Rounds : u # r => round[u].pc = "idle" BY <1>1, <1>7 DEF AlertInv, ChecksAlone
    <3>2. \A u \in Rounds : round[u].pc # "set" BY <1>1, <3>1
    <3> QED BY <1>1, <1>7, <3>2 DEF AlertInv, ChecksAlone
  <2>2. Covered(flag)' <=> Covered(flag) BY <1>1 DEF Covered
  <2>3. Current(r) /\ round[r].level > check.low => Covered(round[r].flag)
    BY <1>1, <2>1 DEF RoundAlone
  <2>4. Covered(round[r].flag)' <=> Covered(round[r].flag) BY <1>1, <1>3, <1>4 DEF Covered
  <2>5. x.pc = "set" /\ Current(r) /\ round[r].level > check.low => Covered(round[r].level)'
    BY <1>1, <1>2, <1>3, <1>4, <1>t, <2>3 DEF Marks, Covered
  <2>6. RoundAlone(r)'
    BY <1>1, <1>2, <1>3, <1>4, <1>5, <2>1, <2>3, <2>4, <2>5 DEF RoundAlone
  <2> QED BY <1>1, <2>1, <2>2, <2>6
<1>8. ChecksAlone' BY <1>1, <1>3, <1>7, AloneMoves
<1>9. ClaimsExclude'
  <2>1. check.claims => x.pc \notin {"set", "alert"} BY <1>2, <1>3, <1>t DEF CheckKind
  <2> QED BY <1>1, <1>3, <2>1, ClaimsStay
<1>10. CleanEpisode'
  <2>1. clean => Current(r)' BY <1>5 DEF AlertInv, CleanEpisode
  <2> QED BY <1>1, <1>2, <1>3, <2>1, CleanStays
<1>11. AlertTypeOK'
  <2>1. {ever, repeated, excused, cut, clean}' \subseteq BOOLEAN BY <1>1 DEF AlertInv, AlertTypeOK
  <2> QED BY <1>1, <1>3, <2>1, AlertTypeMoves DEF AlertInv, AlertTypeOK
<1> QED BY <1>6, <1>8, <1>9, <1>10, <1>11 DEF AlertInv

LEMMA ClaimStep == ASSUME AlertInv, NEW r \in Rounds, Claim(r) PROVE AlertInv'
<1>t. /\ CheckKind(check) /\ flag \in Level
  BY AlertTypes DEF AlertInv, AlertTypeOK
<1> DEFINE free == round[r].episode # episode \/ flag = 0
<1> DEFINE p == IF free THEN "alert" ELSE "idle"
<1>1. /\ round[r].pc = "claim" /\ round' = [round EXCEPT ![r].pc = p]
      /\ flag' = IF free /\ round[r].episode = episode THEN 2 ELSE flag
      /\ UNCHANGED <<check, level, episode, checkFaults, alerted, ever, repeated, excused, cut, clean>>
  BY DEF Claim
<1>2. p \in {"alert", "idle"} /\ (p = "alert" <=> free) OBVIOUS
<1> DEFINE x == [round[r] EXCEPT !.pc = p]
<1>3. /\ x \in RoundStates /\ round' = [round EXCEPT ![r] = x] /\ x.pc = p
      /\ x.level = round[r].level /\ x.flag = round[r].flag /\ x.episode = round[r].episode
  <2>1. p \in {"idle", "level", "flag", "decide", "claim", "alert", "set", "clear"} BY <1>2
  <2>2. round' = [round EXCEPT ![r].pc = p] BY <1>1
  <2> HIDE DEF p
  <2> QED BY <2>1, <2>2, GoesOn, ZenonT(60)
<1> HIDE DEF p, x
<1>4. round'[r] = x /\ \A u \in Rounds \ {r} : round'[u] = round[u] BY <1>1, <1>3, RoundMoves
<1>c. check.claims /\ ~check.marks /\ Fires(round[r]) /\ HasRead(r)
  BY <1>1, <1>t DEF AlertInv, RoundSound, HasRead, CheckKind
<1>5. p = "alert" => HasRead(r)' /\ (Current(r)' <=> Current(r))
  BY <1>1, <1>3, <1>4, <1>c DEF HasRead, Current
<1>6. \A u \in Rounds : RoundSound(u)'
  <2>1. Fires(round[r])' <=> Fires(round[r]) BY <1>1, <1>3, <1>4 DEF Fires
  <2>2. RoundSound(r)' BY <1>1, <1>2, <1>3, <1>4, <1>5, <1>c, <2>1 DEF AlertInv, RoundSound, HasRead, Current
  <2> QED BY <1>1, <1>3, <2>2, RoundMoves
<1>8. ChecksAlone' BY <1>1, <1>3, <1>c, AloneMoves
<1>9. ClaimsExclude'
  <2>1. \A u \in Rounds \ {r} : (Current(u)' <=> Current(u)) BY <1>1, <1>4 DEF Current, HasRead
  <2>2. CASE free /\ round[r].episode = episode
    <3>1. flag = 0 /\ flag' = 2 /\ alerted = {} BY <1>1, <1>c, <2>2 DEF AlertInv, ClaimsExclude
    <3>2. \A u \in Rounds : ~(round[u].pc = "alert" /\ Current(u))
      BY <1>c, <3>1 DEF AlertInv, ClaimsExclude
    <3>3. \A u \in Rounds : round'[u].pc = "alert" /\ Current(u)' => u = r BY <1>4, <2>1, <3>2
    <3> QED BY <1>1, <1>2, <1>3, <1>4, <1>c, <3>1, <3>3 DEF AlertInv, ClaimsExclude
  <2>3. CASE ~(free /\ round[r].episode = episode)
    <3>1. flag' = flag BY <1>1, <2>3
    <3>2. ~(round'[r].pc = "alert" /\ Current(r)')
      BY <1>1, <1>2, <1>3, <1>4, <2>3 DEF Current
    <3>3. \A u \in Rounds : round'[u].pc = "alert" /\ Current(u)' => u # r /\ round[u].pc = "alert" /\ Current(u)
      BY <1>4, <2>1, <3>2
    <3> QED BY <1>1, <1>2, <1>3, <1>4, <1>c, <3>1, <3>3 DEF AlertInv, ClaimsExclude
  <2> QED BY <2>2, <2>3
<1>10. CleanEpisode'
  <2> SUFFICES ASSUME clean PROVE CleanEpisode' BY <1>1 DEF CleanEpisode
  <2>1. Current(r) /\ round[r].episode = episode BY <1>c DEF AlertInv, CleanEpisode, Current
  <2>2. \A u \in Rounds \ {r} : (HasRead(u)' <=> HasRead(u)) /\ (Current(u)' <=> Current(u))
    BY <1>1, <1>4 DEF Current, HasRead
  <2>3. \A u \in Rounds : HasRead(u)' => Current(u)'
    BY <1>2, <1>3, <1>4, <1>5, <2>1, <2>2 DEF AlertInv, CleanEpisode, HasRead
  <2>4. \A u \in Rounds : round'[u].pc # "set"
    BY <1>2, <1>3, <1>4, <1>c DEF AlertInv, ClaimsExclude
  <2>5. CASE p = "alert"
    <3>1. round'[r].pc = "alert" /\ Current(r)' BY <1>3, <1>4, <1>5, <2>1, <2>5
    <3> QED BY <1>1, <1>c, <2>3, <2>4, <3>1 DEF CleanEpisode
  <2>6. CASE p = "idle"
    <3>1. flag # 0 /\ flag' = flag BY <1>1, <1>2, <2>6
    <3>2. ASSUME ~cut, alerted = {} PROVE \E u \in Rounds : round'[u].pc = "alert" /\ Current(u)'
      <4>1. PICK u \in Rounds : round[u].pc = "alert" /\ Current(u)
        BY <1>c, <3>1, <3>2 DEF AlertInv, CleanEpisode
      <4>2. u # r BY <1>1, <4>1
      <4> QED BY <1>4, <2>2, <4>1, <4>2
    <3> QED BY <1>1, <1>c, <2>3, <2>4, <3>2 DEF CleanEpisode
  <2> QED BY <1>2, <2>5, <2>6
<1>11. AlertTypeOK'
  <2>1. {ever, repeated, excused, cut, clean}' \subseteq BOOLEAN BY <1>1 DEF AlertInv, AlertTypeOK
  <2>2. flag' \in Level /\ (flag' = 1 => check.grows) BY <1>1, <1>t DEF AlertInv, AlertTypeOK, Level
  <2> QED BY <1>1, <1>3, <2>1, <2>2, AlertTypeMoves DEF AlertInv, AlertTypeOK
<1> QED BY <1>6, <1>8, <1>9, <1>10, <1>11 DEF AlertInv

LEMMA RaiseStep == ASSUME AlertInv, NEW r \in Rounds, RaiseAlert(r) PROVE AlertInv'
<1>t. /\ CheckKind(check) /\ flag \in Level /\ alerted \subseteq {1, 2}
      /\ round[r].level \in 0 .. 2 /\ round[r].flag \in 0 .. 2
  BY AlertTypes DEF AlertInv, AlertTypeOK
<1> DEFINE p == IF check.claims THEN "clear" ELSE "set"
<1>1. /\ round[r].pc = "alert" /\ round' = [round EXCEPT ![r].pc = p] /\ ever' = TRUE
      /\ UNCHANGED <<check, level, episode, flag, checkFaults, excused, cut, clean>>
  BY DEF RaiseAlert
<1>2. p \in {"clear", "set"} /\ (p = "clear" <=> check.claims) OBVIOUS
<1> DEFINE x == [round[r] EXCEPT !.pc = p]
<1> HIDE DEF p
<1>3. /\ x \in RoundStates /\ round' = [round EXCEPT ![r] = x] /\ x.pc = p
      /\ x.level = round[r].level /\ x.flag = round[r].flag /\ x.episode = round[r].episode
  <2>1. p \in {"idle", "level", "flag", "decide", "claim", "alert", "set", "clear"} BY <1>2
  <2>2. round' = [round EXCEPT ![r].pc = p] BY <1>1
  <2> QED BY <2>1, <2>2, GoesOn, ZenonT(60)
<1> HIDE DEF x
<1>4. round'[r] = x /\ \A u \in Rounds \ {r} : round'[u] = round[u] BY <1>1, <1>3, RoundMoves
<1>5. HasRead(r) /\ HasRead(r)' /\ (Current(r)' <=> Current(r))
  BY <1>1, <1>2, <1>3, <1>4 DEF HasRead, Current
<1>6. Fires(round[r]) /\ round[r].level \in {1, 2} /\ round[r].level > round[r].flag /\ round[r].level > check.low
  BY <1>1, <1>t DEF AlertInv, RoundSound, Fires, CheckKind
<1>7. \/ /\ Current(r) /\ alerted' = alerted \cup {round[r].level}
         /\ repeated' => repeated \/ \E l \in alerted : l >= round[r].level
         /\ repeated' \in BOOLEAN
      \/ ~Current(r) /\ UNCHANGED <<alerted, repeated>>
  <2>1. CASE round[r].episode = episode
    <3>1. alerted' = alerted \cup {round[r].level}
          /\ repeated' = (repeated \/ \E l \in alerted : l >= round[r].level)
      BY <2>1 DEF RaiseAlert
    <3> QED BY <1>5, <2>1, <3>1 DEF Current
  <2>2. CASE round[r].episode # episode
    BY <2>2 DEF RaiseAlert, Current
  <2> QED BY <2>1, <2>2
<1>8. \A u \in Rounds : RoundSound(u)'
  <2>1. RoundSound(r)' BY <1>1, <1>2, <1>3, <1>4, <1>5 DEF AlertInv, RoundSound
  <2> QED BY <1>1, <1>3, <2>1, RoundMoves
<1>9. ChecksAlone'
  <2>1. ASSUME ~excused', ~check.claims
        PROVE /\ RoundAlone(r)' /\ ~repeated'
              /\ level > check.low /\ x.pc # "set" => Covered(flag)'
    <3>1. RoundAlone(r) /\ ~repeated BY <1>1, <2>1 DEF AlertInv, ChecksAlone
    <3>2. x.pc = "set" BY <1>2, <1>3, <2>1
    <3>3. CASE Current(r)
      <4>1. Covered(round[r].flag) BY <1>1, <1>6, <3>1, <3>3 DEF RoundAlone
      <4>2. ASSUME NEW l \in alerted PROVE l < round[r].level
        <5>1. l <= round[r].flag BY <4>1 DEF Covered
        <5>2. l \in 0 .. 2 /\ round[r].flag \in 0 .. 2 /\ round[r].level \in 0 .. 2 BY <1>t
        <5> QED BY <1>6, <5>1, <5>2
      <4>3. ~repeated' BY <1>7, <1>t, <3>1, <3>3, <4>2
      <4>4. Covered(round[r].level)'
        <5>1. round'[r].level = round[r].level BY <1>3, <1>4
        <5>2. alerted' = alerted \cup {round[r].level} BY <1>7, <3>3
        <5>3. \A l \in alerted' : l \in 0 .. 2 BY <1>t, <5>2
        <5>4. \A l \in alerted' : l <= round[r].level
          <6> TAKE l \in alerted'
          <6>1. CASE l \in alerted
            <7>1. l < round[r].level BY <4>2, <6>1
            <7> QED BY <1>t, <5>3, <7>1
          <6>2. CASE l = round[r].level BY <1>t, <6>2
          <6> QED BY <5>2, <6>1, <6>2
        <5> QED BY <5>1, <5>4 DEF Covered
      <4>5. RoundAlone(r)' BY <1>3, <1>4, <1>5, <3>2, <3>3, <4>4 DEF RoundAlone
      <4> QED BY <3>2, <4>3, <4>5
    <3>4. CASE ~Current(r)
      <4>1. RoundAlone(r)' BY <1>3, <1>4, <1>5, <1>7, <3>1, <3>2, <3>4 DEF RoundAlone
      <4> QED BY <1>7, <3>1, <3>2, <3>4, <4>1
    <3> QED BY <3>3, <3>4
  <2> QED BY <1>1, <1>3, <2>1, AloneMoves
<1>10. ClaimsExclude'
  <2> SUFFICES ASSUME check.claims PROVE ClaimsExclude' BY <1>1 DEF ClaimsExclude
  <2>1. x.pc = "clear" BY <1>2, <1>3
  <2>2. \A u \in Rounds : round'[u].pc = "alert" /\ Current(u)' => u # r /\ round[u].pc = "alert" /\ Current(u)
    BY <1>1, <1>4, <2>1 DEF Current, HasRead
  <2>3. \A u \in Rounds : round'[u].pc # "set" BY <1>4, <2>1 DEF AlertInv, ClaimsExclude
  <2>4. CASE Current(r)
    <3>1. flag # 0 /\ alerted = {} BY <1>1, <2>4 DEF AlertInv, ClaimsExclude
    <3>2. ~repeated' BY <1>7, <2>4, <3>1 DEF AlertInv, ClaimsExclude
    <3>3. \A u \in Rounds : ~(round'[u].pc = "alert" /\ Current(u)')
      BY <1>1, <2>2, <2>4 DEF AlertInv, ClaimsExclude
    <3> QED BY <1>1, <2>3, <3>1, <3>2, <3>3 DEF ClaimsExclude
  <2>5. CASE ~Current(r)
    BY <1>1, <1>7, <2>2, <2>3, <2>5 DEF AlertInv, ClaimsExclude
  <2> QED BY <2>4, <2>5
<1>11. CleanEpisode'
  <2> SUFFICES ASSUME clean PROVE CleanEpisode' BY <1>1 DEF CleanEpisode
  <2>1. Current(r) BY <1>5 DEF AlertInv, CleanEpisode
  <2>2. alerted' # {} BY <1>7, <2>1
  <2>3. \A u \in Rounds : HasRead(u)' => Current(u)'
    BY <1>1, <1>4, <1>5, <2>1 DEF AlertInv, CleanEpisode, HasRead, Current
  <2> QED BY <2>2, <2>3 DEF CleanEpisode
<1>12. AlertTypeOK'
  <2>1. {ever, repeated, excused, cut, clean}' \subseteq BOOLEAN BY <1>1, <1>7 DEF AlertInv, AlertTypeOK
  <2>2. alerted' \in SUBSET {1, 2} BY <1>6, <1>7, <1>t
  <2> QED BY <1>1, <1>3, <2>1, <2>2, AlertTypeMoves DEF AlertInv, AlertTypeOK
<1> QED BY <1>8, <1>9, <1>10, <1>11, <1>12 DEF AlertInv

LEMMA SetStep == ASSUME AlertInv, NEW r \in Rounds, SetFlag(r) PROVE AlertInv'
<1>t. /\ CheckKind(check) /\ flag \in 0 .. 2 /\ level \in 0 .. 2 /\ alerted \subseteq {1, 2}
      /\ round[r].level \in 0 .. 2
  BY AlertTypes DEF AlertInv, AlertTypeOK
<1>1. /\ round[r].pc = "set" /\ round' = [round EXCEPT ![r].pc = "clear"]
      /\ flag' = IF check.keyed /\ round[r].episode # episode THEN 0
                 ELSE IF check.grows THEN round[r].level ELSE 2
      /\ UNCHANGED <<check, level, episode, checkFaults, alerted, ever, repeated, excused, cut, clean>>
  BY DEF SetFlag
<1> DEFINE x == [round[r] EXCEPT !.pc = "clear"]
<1>3. /\ x \in RoundStates /\ round' = [round EXCEPT ![r] = x] /\ x.pc = "clear"
      /\ x.level = round[r].level /\ x.flag = round[r].flag /\ x.episode = round[r].episode
  BY <1>1, GoesOn
<1> HIDE DEF x
<1>4. round'[r] = x /\ \A u \in Rounds \ {r} : round'[u] = round[u] BY <1>1, <1>3, RoundMoves
<1>5. HasRead(r) /\ HasRead(r)' /\ (Current(r)' <=> Current(r))
  BY <1>1, <1>3, <1>4 DEF HasRead, Current
<1>6. ~check.claims BY <1>1 DEF AlertInv, ClaimsExclude
<1>8. \A u \in Rounds : RoundSound(u)'
  <2>1. RoundSound(r)' BY <1>1, <1>3, <1>4, <1>5 DEF AlertInv, RoundSound
  <2> QED BY <1>1, <1>3, <2>1, RoundMoves
<1>9. ChecksAlone'
  <2>1. ASSUME ~excused'
        PROVE /\ RoundAlone(r)' /\ ~repeated'
              /\ level > check.low /\ x.pc # "set" => Covered(flag)'
    <3>1. RoundAlone(r) /\ RoundSound(r) /\ ~repeated BY <1>1, <1>6, <2>1 DEF AlertInv, ChecksAlone
    <3>2. RoundAlone(r)' BY <1>1, <1>3, <1>4, <1>5, <3>1 DEF RoundAlone
    <3>3. ASSUME level > check.low PROVE Covered(flag)'
      <4>1. CASE ~Current(r) BY <1>1, <1>5, <3>1, <4>1 DEF RoundAlone, Covered
      <4>2. CASE Current(r)
        <5>0. check.low \in {0, 1} BY <1>t DEF CheckKind
        <5>1. round[r].level > check.low BY <1>t, <3>1, <3>3, <4>2, <5>0 DEF RoundSound
        <5>2. Covered(round[r].level) BY <1>1, <3>1, <4>2, <5>1 DEF RoundAlone
        <5>3. flag' = IF check.grows THEN round[r].level ELSE 2 BY <1>1, <4>2 DEF Current
        <5> QED BY <1>1, <1>t, <5>2, <5>3 DEF Covered
      <4> QED BY <4>1, <4>2
    <3> QED BY <1>1, <3>1, <3>2, <3>3
  <2> QED BY <1>1, <1>3, <2>1, AloneMoves
<1>10. ClaimsExclude' BY <1>1, <1>6 DEF ClaimsExclude
<1>11. CleanEpisode'
  <2> SUFFICES ASSUME clean PROVE CleanEpisode' BY <1>1 DEF CleanEpisode
  <2>1. Current(r) BY <1>5 DEF AlertInv, CleanEpisode
  <2>2. ~check.marks => alerted' # {} BY <1>1 DEF AlertInv, CleanEpisode
  <2>3. \A u \in Rounds : HasRead(u)' => Current(u)'
    BY <1>1, <1>4, <1>5, <2>1 DEF AlertInv, CleanEpisode, HasRead, Current
  <2> QED BY <1>1, <2>2, <2>3 DEF CleanEpisode
<1>12. AlertTypeOK'
  <2>1. {ever, repeated, excused, cut, clean}' \subseteq BOOLEAN BY <1>1 DEF AlertInv, AlertTypeOK
  <2>2. flag' \in Level /\ (flag' = 1 => check.grows) BY <1>1, <1>t DEF Level
  <2> QED BY <1>1, <1>3, <2>1, <2>2, AlertTypeMoves DEF AlertInv, AlertTypeOK
<1> QED BY <1>8, <1>9, <1>10, <1>11, <1>12 DEF AlertInv

\* A check ends, or is cut off.
LEMMA EndOfCheckStep ==
  ASSUME AlertInv, NEW r \in Rounds, Clear(r) \/ CheckCut(r) PROVE AlertInv'
<1>t. CheckKind(check) /\ flag \in Level /\ level \in 0 .. 2 /\ round[r].level \in 0 .. 2
  BY AlertTypes DEF AlertInv, AlertTypeOK
<1>1. /\ round[r].pc # "idle" /\ round' = [round EXCEPT ![r] = Quiet]
      /\ UNCHANGED <<check, level, episode, alerted, ever, repeated, clean>>
  BY DEF Clear, CheckCut
<1>2. Quiet \in RoundStates /\ Quiet.pc = "idle" /\ Quiet.episode = 0 BY AlertTypes DEF AlertInv
<1>3. /\ checkFaults' \in 0 .. MaxCheckFaults /\ (excused => excused') /\ (cut => cut')
      /\ excused' \in BOOLEAN /\ cut' \in BOOLEAN
  <2>1. CASE Clear(r) BY <2>1 DEF Clear, AlertInv, AlertTypeOK
  <2>2. CASE CheckCut(r)
    <3>1. checkFaults' \in 0 .. MaxCheckFaults
      BY <2>2, CheckAssumption DEF CheckCut, AlertInv, AlertTypeOK
    <3> QED BY <2>2, <3>1 DEF CheckCut
  <2> QED BY <2>1, <2>2
<1>4. \/ flag' = flag
      \/ flag' = 0 /\ round[r].pc = "clear" /\ Over(round[r])
  BY DEF Clear, CheckCut
<1>5. round'[r] = Quiet BY <1>1, <1>2, RoundMoves
<1>6. ~HasRead(r)' /\ round'[r].pc = "idle" BY <1>2, <1>5 DEF HasRead
<1>8. \A u \in Rounds : RoundSound(u)'
  <2>1. episode \in Nat BY AlertTypes DEF AlertInv
  <2>2. RoundSound(r)' BY <1>1, <1>2, <1>5, <1>6, <2>1 DEF RoundSound, Current
  <2> QED BY <1>1, <1>2, <2>2, RoundMoves
<1>9. ChecksAlone'
  <2>1. ASSUME ~excused', ~check.claims
        PROVE /\ RoundAlone(r)' /\ ~repeated'
              /\ level > check.low /\ Quiet.pc # "set" => Covered(flag)'
    <3>0. ~excused BY <1>3, <2>1
    <3>1. RoundAlone(r) /\ RoundSound(r) /\ ~repeated BY <2>1, <3>0 DEF AlertInv, ChecksAlone
    <3>2. RoundAlone(r)' BY <1>6 DEF RoundAlone, Current
    <3>3. ASSUME level > check.low PROVE Covered(flag)'
      <4>1. CASE flag' = flag
        <5>1. round[r].pc # "set" BY <2>1 DEF Clear, CheckCut
        <5>2. \A u \in Rounds : round[u].pc # "set"
          BY <1>1, <2>1, <3>0, <5>1 DEF AlertInv, ChecksAlone
        <5>3. Covered(flag) BY <2>1, <3>0, <3>3, <5>2 DEF AlertInv, ChecksAlone
        <5> QED BY <1>1, <4>1, <5>3 DEF Covered
      <4>2. CASE round[r].pc = "clear" /\ Over(round[r])
        <5>0. check.low \in {0, 1} BY <1>t DEF CheckKind
        <5>1. round[r].level <= check.low BY <1>t, <3>3, <4>2, <5>0 DEF Over
        <5>2. HasRead(r) /\ ~Current(r) BY <1>t, <3>1, <3>3, <4>2, <5>0, <5>1 DEF RoundSound, HasRead
        <5> QED BY <1>1, <3>1, <5>2 DEF RoundAlone, Covered
      <4> QED BY <1>4, <4>1, <4>2
    <3> QED BY <1>1, <3>1, <3>2, <3>3
  <2> QED BY <1>1, <1>2, <1>3, <2>1, AloneMoves
<1>10. ClaimsExclude'
  <2>1. check.claims => flag' = flag BY <1>4, <1>t DEF Over, CheckKind
  <2> QED BY <1>1, <1>2, <2>1, ClaimsStay
<1>11. CleanEpisode'
  <2>1. clean /\ round[r].pc = "alert" /\ check.claims => cut' BY DEF Clear, CheckCut
  <2> QED BY <1>1, <1>2, <1>3, <1>4, <1>6, <2>1, CleanStays
<1>12. AlertTypeOK'
  <2>1. {ever, repeated, excused, cut, clean}' \subseteq BOOLEAN BY <1>1, <1>3 DEF AlertInv, AlertTypeOK
  <2>2. flag' \in Level /\ (flag' = 1 => check.grows) BY <1>4, <1>t DEF Level, AlertInv, AlertTypeOK
  <2> QED BY <1>1, <1>2, <1>3, <2>1, <2>2, AlertTypeMoves DEF AlertInv, AlertTypeOK
<1> QED BY <1>8, <1>9, <1>10, <1>11, <1>12 DEF AlertInv

LEMMA AlertInvStep == ASSUME AlertInv, [AlertNext]_alertVars PROVE AlertInv'
<1>1. CASE UNCHANGED alertVars
  BY <1>1 DEF alertVars, AlertInv, AlertTypeOK, RoundSound, RoundAlone, ChecksAlone, ClaimsExclude,
              CleanEpisode, HasRead, Current, Covered, Fires
<1>2. CASE AlertNext
  <2>1. CASE \E r \in Rounds : StartCheck(r) \/ CheckStep(r) \/ CheckCut(r)
    BY <2>1, StartStep, ReadStepOfCheck, DecideStep, ClaimStep, RaiseStep, SetStep, EndOfCheckStep
       DEF CheckStep
  <2>2. CASE (\E l \in Level : Changes(l)) \/ Delisted
    <3>1. 0 \in Level BY DEF Level
    <3> QED BY <2>2, <3>1, ConditionStep
  <2> QED BY <1>2, <2>1, <2>2 DEF AlertNext
<1> QED BY <1>1, <1>2

\* The type of the checks' variables is kept.
THEOREM AlertTypeCorrect == AlertSpec => []AlertTypeOK
<1>1. AlertInv => AlertTypeOK BY DEF AlertInv
<1> QED BY <1>1, AlertInvInit, AlertInvStep, PTL DEF AlertSpec

\* Of each of the twenty checks, for any number of them under way at once: an
\* episode is alerted once unless checks overlap or one is cut off, the backup
\* once without exception (operationalAlerts.ts:94-102, backup/schedule.ts:
\* 235-238), and no flag silences an episode that was not alerted.
THEOREM AlertsStayOnce == AlertSpec => []AlertedOnce
<1>1. ASSUME AlertInv PROVE AlertedOnce
  <2>1. OncePerEpisode BY <1>1 DEF AlertInv, ChecksAlone, ClaimsExclude, OncePerEpisode
  <2>2. NotSilenced BY <1>1 DEF AlertInv, CleanEpisode, Current, NotSilenced
  <2> QED BY <1>1, <2>1, <2>2 DEF AlertInv, AlertedOnce
<1> QED BY <1>1, AlertInvInit, AlertInvStep, PTL DEF AlertSpec

(***************************************************************************)
(* HostIngest. A result that has read which ports are open, and the later  *)
(* ones, know the openings that were under way then (raced); of all other  *)
(* ports what it read stays true of the results before it. While results   *)
(* do not overlap, the one under way is the latest, and what it has read   *)
(* is what is shown.                                                       *)
(***************************************************************************)

Sight == [at : Stamp, open : BOOLEAN]
ResultKind == [pc : {"none", "known", "read", "upsert", "commit", "tell", "done"},
               covers : SUBSET Ports, skips : SUBSET Ports,
               open : SUBSET Ports, finds : BOOLEAN, read : SUBSET Ports, new : BOOLEAN]

Looked(t) == res[t].pc \in {"upsert", "commit"}
Committed(t) == res[t].pc \in {"tell", "done"}
Active(t) == Under(t) \/ res[t].pc = "tell"

InOrder ==
    /\ \A s, t \in Results : t < s /\ res[s].pc # "none" => res[t].pc # "none"
    /\ \A p \in Ports, t \in Results : said[p].at = t => Committed(t)

\* Openings that a later result did not see are known.
RacesAreKnown ==
    \A s, t \in Results :
        t < s /\ Under(t) /\ (Looked(s) \/ \E p \in Ports : said[p].at = s) => res[t].open \subseteq raced

\* What is shown of a port is not newer than what was said of it; and if older,
\* it was said to be closed.
SightOf(p) ==
    /\ view[p].at <= said[p].at
    /\ view[p].at = said[p].at => view[p].open = said[p].open
    /\ view[p].at < said[p].at => ~said[p].open
    /\ p \notin raced =>
          /\ view[p].open = said[p].open
          /\ \A t \in Results : Looked(t) /\ p \notin res[t].read /\ view[p].at < t => ~view[p].open

NewIsNew ==
    /\ host = 0 => said = Unseen
    /\ \A t \in Results : res[t].pc = "commit" => (res[t].new <=> host = 0)
    /\ \A t \in Results : res[t].pc = "tell" /\ ~muddled => host # 0

EmptyWasSwept ==
    /\ empty => swept
    /\ \A t \in Results :
          res[t].open = {} /\ res[t].pc \in {"read", "upsert", "commit"} /\ host = 0 => swept

TellsTheView ==
    OpenPorts \subseteq told \cup masked /\ told \subseteq OpenPorts

\* What a result that has committed is about to tell.
IsToTell(t) ==
    LET r == res[t] IN
    IF r.new THEN OpenPorts = r.open
    ELSE /\ OpenPorts = (r.read \ Closed(t)) \cup r.open
         /\ r.read \subseteq told \cup masked /\ told \subseteq r.read

ResultsAlone ==
    ~muddled =>
        /\ \A s, t \in Results : Active(t) /\ res[s].pc # "none" => s <= t
        /\ \A s, t \in Results : Active(t) /\ Active(s) => s = t
        /\ (\A t \in Results : res[t].pc # "tell") => TellsTheView
        /\ \A t \in Results : Looked(t) => res[t].read = OpenPorts
        /\ \A t \in Results : res[t].pc = "tell" => IsToTell(t)

HostInv ==
    /\ HostTypeOK
    /\ InOrder
    /\ RacesAreKnown
    /\ \A p \in Ports : SightOf(p)
    /\ NewIsNew
    /\ EmptyWasSwept
    /\ ResultsAlone
    /\ findings < 2 /\ (findings > 0 => found)
    /\ unfounded \subseteq excluded /\ \A t \in Results : res[t].skips \subseteq excluded

LEMMA HostFound ==
  ASSUME HostTypeOK
  PROVE  /\ res \in [Results -> ResultKind]
         /\ view \in [Ports -> Sight] /\ said \in [Ports -> Sight]
         /\ Results \subseteq Nat \ {0} /\ Stamp \subseteq Nat
BY HostAssumption DEF HostTypeOK, ResultKind, Sight, Results, Stamp

LEMMA HostInvInit == HostInit => HostInv
<1> SUFFICES ASSUME HostInit PROVE HostInv OBVIOUS
<1>1. Blank \in ResultKind /\ Blank.pc = "none" /\ Blank.skips = {} BY DEF Blank, ResultKind
<1>2. Unseen \in [Ports -> Sight] /\ \A p \in Ports : Unseen[p].at = 0 /\ Unseen[p].open = FALSE
  BY DEF Unseen, Sight, Stamp
<1>3. res \in [Results -> ResultKind] /\ \A t \in Results : res[t] = Blank BY <1>1 DEF HostInit
<1>4. 0 \notin Results /\ 0 \in 0 .. MaxHostFaults /\ Results \subseteq Nat BY HostAssumption DEF Results
<1>5. HostTypeOK
  <2>1. \A t \in Results : ~(lock = t) /\ res[t].pc # "commit" BY <1>1, <1>3, <1>4 DEF HostInit, None
  <2>2. view \in [Ports -> Sight] /\ said \in [Ports -> Sight] BY <1>2 DEF HostInit
  <2>3. {muddled, empty, swept} \subseteq BOOLEAN /\ aged \in BOOLEAN /\ found \in BOOLEAN BY DEF HostInit
  <2>4. 0 \in 0 .. 2 OBVIOUS
  <2> QED BY <1>3, <1>4, <2>1, <2>2, <2>3, <2>4 DEF HostInit, HostTypeOK, ResultKind, Sight, None, Stamp
<1>6. InOrder /\ RacesAreKnown BY <1>1, <1>2, <1>3, <1>4 DEF HostInit, InOrder, RacesAreKnown, Under, Committed
<1>7. \A p \in Ports : SightOf(p) BY <1>1, <1>2, <1>3 DEF HostInit, SightOf, Looked
<1>8. NewIsNew /\ EmptyWasSwept BY <1>1, <1>3 DEF HostInit, NewIsNew, EmptyWasSwept
<1>9. ResultsAlone
  <2>1. OpenPorts = {} BY <1>2 DEF OpenPorts, HostInit
  <2> QED BY <1>1, <1>3, <2>1 DEF HostInit, ResultsAlone, Active, Under, Looked, TellsTheView
<1> QED BY <1>1, <1>3, <1>5, <1>6, <1>7, <1>8, <1>9 DEF HostInit, HostInv

LEMMA OneResult ==
  ASSUME HostTypeOK, NEW t \in Results, NEW x \in ResultKind, res' = [res EXCEPT ![t] = x]
  PROVE  /\ res' \in [Results -> ResultKind]
         /\ res'[t] = x /\ \A u \in Results \ {t} : res'[u] = res[u]
<1>1. res \in [Results -> ResultKind] BY HostFound
<1> QED BY <1>1

HostPhases == {"none", "known", "read", "upsert", "commit", "tell", "done"}

\* A step that only takes a result to another phase.
LEMMA NextPhase ==
  ASSUME HostTypeOK, NEW t \in Results, NEW pc \in HostPhases, res' = [res EXCEPT ![t].pc = pc]
  PROVE  /\ res' \in [Results -> ResultKind]
         /\ \A u \in Results \ {t} : res'[u] = res[u]
         /\ res'[t] \in ResultKind /\ res'[t].pc = pc
         /\ res'[t].covers = res[t].covers /\ res'[t].skips = res[t].skips
         /\ res'[t].open = res[t].open /\ res'[t].finds = res[t].finds
         /\ res'[t].read = res[t].read /\ res'[t].new = res[t].new
<1>1. res \in [Results -> ResultKind] /\ res[t] \in ResultKind BY HostFound
<1> DEFINE x == [res[t] EXCEPT !.pc = pc]
<1>2. res' = [res EXCEPT ![t] = x] BY <1>1
<1>3. /\ x \in ResultKind /\ x.pc = pc /\ x.covers = res[t].covers /\ x.skips = res[t].skips
      /\ x.open = res[t].open /\ x.finds = res[t].finds /\ x.read = res[t].read /\ x.new = res[t].new
  BY <1>1 DEF ResultKind, HostPhases
<1> HIDE DEF x
<1> QED BY <1>2, <1>3, OneResult

LEMMA OrderStays ==
  ASSUME HostInv, said' = said,
         \A t \in Results : /\ res'[t].pc = "none" <=> res[t].pc = "none"
                            /\ Committed(t) => Committed(t)'
  PROVE  InOrder'
BY DEF HostInv, InOrder

LEMMA RacesStay ==
  ASSUME HostInv, said' = said, raced \subseteq raced',
         \A t \in Results : /\ Under(t)' => Under(t) /\ res'[t].open = res[t].open
                            /\ Looked(t)' => Looked(t)
  PROVE  RacesAreKnown'
BY DEF HostInv, RacesAreKnown

\* What is shown, and what was said, stay; a result that looks now sees it.
LEMMA SightStays ==
  ASSUME HostInv, said' = said, view' = view, raced \subseteq raced',
         \A t \in Results : Looked(t)' => \/ Looked(t) /\ res'[t].read = res[t].read
                                          \/ res'[t].read = OpenPorts
  PROVE  \A p \in Ports : SightOf(p)'
<1> SUFFICES ASSUME NEW p \in Ports PROVE SightOf(p)' OBVIOUS
<1>1. SightOf(p) BY DEF HostInv
<1>2. ASSUME p \notin raced', NEW t \in Results, Looked(t)', p \notin res'[t].read, view[p].at < t
      PROVE  ~view[p].open
  <2>1. p \notin raced BY <1>2
  <2>2. CASE Looked(t) /\ res'[t].read = res[t].read BY <1>1, <1>2, <2>1, <2>2 DEF SightOf
  <2>3. CASE res'[t].read = OpenPorts BY <1>2, <2>3 DEF OpenPorts
  <2> QED BY <1>2, <2>2, <2>3
<1> QED BY <1>1, <1>2 DEF SightOf

LEMMA AloneStays ==
  ASSUME HostInv, UNCHANGED <<muddled, view, told, masked>>,
         \A t \in Results : /\ Active(t)' => Active(t)
                            /\ res'[t].pc = "none" <=> res[t].pc = "none"
                            /\ res'[t].pc = "tell" <=> res[t].pc = "tell"
                            /\ res'[t].pc = "tell" => res'[t] = res[t]
                            /\ Looked(t)' => \/ Looked(t) /\ res'[t].read = res[t].read
                                             \/ res'[t].read = OpenPorts
  PROVE  ResultsAlone'
<1>1. OpenPorts' = OpenPorts BY DEF OpenPorts
<1>2. \A t \in Results : res'[t].pc = "tell" /\ IsToTell(t) => IsToTell(t)'
  BY <1>1 DEF IsToTell, Closed
<1>3. TellsTheView' <=> TellsTheView BY <1>1 DEF TellsTheView
<1> QED BY <1>1, <1>2, <1>3 DEF HostInv, ResultsAlone

\* A result reads whether the host is known, locks it, or is rolled back.
LEMMA QuietStep ==
  ASSUME HostInv, NEW t \in Results, ReadKnown(t) \/ Upsert(t) \/ Rollback(t)
  PROVE  HostInv'
<1>1. HostTypeOK /\ res[t] \in ResultKind /\ res \in [Results -> ResultKind] BY HostFound DEF HostInv
<1>2. /\ res' \in [Results -> ResultKind] /\ \A u \in Results \ {t} : res'[u] = res[u]
      /\ res'[t].covers = res[t].covers /\ res'[t].skips = res[t].skips /\ res'[t].open = res[t].open
      /\ res'[t].read = res[t].read
      /\ \/ /\ res[t].pc = "known" /\ lock' = lock
            /\ res'[t].pc = "done" \/ (res'[t].pc = "read" /\ host # 0)
         \/ /\ res[t].pc = "upsert" /\ lock = None /\ lock' = t
            /\ res'[t].pc = "commit" /\ (res'[t].new <=> host = 0)
         \/ /\ Under(t) /\ res'[t].pc = "done" /\ lock' = IF lock = t THEN None ELSE lock
  <2>1. CASE ReadKnown(t)
    <3>1. PICK pc \in {"read", "done"} :
            res' = [res EXCEPT ![t].pc = pc] /\ res[t].pc = "known" /\ (pc = "read" => host # 0)
      BY <2>1 DEF ReadKnown
    <3> QED BY <1>1, <2>1, <3>1, NextPhase DEF ReadKnown, HostPhases
  <2>2. CASE Upsert(t)
    <3> DEFINE x == [res[t] EXCEPT !.pc = "commit", !.new = (host = 0)]
    <3>1. res' = [res EXCEPT ![t] = x] /\ res[t].pc = "upsert" /\ lock = None /\ lock' = t
      BY <1>1, <2>2 DEF Upsert
    <3>2. /\ x \in ResultKind /\ x.pc = "commit" /\ (x.new <=> host = 0) /\ x.covers = res[t].covers
          /\ x.skips = res[t].skips /\ x.open = res[t].open /\ x.read = res[t].read
      BY <1>1 DEF ResultKind
    <3> HIDE DEF x
    <3> QED BY <1>1, <3>1, <3>2, OneResult
  <2>3. CASE Rollback(t)
    <3>1. res' = [res EXCEPT ![t].pc = "done"] /\ Under(t) /\ lock' = IF lock = t THEN None ELSE lock
      BY <2>3 DEF Rollback
    <3> QED BY <1>1, <3>1, NextPhase DEF HostPhases
  <2> QED BY <2>1, <2>2, <2>3
<1>3. UNCHANGED <<record, sweep, hostHistory>> BY DEF ReadKnown, Upsert, Rollback
<1>4. HostTypeOK'
  <2>1. hostFaults' \in 0 .. MaxHostFaults
    BY <1>1, HostAssumption DEF ReadKnown, Upsert, Rollback, HostTypeOK
  <2>2. lock' \in Stamp BY <1>1, <1>2 DEF HostTypeOK, None, Stamp
  <2>3. \A u \in Results : lock' = u <=> res'[u].pc = "commit"
    <3>1. None \notin Results BY HostFound, <1>1 DEF None
    <3>2. \A u \in Results : lock = u <=> res[u].pc = "commit" BY <1>1 DEF HostTypeOK
    <3> QED BY <1>2, <3>1, <3>2
  <2> QED BY <1>1, <1>2, <1>3, <2>1, <2>2, <2>3 DEF HostTypeOK, ResultKind, record, hostHistory
<1>5. /\ \A u \in Results : /\ Active(u)' => Active(u)
                            /\ Under(u)' => Under(u) /\ res'[u].open = res[u].open
                            /\ Looked(u)' => Looked(u) /\ res'[u].read = res[u].read
                            /\ res'[u].pc = "none" <=> res[u].pc = "none"
                            /\ res'[u].pc = "tell" <=> res[u].pc = "tell"
                            /\ res'[u].pc = "tell" => res'[u] = res[u]
                            /\ Committed(u) => Committed(u)'
  BY <1>2 DEF Active, Under, Looked, Committed
<1>6. InOrder' /\ RacesAreKnown' /\ (\A p \in Ports : SightOf(p)') /\ ResultsAlone'
  BY <1>3, <1>5, OrderStays, RacesStay, SightStays, AloneStays DEF record, hostHistory
<1>7. NewIsNew'
  <2>1. \A u \in Results \ {t} : res'[u].pc = "commit" => res[u] = res'[u] BY <1>2
  <2> QED BY <1>2, <1>3, <1>5, <2>1 DEF HostInv, NewIsNew, record, hostHistory, Under
<1>8. EmptyWasSwept'
  <2>1. \A u \in Results : res'[u].open = res[u].open BY <1>2
  <2>2. res'[t].pc \in {"read", "upsert", "commit"} => host # 0 \/ res[t].pc \in {"read", "upsert", "commit"}
    BY <1>2
  <2> QED BY <1>2, <1>3, <2>1, <2>2 DEF HostInv, EmptyWasSwept, record, hostHistory
<1> QED BY <1>2, <1>3, <1>4, <1>6, <1>7, <1>8 DEF HostInv, record, hostHistory

LEMMA BeginStep ==
  ASSUME HostInv, NEW t \in Results, NEW covers \in SUBSET Ports, NEW excludes,
         NEW open \in SUBSET Ports, NEW finds \in BOOLEAN, Begin(t, covers, excludes, open, finds)
  PROVE  HostInv'
<1>1. HostTypeOK /\ res \in [Results -> ResultKind] /\ Results \subseteq Nat BY HostFound DEF HostInv
<1> DEFINE x == [Blank EXCEPT !.pc = IF open = {} THEN "known" ELSE "read", !.covers = covers,
                   !.skips = {p \in covers : p[1] \in excludes}, !.open = open, !.finds = finds]
<1>2. /\ x \in ResultKind /\ x.skips \subseteq Ports
      /\ x.pc = (IF open = {} THEN "known" ELSE "read") /\ x.open = open
  BY DEF Blank, ResultKind
<1> HIDE DEF x
<1>3. /\ res' \in [Results -> ResultKind] /\ res'[t] = x /\ \A u \in Results \ {t} : res'[u] = res[u]
      /\ res[t].pc = "none" /\ \A u \in Results : u < t => res[u].pc # "none"
  <2>1. res' = [res EXCEPT ![t] = x] BY DEF Begin, x
  <2> QED BY <1>1, <1>2, <2>1, OneResult DEF Begin
<1>4. /\ UNCHANGED <<host, aged, view, found, lock, sweep, hostFaults, said, raced, told, masked, unfounded,
                     findings, empty, swept>>
      /\ excluded' = excluded \cup x.skips
      /\ muddled' = (muddled \/ \E u \in Results : Active(u))
  BY <1>3 DEF Begin, record, Active
\* No later result has begun.
<1>5. \A s \in Results : t < s => res[s].pc = "none" BY <1>3 DEF HostInv, InOrder
<1>6. ~Looked(t)' /\ ~Committed(t)' /\ ~Committed(t) /\ ~Looked(t) /\ ~Under(t) /\ res'[t].pc # "none"
      /\ res'[t].pc # "tell" /\ res'[t].pc # "commit"
  BY <1>2, <1>3 DEF Looked, Committed, Under
<1>7. HostTypeOK'
  <2>1. \A u \in Results : lock' = u <=> res'[u].pc = "commit" BY <1>1, <1>3, <1>4, <1>6 DEF HostTypeOK
  <2>2. excluded' \in SUBSET Ports /\ muddled' \in BOOLEAN BY <1>1, <1>2, <1>4 DEF HostTypeOK
  <2> QED BY <1>1, <1>3, <1>4, <2>1, <2>2 DEF HostTypeOK, ResultKind
<1>8. InOrder'
  <2>1. \A s, u \in Results : u < s /\ res'[s].pc # "none" => res'[u].pc # "none"
    BY <1>3, <1>6 DEF HostInv, InOrder
  <2>2. \A u \in Results : Committed(u) => Committed(u)' BY <1>3, <1>6 DEF Committed
  <2> QED BY <1>4, <2>1, <2>2 DEF HostInv, InOrder
<1>9. RacesAreKnown'
  <2> SUFFICES ASSUME NEW s \in Results, NEW u \in Results, u < s, Under(u)',
                      Looked(s)' \/ \E p \in Ports : said[p].at = s
               PROVE  res'[u].open \subseteq raced
    BY <1>4 DEF RacesAreKnown
  <2>1. \A p \in Ports : said[p].at = s => Committed(s) BY DEF HostInv, InOrder
  <2>2. s # t /\ res[s].pc # "none" BY <1>3, <1>6, <2>1 DEF Looked, Committed
  <2>3. u # t BY <1>5, <2>2
  <2> QED BY <1>3, <2>2, <2>3 DEF HostInv, RacesAreKnown, Under, Looked
<1>10. \A p \in Ports : SightOf(p)'
  <2>1. \A u \in Results : Looked(u)' => Looked(u) /\ res'[u].read = res[u].read
    BY <1>3, <1>6 DEF Looked
  <2> QED BY <1>4, <2>1, SightStays
<1>11. NewIsNew'
  <2>1. \A u \in Results : res'[u].pc \in {"commit", "tell"} => res'[u] = res[u] BY <1>3, <1>6
  <2> QED BY <1>4, <2>1 DEF HostInv, NewIsNew
<1>12. EmptyWasSwept'
  <2>1. ~(res'[t].open = {} /\ res'[t].pc \in {"read", "upsert", "commit"}) BY <1>2, <1>3
  <2> QED BY <1>3, <1>4, <2>1 DEF HostInv, EmptyWasSwept
<1>13. ResultsAlone'
  <2> SUFFICES ASSUME ~muddled' PROVE ResultsAlone' BY DEF ResultsAlone
  <2>1. ~muddled /\ \A u \in Results : ~Active(u) BY <1>4
  <2>2. \A u \in Results : Active(u)' => u = t BY <1>3, <2>1 DEF Active, Under
  <2>3. \A s \in Results : res'[s].pc # "none" => s <= t BY <1>1, <1>3, <1>5
  <2>4. \A u \in Results : res'[u].pc # "tell" /\ res[u].pc # "tell" /\ ~Looked(u)'
    BY <1>3, <1>6, <2>1 DEF Active, Under, Looked
  <2>5. TellsTheView' BY <1>4, <2>1, <2>4 DEF HostInv, ResultsAlone, TellsTheView, OpenPorts
  <2> QED BY <2>2, <2>3, <2>4, <2>5 DEF ResultsAlone
<1>14. \A u \in Results : res'[u].skips \subseteq excluded' BY <1>3, <1>4 DEF HostInv
<1> QED BY <1>4, <1>7, <1>8, <1>9, <1>10, <1>11, <1>12, <1>13, <1>14 DEF HostInv

LEMMA ReadOpenStep ==
  ASSUME HostInv, NEW t \in Results, ReadOpen(t)
  PROVE  HostInv'
<1>1. HostTypeOK /\ res \in [Results -> ResultKind] /\ res[t] \in ResultKind BY HostFound DEF HostInv
<1> DEFINE x == [res[t] EXCEPT !.pc = "upsert", !.read = OpenPorts]
<1>2. /\ x \in ResultKind /\ x.pc = "upsert" /\ x.read = OpenPorts
      /\ x.open = res[t].open /\ x.skips = res[t].skips
  BY <1>1 DEF ResultKind, OpenPorts
<1> HIDE DEF x
<1>3. /\ res' \in [Results -> ResultKind] /\ res'[t] = x /\ \A u \in Results \ {t} : res'[u] = res[u]
      /\ res[t].pc = "read"
  <2>1. res' = [res EXCEPT ![t] = x] BY <1>1 DEF ReadOpen, x
  <2> QED BY <1>1, <1>2, <2>1, OneResult DEF ReadOpen
<1>4. /\ UNCHANGED <<host, aged, view, found, lock, sweep, hostFaults, said, told, masked, muddled,
                     unfounded, excluded, findings, empty, swept>>
      /\ raced \subseteq raced' /\ raced' \subseteq Ports
      /\ \A u \in Results : Under(u) /\ u < t => res[u].open \subseteq raced'
  <2>1. raced' = raced \cup UNION {res[u].open : u \in {u \in Results : Under(u) /\ u < t}} BY DEF ReadOpen
  <2>2. \A u \in Results : res[u].open \subseteq Ports BY <1>1 DEF ResultKind
  <2>3. raced \subseteq Ports BY <1>1 DEF HostTypeOK
  <2> QED BY <2>1, <2>2, <2>3 DEF ReadOpen, record
<1>5. HostTypeOK'
  <2>1. \A u \in Results : lock' = u <=> res'[u].pc = "commit" BY <1>1, <1>2, <1>3, <1>4 DEF HostTypeOK
  <2> QED BY <1>1, <1>3, <1>4, <2>1 DEF HostTypeOK, ResultKind
<1>6. \A u \in Results : /\ Active(u)' => Active(u)
                         /\ Under(u)' => Under(u) /\ res'[u].open = res[u].open
                         /\ Looked(u)' => \/ Looked(u) /\ res'[u].read = res[u].read
                                          \/ u = t /\ res'[u].read = OpenPorts
                         /\ res'[u].pc = "none" <=> res[u].pc = "none"
                         /\ res'[u].pc = "tell" <=> res[u].pc = "tell"
                         /\ res'[u].pc \in {"commit", "tell"} => res'[u] = res[u]
                         /\ Committed(u) => Committed(u)'
  BY <1>2, <1>3 DEF Active, Under, Looked, Committed
<1>7. InOrder' /\ (\A p \in Ports : SightOf(p)') /\ ResultsAlone'
  BY <1>4, <1>6, OrderStays, SightStays, AloneStays
<1>8. RacesAreKnown'
  <2> SUFFICES ASSUME NEW s \in Results, NEW u \in Results, u < s, Under(u)',
                      Looked(s)' \/ \E p \in Ports : said[p].at = s
               PROVE  res'[u].open \subseteq raced'
    BY <1>4 DEF RacesAreKnown
  <2>1. CASE s = t BY <1>4, <1>6, <2>1
  <2>2. CASE s # t
    <3>1. res[u].open \subseteq raced BY <1>6, <2>2 DEF HostInv, RacesAreKnown
    <3> QED BY <1>4, <1>6, <3>1
  <2> QED BY <2>1, <2>2
<1>9. NewIsNew' BY <1>4, <1>6 DEF HostInv, NewIsNew
<1>10. EmptyWasSwept'
  <2>1. \A u \in Results : /\ res'[u].open = res[u].open
                           /\ res'[u].pc \in {"read", "upsert", "commit"} => res[u].pc \in {"read", "upsert", "commit"}
    BY <1>2, <1>3
  <2> QED BY <1>4, <2>1 DEF HostInv, EmptyWasSwept
<1>11. \A u \in Results : res'[u].skips = res[u].skips BY <1>2, <1>3
<1> QED BY <1>4, <1>5, <1>7, <1>8, <1>9, <1>10, <1>11 DEF HostInv

\* Only the age of the host changes, or what the sweep has read.
LEMMA RecordIsKept ==
  ASSUME HostInv, UNCHANGED <<host, view, found, lock, res, hostFaults, hostHistory>>,
         aged' \in BOOLEAN, sweep' \in Stamp
  PROVE  HostInv'
<1>1. UNCHANGED <<host, view, found, lock, res, hostFaults, hostHistory>> OBVIOUS
<1>2. HostTypeOK' BY <1>1 DEF HostInv, HostTypeOK, hostHistory
<1>3. \A t \in Results : /\ Active(t)' <=> Active(t)
                         /\ Under(t)' <=> Under(t)
                         /\ Looked(t)' <=> Looked(t)
                         /\ Committed(t)' <=> Committed(t)
  BY <1>1 DEF Active, Under, Looked, Committed
<1>4. InOrder' /\ RacesAreKnown' /\ (\A p \in Ports : SightOf(p)') /\ ResultsAlone'
  BY <1>1, <1>3, OrderStays, RacesStay, SightStays, AloneStays DEF hostHistory
<1>5. NewIsNew' /\ EmptyWasSwept' BY <1>1 DEF HostInv, NewIsNew, EmptyWasSwept, hostHistory
<1> QED BY <1>1, <1>2, <1>4, <1>5 DEF HostInv, hostHistory

LEMMA DeleteStep ==
  ASSUME HostInv, Delete, sweep' \in Stamp
  PROVE  HostInv'
<1>1. HostTypeOK /\ res \in [Results -> ResultKind] /\ Results \subseteq Nat \ {0} BY HostFound DEF HostInv
<1>2. Unseen \in [Ports -> Sight] /\ \A p \in Ports : Unseen[p].at = 0 /\ Unseen[p].open = FALSE
  BY DEF Unseen, Sight, Stamp
<1>3. /\ host' = 0 /\ aged' = FALSE /\ view' = Unseen /\ found' = FALSE /\ said' = Unseen
      /\ told' = {} /\ masked' = {} /\ findings' = 0 /\ empty' = FALSE
      /\ UNCHANGED <<lock, res, hostFaults, unfounded, excluded>> /\ lock = None
      /\ raced' = (IF \E t \in Results : Under(t) THEN raced ELSE {})
      /\ muddled' = \E t \in Results : Active(t)
      /\ swept' = (swept \/ \E t \in Results : res[t].open = {} /\ res[t].pc \in {"read", "upsert"})
  BY DEF Delete, Active
<1>4. \A t \in Results : /\ Active(t)' <=> Active(t)
                         /\ Under(t)' <=> Under(t)
                         /\ Looked(t)' <=> Looked(t)
                         /\ Committed(t)' <=> Committed(t)
  BY <1>3 DEF Active, Under, Looked, Committed
<1>5. \A t \in Results : res[t].pc # "commit" BY <1>1, <1>3 DEF HostTypeOK, None
<1>6. HostTypeOK'
  <2>1. view' \in [Ports -> Sight] /\ said' \in [Ports -> Sight] BY <1>2, <1>3
  <2>2. raced' \in SUBSET Ports /\ swept' \in BOOLEAN /\ muddled' \in BOOLEAN BY <1>1, <1>3 DEF HostTypeOK
  <2>3. host' \in Stamp BY <1>3 DEF Stamp
  <2>4. aged' \in BOOLEAN /\ found' = FALSE /\ empty' \in BOOLEAN BY <1>3
  <2>5. findings' = 0 BY <1>3
  <2>6. findings' \in 0 .. 2 BY <2>5
  <2>7. UNCHANGED <<lock, res, hostFaults, unfounded, excluded>> /\ view' = Unseen
        /\ told' = {} /\ masked' = {}
    BY <1>3
  <2> QED BY <1>1, <2>1, <2>2, <2>3, <2>4, <2>6, <2>7, ZenonT(60) DEF HostTypeOK, Sight
<1>7. \A p \in Ports, t \in Results : said'[p].at # t BY <1>1, <1>2, <1>3
<1>8. InOrder'
  <2>1. \A s, t \in Results : t < s /\ res'[s].pc # "none" => res'[t].pc # "none"
    BY <1>3 DEF HostInv, InOrder
  <2> QED BY <1>7, <2>1 DEF InOrder
<1>9. RacesAreKnown'
  <2> SUFFICES ASSUME NEW s \in Results, NEW t \in Results, t < s, Under(t)',
                      Looked(s)' \/ \E p \in Ports : said'[p].at = s
               PROVE  res'[t].open \subseteq raced'
    BY DEF RacesAreKnown
  <2>1. Under(t) /\ Looked(s) BY <1>4, <1>7
  <2>2. res[t].open \subseteq raced BY <2>1 DEF HostInv, RacesAreKnown
  <2> QED BY <1>3, <2>1, <2>2
<1>10. \A p \in Ports : SightOf(p)' BY <1>2, <1>3 DEF SightOf
<1>11. NewIsNew' BY <1>3, <1>5 DEF NewIsNew, Active
<1>12. EmptyWasSwept' BY <1>3, <1>5 DEF EmptyWasSwept
<1>13. ResultsAlone'
  <2> SUFFICES ASSUME ~muddled' PROVE ResultsAlone' BY DEF ResultsAlone
  <2>1. \A t \in Results : ~Active(t)' BY <1>3, <1>4
  <2>2. TellsTheView' BY <1>2, <1>3 DEF TellsTheView, OpenPorts
  <2> QED BY <2>1, <2>2 DEF ResultsAlone, Active, Under, Looked
<1> QED BY <1>3, <1>6, <1>8, <1>9, <1>10, <1>11, <1>12, <1>13 DEF HostInv

LEMMA RestartOfHost ==
  ASSUME HostInv, HostRestart
  PROVE  HostInv'
<1>1. HostTypeOK /\ res \in [Results -> ResultKind] /\ Results \subseteq Nat \ {0} BY HostFound DEF HostInv
<1>2. Blank \in ResultKind /\ Blank.pc = "none" /\ Blank.skips = {} BY DEF Blank, ResultKind
<1> DEFINE next(t) == IF res[t].pc = "none" THEN Blank ELSE [res[t] EXCEPT !.pc = "done"]
<1>3. ASSUME NEW t \in Results
      PROVE  /\ next(t) \in ResultKind /\ next(t).skips \subseteq excluded
             /\ next(t).pc = IF res[t].pc = "none" THEN "none" ELSE "done"
  <2>1. res[t] \in ResultKind /\ res[t].skips \subseteq excluded BY <1>1 DEF HostInv
  <2>2. CASE res[t].pc = "none" BY <1>2, <2>2
  <2>3. CASE res[t].pc # "none" BY <2>1, <2>3 DEF ResultKind
  <2> QED BY <2>2, <2>3
<1>4. res' = [t \in Results |-> next(t)] BY DEF HostRestart
<1> HIDE DEF next
<1>5. /\ res' \in [Results -> ResultKind]
      /\ \A t \in Results : /\ res'[t].pc = IF res[t].pc = "none" THEN "none" ELSE "done"
                            /\ res'[t].skips \subseteq excluded
  BY <1>3, <1>4
<1>6. /\ UNCHANGED <<host, aged, view, found, said, raced, told, masked, unfounded, excluded, findings, empty, swept>>
      /\ lock' = None /\ sweep' = 0 /\ hostFaults' \in 0 .. MaxHostFaults
      /\ muddled' = (muddled \/ \E t \in Results : res[t].pc = "tell")
  BY <1>1, HostAssumption DEF HostRestart, record, HostTypeOK
<1>7. \A t \in Results : /\ ~Active(t)' /\ ~Under(t)' /\ ~Looked(t)'
                         /\ res'[t].pc \notin {"read", "upsert", "commit", "tell"}
                         /\ res'[t].pc = "none" <=> res[t].pc = "none"
                         /\ Committed(t) => Committed(t)'
  BY <1>5 DEF Active, Under, Looked, Committed
<1>8. HostTypeOK'
  <2>1. \A t \in Results : lock' = t <=> res'[t].pc = "commit" BY <1>1, <1>6, <1>7 DEF None
  <2>2. lock' \in Stamp /\ sweep' \in Stamp BY <1>6 DEF None, Stamp
  <2> QED BY <1>1, <1>5, <1>6, <2>1, <2>2 DEF HostTypeOK, ResultKind
<1>9. InOrder' /\ RacesAreKnown' /\ (\A p \in Ports : SightOf(p)')
  BY <1>6, <1>7, OrderStays, RacesStay, SightStays
<1>10. NewIsNew' /\ EmptyWasSwept' BY <1>6, <1>7 DEF HostInv, NewIsNew, EmptyWasSwept
<1>11. ResultsAlone'
  <2>1. ~muddled' => TellsTheView' BY <1>6 DEF HostInv, ResultsAlone, TellsTheView, OpenPorts
  <2> QED BY <1>7, <2>1 DEF ResultsAlone
<1> QED BY <1>5, <1>6, <1>8, <1>9, <1>10, <1>11 DEF HostInv

LEMMA ObserveIs ==
  ASSUME NEW table, NEW S, NEW at, NEW open, NEW p \in Ports
  PROVE  Observe(table, S, at, open)[p] =
           IF p \in S /\ table[p].at < at THEN [at |-> at, open |-> p \in open] ELSE table[p]
BY DEF Observe

LEMMA ObserveKind ==
  ASSUME NEW table \in [Ports -> Sight], NEW S, NEW at \in Results, NEW open
  PROVE  Observe(table, S, at, open) \in [Ports -> Sight]
<1>1. \A p \in Ports : [at |-> at, open |-> p \in open] \in Sight BY DEF Sight, Stamp
<1> QED BY <1>1 DEF Observe

LEMMA SightIs ==
  ASSUME NEW x, NEW at, NEW p, NEW S, x = [at |-> at, open |-> p \in S]
  PROVE  x.at = at /\ x.open \in BOOLEAN /\ (x.open <=> p \in S)
<1>1. x.at = at /\ x.open = (p \in S) BY SMT
<1>2. (p \in S) \in BOOLEAN BY SMT
<1> QED BY <1>1, <1>2, Zenon

\* The parts of a step that commits.
LEMMA CommitParts ==
  ASSUME HostInv, NEW t \in Results, Commit(t)
  PROVE  /\ res' \in [Results -> ResultKind] /\ \A u \in Results \ {t} : res'[u] = res[u]
         /\ res[t].pc = "commit" /\ res'[t].pc = "tell" /\ res'[t].open = res[t].open
         /\ res'[t].covers = res[t].covers /\ res'[t].skips = res[t].skips
         /\ res'[t].read = res[t].read /\ res'[t].new = res[t].new
         /\ \A u \in Results \ {t} : res[u].pc # "commit"
         /\ host' \in Results \cup {host} /\ host' # 0 /\ (res[t].new <=> host = 0)
         /\ \A u \in Results : /\ Active(u)' <=> Active(u)
                               /\ Under(u)' => Under(u) /\ u # t
                               /\ Looked(u)' => Looked(u) /\ u # t
                               /\ res'[u].pc = "none" <=> res[u].pc = "none"
                               /\ Committed(u) => Committed(u)'
         /\ Active(t) /\ Under(t) /\ Looked(t) /\ ~Committed(t) /\ Committed(t)'
<1>1. HostTypeOK /\ res \in [Results -> ResultKind] /\ Results \subseteq Nat \ {0} BY HostFound DEF HostInv
<1>2. res' = [res EXCEPT ![t].pc = "tell"] /\ res[t].pc = "commit" /\ host' = (IF res[t].new THEN t ELSE host)
  BY DEF Commit
<1>3. /\ res' \in [Results -> ResultKind] /\ \A u \in Results \ {t} : res'[u] = res[u]
      /\ res'[t].pc = "tell" /\ res'[t].open = res[t].open
      /\ res'[t].covers = res[t].covers /\ res'[t].skips = res[t].skips
      /\ res'[t].read = res[t].read /\ res'[t].new = res[t].new
  BY <1>1, <1>2, NextPhase DEF HostPhases
<1>4. \A u \in Results \ {t} : res[u].pc # "commit" BY <1>1, <1>2 DEF HostTypeOK
<1>5. res[t].new <=> host = 0 BY <1>2 DEF HostInv, NewIsNew
<1>6. host' \in Results \cup {host} /\ host' # 0 BY <1>1, <1>2, <1>5
<1>7. Active(t) /\ Under(t) /\ Looked(t) /\ ~Committed(t) /\ Committed(t)' /\ Active(t)'
      /\ ~Under(t)' /\ ~Looked(t)' /\ res'[t].pc # "none" /\ res[t].pc # "none"
  BY <1>2, <1>3 DEF Active, Under, Looked, Committed
<1>8. \A u \in Results \ {t} : /\ Active(u)' <=> Active(u)
                               /\ Under(u)' <=> Under(u)
                               /\ Looked(u)' <=> Looked(u)
                               /\ Committed(u)' <=> Committed(u)
  BY <1>3 DEF Active, Under, Looked, Committed
<1> QED BY <1>2, <1>3, <1>4, <1>5, <1>6, <1>7, <1>8

\* Each port is shown, and said to be, what the latest result says of it.
LEMMA CommitKeepsSight ==
  ASSUME HostInv, NEW t \in Results, Commit(t), NEW p \in Ports
  PROVE  SightOf(p)'
<1>1. /\ HostTypeOK /\ res \in [Results -> ResultKind] /\ Results \subseteq Nat \ {0}
      /\ view \in [Ports -> Sight] /\ said \in [Ports -> Sight] /\ Stamp \subseteq Nat
  BY HostFound DEF HostInv
<1> DEFINE r == res[t]
           U == r.open \cup Closed(t)
           W == r.open \cup r.covers
<1>2. /\ view'[p] = (IF p \in U /\ view[p].at < t THEN [at |-> t, open |-> p \in r.open] ELSE view[p])
      /\ said'[p] = (IF p \in W /\ said[p].at < t THEN [at |-> t, open |-> p \in r.open] ELSE said[p])
      /\ raced' = raced
  BY ObserveIs DEF Commit
<1>3. /\ view[p].at \in Nat /\ said[p].at \in Nat /\ said[p].at \in Stamp /\ t \in Nat
      /\ view[p] \in Sight /\ said[p] \in Sight
  BY <1>1 DEF Sight
<1>4. SightOf(p) BY DEF HostInv
<1>5. said[p].at # t BY CommitParts DEF HostInv, InOrder
<1>6. /\ U \subseteq W /\ r.open \subseteq U
      /\ p \in W \ U => p \notin r.open /\ (r.new \/ p \notin r.read)
  BY <1>1 DEF Closed, ResultKind
\* A later result looked, or was before this one: it did not see these ports open.
<1>7. \A s \in Results : t < s /\ (Looked(s) \/ said[p].at = s) => r.open \subseteq raced
  BY CommitParts DEF HostInv, RacesAreKnown
<1>8. \A u \in Results : Looked(u)' => Looked(u) /\ u # t /\ res'[u].read = res[u].read BY CommitParts
<1> HIDE DEF r, U, W
<1>9. CASE p \in U /\ view[p].at < t /\ said[p].at < t
  <2>1. view'[p] = [at |-> t, open |-> p \in r.open] /\ said'[p] = view'[p] BY <1>2, <1>6, <1>9
  <2>2. view'[p].at = t /\ said'[p].at = t /\ (view'[p].open <=> p \in r.open)
    BY <2>1, SightIs
  <2>3. view'[p].open = said'[p].open BY <2>1
  <2>4. ASSUME p \notin raced', NEW u \in Results, Looked(u)', t < u PROVE ~view'[p].open
    BY <1>2, <1>7, <1>8, <2>2, <2>4
  <2> QED BY <1>3, <2>2, <2>3, <2>4 DEF SightOf
<1>10. CASE p \in U /\ view[p].at < t /\ said[p].at > t
  <2>1. view'[p] = [at |-> t, open |-> p \in r.open] /\ said'[p] = said[p] BY <1>2, <1>3, <1>10
  <2>2. view'[p].at = t /\ view'[p].open \in BOOLEAN /\ (view'[p].open <=> p \in r.open)
    BY <2>1, SightIs
  <2>3. ~said[p].open BY <1>3, <1>4, <1>10 DEF SightOf
  <2>4. said[p].at \in Results BY <1>3, <1>10 DEF Stamp
  <2>5. p \notin raced => p \notin r.open BY <1>7, <1>10, <2>4
  <2>6. p \notin raced => ~view'[p].open BY <2>2, <2>5
  <2>7. p \notin raced => view'[p].open = said'[p].open
    <3>1. said[p].open \in BOOLEAN BY <1>3 DEF Sight
    <3> QED BY <2>1, <2>2, <2>3, <2>6, <3>1
  <2> QED BY <1>2, <1>3, <1>10, <2>1, <2>2, <2>3, <2>6, <2>7 DEF SightOf
<1>11. CASE p \in W \ U /\ said[p].at < t
  <2>1. said'[p] = [at |-> t, open |-> p \in r.open] /\ view'[p] = view[p] BY <1>2, <1>11
  <2>2. said'[p].at = t /\ said'[p].open \in BOOLEAN /\ ~said'[p].open BY <1>6, <1>11, <2>1, SightIs
  <2>3. view[p].at <= said[p].at BY <1>4 DEF SightOf
  <2>4. view[p].at < t BY <1>3, <1>11, <2>3
  <2>5. p \notin raced => ~view[p].open
    <3>1. CASE r.new
      <4>1. view = Unseen BY <1>1, <3>1, CommitParts DEF r, HostTypeOK
      <4> QED BY <4>1 DEF Unseen
    <3>2. CASE p \notin r.read BY <1>4, <2>4, <3>2, CommitParts DEF r, SightOf
    <3> QED BY <1>6, <1>11, <3>1, <3>2
  <2>6. p \notin raced => view'[p].open = said'[p].open
    <3>1. view[p].open \in BOOLEAN BY <1>3 DEF Sight
    <3> QED BY <2>1, <2>2, <2>5, <3>1
  <2> QED BY <1>2, <1>3, <2>1, <2>2, <2>4, <2>5, <2>6 DEF SightOf
<1>12. CASE view'[p] = view[p] /\ said'[p] = said[p] BY <1>2, <1>4, <1>8, <1>12 DEF SightOf
<1>13. view[p].at <= said[p].at BY <1>4 DEF SightOf
<1> QED BY <1>2, <1>3, <1>5, <1>6, <1>9, <1>10, <1>11, <1>12, <1>13

\* It is the only result under way, and the alerts it is to send are those that tell the difference.
LEMMA CommitIsToTell ==
  ASSUME HostInv, NEW t \in Results, Commit(t), ~muddled
  PROVE  IsToTell(t)'
<1>1. /\ HostTypeOK /\ res \in [Results -> ResultKind] /\ Results \subseteq Nat \ {0}
      /\ view \in [Ports -> Sight] /\ said \in [Ports -> Sight] /\ Stamp \subseteq Nat
  BY HostFound DEF HostInv
<1> DEFINE r == res[t]
           U == r.open \cup Closed(t)
<1>2. /\ \A p \in Ports : view'[p] = IF p \in U /\ view[p].at < t THEN [at |-> t, open |-> p \in r.open] ELSE view[p]
      /\ UNCHANGED <<told, masked>>
  BY ObserveIs DEF Commit
<1>3. \A p \in Ports : view[p].at < t
  <2> SUFFICES ASSUME NEW p \in Ports PROVE view[p].at < t OBVIOUS
  <2>1. view[p].at \in Nat /\ said[p].at \in Stamp /\ said[p].at \in Nat /\ t \in Nat /\ t > 0
    <3>1. view[p] \in Sight /\ said[p] \in Sight BY <1>1
    <3>2. view[p].at \in Stamp /\ said[p].at \in Stamp BY <3>1 DEF Sight
    <3>3. t \in Nat /\ t > 0 BY <1>1
    <3> QED BY <1>1, <3>2, <3>3
  <2>2. view[p].at <= said[p].at BY DEF HostInv, SightOf
  <2>3. ASSUME said[p].at \in Results PROVE said[p].at < t
    <3>1. Committed(said[p].at) BY <2>3 DEF HostInv, InOrder
    <3>2. res[said[p].at].pc # "none" /\ said[p].at # t BY <2>3, <3>1, CommitParts DEF Committed
    <3>3. said[p].at <= t BY <2>3, <3>2, CommitParts DEF HostInv, ResultsAlone
    <3> QED BY <2>1, <3>2, <3>3
  <2>4. said[p].at = 0 \/ said[p].at \in Results BY <2>1 DEF Stamp
  <2> QED BY <2>1, <2>2, <2>3, <2>4
<1>4. \A p \in Ports : view'[p].open <=> IF p \in U THEN p \in r.open ELSE view[p].open
  <2> SUFFICES ASSUME NEW p \in Ports
               PROVE  view'[p].open <=> IF p \in U THEN p \in r.open ELSE view[p].open
    OBVIOUS
  <2> HIDE DEF U, r
  <2>1. CASE p \in U
    <3>1. view'[p] = [at |-> t, open |-> p \in r.open] BY <1>2, <1>3, <2>1
    <3> QED BY <2>1, <3>1, SightIs
  <2>2. CASE p \notin U BY <1>2, <2>2
  <2> QED BY <2>1, <2>2
<1>5. r.open \subseteq Ports /\ r.open \subseteq U BY <1>1 DEF ResultKind
<1>6. OpenPorts' = r.open \cup (OpenPorts \ U)
  <2> HIDE DEF U, r
  <2>1. \A p \in Ports : p \in OpenPorts' <=> p \in r.open \cup (OpenPorts \ U)
    BY <1>4, <1>5 DEF OpenPorts
  <2>2. OpenPorts' \subseteq Ports /\ OpenPorts \subseteq Ports BY DEF OpenPorts
  <2> QED BY <1>5, <2>1, <2>2
<1>7. Closed(t)' = Closed(t) BY CommitParts DEF Closed
<1>8. res[t].read = OpenPorts BY CommitParts DEF HostInv, ResultsAlone
<1>9. TellsTheView
  <2>1. \A u \in Results : res[u].pc = "tell" => Active(u) BY DEF Active
  <2>2. \A u \in Results : res[u].pc # "tell" BY <2>1, CommitParts DEF HostInv, ResultsAlone
  <2> QED BY <2>2 DEF HostInv, ResultsAlone
<1>10. CASE r.new
  <2>1. view = Unseen BY <1>1, <1>10, CommitParts DEF HostTypeOK
  <2>2. OpenPorts = {} BY <2>1 DEF OpenPorts, Unseen
  <2>3. OpenPorts' = r.open BY <1>6, <2>2
  <2> QED BY <1>10, <2>3, CommitParts DEF IsToTell
<1>11. CASE ~r.new
  <2>1. OpenPorts' = (res[t].read \ Closed(t)) \cup res[t].open BY <1>6, <1>8
  <2>2. res[t].read \subseteq told \cup masked /\ told \subseteq res[t].read BY <1>8, <1>9 DEF TellsTheView
  <2> QED BY <1>2, <1>7, <1>11, <2>1, <2>2, CommitParts DEF IsToTell
<1> QED BY <1>10, <1>11

LEMMA CommitStep ==
  ASSUME HostInv, NEW t \in Results, Commit(t)
  PROVE  HostInv'
<1>1. /\ HostTypeOK /\ res \in [Results -> ResultKind] /\ Results \subseteq Nat \ {0}
      /\ view \in [Ports -> Sight] /\ said \in [Ports -> Sight]
  BY HostFound DEF HostInv
<1>2. /\ UNCHANGED <<sweep, hostFaults, raced, told, masked, muddled, unfounded, excluded, swept>>
      /\ aged' = FALSE /\ lock' = None
      /\ found' = (found \/ res[t].finds)
      /\ findings' = (IF NewFinding(t) /\ findings < 2 THEN findings + 1 ELSE findings)
      /\ empty' = (IF res[t].new THEN res[t].open = {} ELSE empty)
  BY DEF Commit
<1>3. findings' \in {0, 1} /\ (findings' > 0 => found')
  <2>1. findings \in {0, 1} /\ (findings > 0 => found) BY <1>1 DEF HostInv, HostTypeOK
  <2>2. (found => found') /\ (NewFinding(t) => ~found /\ found') BY <1>2, Zenon DEF NewFinding
  <2>3. CASE NewFinding(t)
    <3>1. findings = 0 BY <2>1, <2>2, <2>3
    <3>2. findings' = 1 BY <1>2, <2>3, <3>1
    <3> QED BY <2>2, <2>3, <3>2
  <2>4. CASE ~NewFinding(t)
    <3>1. findings' = findings BY <1>2, <2>4
    <3> QED BY <2>1, <2>2, <3>1
  <2> QED BY <2>3, <2>4
<1>4. HostTypeOK'
  <2>1. view' \in [Ports -> Sight] /\ said' \in [Ports -> Sight] BY <1>1, ObserveKind DEF Commit
  <2>2. host' \in Stamp /\ host' # 0 BY <1>1, CommitParts DEF HostTypeOK, Stamp
  <2>3. found' \in BOOLEAN /\ empty' \in BOOLEAN /\ findings' \in 0 .. 2
    <3>1. {found, empty} \subseteq BOOLEAN /\ res[t].finds \in BOOLEAN BY <1>1 DEF HostTypeOK, ResultKind
    <3>2. found' \in BOOLEAN BY <1>2, <3>1, Zenon
    <3>3. (res[t].open = {}) \in BOOLEAN OBVIOUS
    <3>4. empty' \in BOOLEAN BY <1>2, <3>1, <3>3
    <3> QED BY <1>3, <3>2, <3>4
  <2>4. lock' \in Stamp /\ \A u \in Results : lock' = u <=> res'[u].pc = "commit"
    BY <1>1, <1>2, CommitParts DEF None, Stamp
  <2>5. res' \in [Results -> ResultKind] BY CommitParts
  <2>6. aged' \in BOOLEAN /\ swept' \in BOOLEAN BY <1>1, <1>2 DEF HostTypeOK
  <2> QED BY <1>1, <1>2, <2>1, <2>2, <2>3, <2>4, <2>5, <2>6 DEF HostTypeOK, ResultKind, Sight
\* Where something newly is said of a port, this result says it.
<1>5. \A p \in Ports, u \in Results : said'[p].at = u => u = t \/ said[p].at = u
  <2> SUFFICES ASSUME NEW p \in Ports PROVE said'[p].at = t \/ said'[p] = said[p] OBVIOUS
  <2>1. said'[p] = IF p \in res[t].open \cup res[t].covers /\ said[p].at < t
                   THEN [at |-> t, open |-> p \in res[t].open] ELSE said[p]
    BY ObserveIs DEF Commit
  <2> QED BY <2>1
<1>6. InOrder'
  <2>1. \A s, u \in Results : u < s /\ res'[s].pc # "none" => res'[u].pc # "none"
    BY CommitParts DEF HostInv, InOrder
  <2>2. \A p \in Ports, u \in Results : said'[p].at = u => Committed(u)'
    BY <1>5, CommitParts DEF HostInv, InOrder
  <2> QED BY <2>1, <2>2 DEF InOrder
<1>7. RacesAreKnown'
  <2> SUFFICES ASSUME NEW s \in Results, NEW u \in Results, u < s, Under(u)',
                      Looked(s)' \/ \E p \in Ports : said'[p].at = s
               PROVE  res'[u].open \subseteq raced
    BY <1>2 DEF RacesAreKnown
  <2>1. Under(u) /\ res'[u] = res[u] BY CommitParts
  <2>2. Looked(s) \/ \E p \in Ports : said[p].at = s BY <1>5, CommitParts
  <2> QED BY <2>1, <2>2 DEF HostInv, RacesAreKnown
<1>8. \A p \in Ports : SightOf(p)' BY CommitKeepsSight
<1>9. NewIsNew' BY <1>2, CommitParts DEF NewIsNew
<1>10. EmptyWasSwept'
  <2>1. empty' => swept BY <1>2, CommitParts DEF HostInv, EmptyWasSwept
  <2> QED BY <1>2, <2>1, CommitParts DEF EmptyWasSwept
<1>11. ResultsAlone'
  <2> SUFFICES ASSUME ~muddled' PROVE ResultsAlone' BY DEF ResultsAlone
  <2>1. ~muddled BY <1>2
  <2>2. \A s, u \in Results : Active(u) /\ res[s].pc # "none" => s <= u BY <2>1 DEF HostInv, ResultsAlone
  <2>3. \A u \in Results : Active(u)' => u = t BY <2>1, CommitParts DEF HostInv, ResultsAlone
  <2>4. \A u \in Results : ~Looked(u)'
    <3>1. \A u \in Results : Looked(u) => Active(u) BY DEF Looked, Active, Under
    <3> QED BY <2>1, <3>1, CommitParts DEF HostInv, ResultsAlone
  <2>5. \A u \in Results : res'[u].pc = "tell" => IsToTell(u)'
    <3>1. \A u \in Results : res'[u].pc = "tell" => u = t BY <2>3 DEF Active
    <3> QED BY <2>1, <3>1, CommitIsToTell
  <2>6. res'[t].pc = "tell" BY CommitParts
  <2>7. \A s, u \in Results : Active(u)' /\ res'[s].pc # "none" => s <= u BY <2>2, CommitParts
  <2> QED BY <2>3, <2>4, <2>5, <2>6, <2>7 DEF ResultsAlone
<1>12. \A u \in Results : res'[u].skips \subseteq excluded' BY <1>2, CommitParts DEF HostInv
<1> QED BY <1>2, <1>3, <1>4, <1>6, <1>7, <1>8, <1>9, <1>10, <1>11, <1>12 DEF HostInv

LEMMA TellStep ==
  ASSUME HostInv, NEW t \in Results, Tell(t)
  PROVE  HostInv'
<1>1. HostTypeOK /\ res \in [Results -> ResultKind] /\ res[t] \in ResultKind BY HostFound DEF HostInv
<1> DEFINE silent == {p \in res[t].open \ res[t].read : ~res[t].new /\ p[1] \in Numbers(res[t].read)}
<1>2. /\ UNCHANGED <<host, aged, view, found, lock, sweep, hostFaults, said, raced, muddled, excluded,
                     findings, empty, swept>>
      /\ told' = (IF res[t].new THEN res[t].open ELSE (told \cup Opened(t)) \ Closed(t))
      /\ masked' = (IF res[t].new THEN {} ELSE (masked \cup silent) \ Closed(t))
      /\ unfounded' = unfounded \cup (Closed(t) \ (res[t].covers \ res[t].skips))
  BY DEF Tell, record
<1>3. /\ res' \in [Results -> ResultKind] /\ \A u \in Results \ {t} : res'[u] = res[u]
      /\ res'[t].pc = "done" /\ res[t].pc = "tell" /\ res'[t].skips = res[t].skips
  BY <1>1, NextPhase DEF Tell, HostPhases
<1>4. /\ res[t].open \subseteq Ports /\ res[t].covers \subseteq Ports
      /\ Closed(t) \subseteq res[t].covers /\ Closed(t) \cap res[t].open = {}
      /\ Opened(t) \subseteq res[t].open
  BY <1>1 DEF ResultKind, Closed, Opened
<1>5. unfounded' \subseteq excluded'
  <2>1. res[t].skips \subseteq excluded /\ unfounded \subseteq excluded BY DEF HostInv
  <2> QED BY <1>2, <1>4, <2>1
<1>6. HostTypeOK'
  <2>1. \A u \in Results : lock' = u <=> res'[u].pc = "commit" BY <1>1, <1>2, <1>3 DEF HostTypeOK
  <2>2. told \subseteq Ports /\ masked \subseteq Ports /\ unfounded \subseteq Ports BY <1>1 DEF HostTypeOK
  <2>3. told' \subseteq Ports /\ masked' \subseteq Ports /\ unfounded' \subseteq Ports
    BY <1>2, <1>4, <2>2
  <2> QED BY <1>1, <1>2, <1>3, <2>1, <2>3 DEF HostTypeOK, ResultKind
<1>7. \A u \in Results : /\ Active(u)' => Active(u) /\ u # t
                         /\ Under(u)' => Under(u) /\ res'[u].open = res[u].open
                         /\ Looked(u)' => Looked(u) /\ res'[u].read = res[u].read /\ Active(u)'
                         /\ res'[u].pc = "none" <=> res[u].pc = "none"
                         /\ res'[u].pc \in {"read", "upsert", "commit"} => res'[u] = res[u]
                         /\ res'[u].pc = "tell" => Active(u)' /\ res[u].pc = "tell"
                         /\ Committed(u) => Committed(u)'
  BY <1>3 DEF Active, Under, Looked, Committed
<1>8. InOrder' /\ RacesAreKnown' /\ \A p \in Ports : SightOf(p)'
  BY <1>2, <1>7, OrderStays, RacesStay, SightStays
<1>9. NewIsNew' BY <1>2, <1>7 DEF HostInv, NewIsNew
<1>10. EmptyWasSwept' BY <1>2, <1>7 DEF HostInv, EmptyWasSwept
<1>11. ResultsAlone'
  <2> SUFFICES ASSUME ~muddled' PROVE ResultsAlone' BY DEF ResultsAlone
  <2>1. ~muddled /\ Active(t) BY <1>2, <1>3 DEF Active
  <2>2. \A u \in Results : ~Active(u)' BY <1>7, <2>1 DEF HostInv, ResultsAlone
  <2>3. IsToTell(t) BY <1>3, <2>1 DEF HostInv, ResultsAlone
  <2>4. OpenPorts' = OpenPorts BY <1>2 DEF OpenPorts
  <2>5. CASE res[t].new
    <3>1. OpenPorts = res[t].open BY <2>3, <2>5 DEF IsToTell
    <3> QED BY <1>2, <1>7, <2>2, <2>4, <2>5, <3>1 DEF ResultsAlone, TellsTheView
  <2>6. CASE ~res[t].new
    <3>1. /\ OpenPorts = (res[t].read \ Closed(t)) \cup res[t].open
          /\ res[t].read \subseteq told \cup masked /\ told \subseteq res[t].read
      BY <2>3, <2>6 DEF IsToTell
    <3>2. \A p \in res[t].open \ res[t].read : p \in Opened(t) \/ p \in silent BY <2>6 DEF Opened
    <3> HIDE DEF silent
    <3>3. OpenPorts \subseteq told' \cup masked' BY <1>2, <1>4, <2>6, <3>1, <3>2
    <3>4. told' \subseteq OpenPorts BY <1>2, <1>4, <2>6, <3>1
    <3> QED BY <1>7, <2>2, <2>4, <3>3, <3>4 DEF ResultsAlone, TellsTheView
  <2> QED BY <2>5, <2>6
<1>12. \A u \in Results : res'[u].skips \subseteq excluded' BY <1>2, <1>3 DEF HostInv
<1> QED BY <1>2, <1>5, <1>6, <1>8, <1>9, <1>10, <1>11, <1>12 DEF HostInv

LEMMA HostInvStep == HostInv /\ [HostNext]_hostVars => HostInv'
<1> SUFFICES ASSUME HostInv, [HostNext]_hostVars PROVE HostInv' OBVIOUS
<1>1. CASE ResultBegins(Results, SUBSET Numbers(Ports)) BY <1>1, BeginStep DEF ResultBegins
<1>2. ASSUME NEW t \in Results, ResultStep(t) \/ Rollback(t) PROVE HostInv'
  BY <1>2, QuietStep, ReadOpenStep, CommitStep, TellStep DEF ResultStep
<1>3. CASE Ages \/ SweepReads \/ UNCHANGED hostVars
  <2>1. UNCHANGED <<host, view, found, lock, res, hostFaults, hostHistory>>
    BY <1>3 DEF Ages, SweepReads, hostVars, record, hostHistory
  <2>2. aged' \in BOOLEAN /\ sweep' \in Stamp
    BY <1>3 DEF HostInv, HostTypeOK, Ages, SweepReads, hostVars, record
  <2> QED BY <2>1, <2>2, RecordIsKept
<1>4. CASE SweepDeletes
  <2>1. sweep' \in Stamp BY <1>4 DEF SweepDeletes, Stamp
  <2>2. CASE Delete BY <2>1, <2>2, DeleteStep
  <2>3. CASE UNCHANGED <<record, lock, res, hostFaults, hostHistory>>
    <3>1. UNCHANGED <<host, view, found, lock, res, hostFaults, hostHistory>> /\ aged' \in BOOLEAN
      BY <2>3 DEF record, HostInv, HostTypeOK
    <3> QED BY <2>1, <3>1, RecordIsKept
  <2> QED BY <1>4, <2>2, <2>3 DEF SweepDeletes
<1>5. CASE UserDeletes
  <2>1. sweep' \in Stamp BY <1>5 DEF UserDeletes, HostInv, HostTypeOK
  <2> QED BY <1>5, <2>1, DeleteStep DEF UserDeletes
<1>6. CASE HostRestart BY <1>6, RestartOfHost
<1> QED BY <1>1, <1>2, <1>3, <1>4, <1>5, <1>6 DEF HostNext, HostSteps

LEMMA HostInvHolds == HostSpec => []HostInv
BY HostInvInit, HostInvStep, PTL DEF HostSpec

\* The record of a host is what the latest results said of each port, in
\* whatever order overlapping results commit, but where one of them looked
\* before the one that opened the port had committed; and a result without
\* ports makes no host unless it was deleted under it (ingestHostPayload in
\* ingest/routes.ts).
THEOREM RecordStaysLatest == HostSpec => []RecordIsLatest
<1>1. HostInv => RecordIsLatest
  BY DEF HostInv, SightOf, EmptyWasSwept, RecordIsLatest, ViewIsLatest, EmptyMakesNoHost
<1> QED BY <1>1, HostInvHolds, PTL

\* While results do not overlap, the alerts for a host tell what is shown of
\* it; a port is said to have closed only by a scan that covered it, and a
\* finding alerts once in its life (ingest/routes.ts).
THEOREM AlertsStayTrue == HostSpec => []AlertsAreTrue
<1>1. HostInv => AlertsAreTrue
  BY DEF HostInv, ResultsAlone, TellsTheView, AlertsAreTrue, AlertsTellTheView, ClosedWasCovered,
         FindingAlertsOnce
<1> QED BY <1>1, HostInvHolds, PTL


(***************************************************************************)
(* Uptime. A counter reads what is left of the time since a boot after     *)
(* some number of wraps, and the boot time on record lies that many wraps, *)
(* and the time its result was kept, after the boot. What the comparison   *)
(* of two of them says then follows by arithmetic.                         *)
(***************************************************************************)

LEMMA WrapAssumption ==
  /\ Tolerance \in Nat /\ Wrap \in Nat /\ Wrap > 2 * Tolerance /\ Wrap > 0
  /\ MaxTime \in Nat /\ MaxBoots \in Nat /\ MaxBoots >= 1 /\ MaxWaiting \in Nat /\ MaxDelay \in Nat
BY UptimeAssumption

\* A counter that has wrapped q times.
LEMMA WrapsAre ==
  ASSUME NEW x \in Nat, NEW W \in Nat, W > 0
  PROVE  x % W \in Nat /\ x % W < W /\ x % W =< x /\ \E q \in Nat : x % W = x - q * W
<1>1. x % W \in 0 .. W - 1 OBVIOUS
<1>2. x % W =< x OBVIOUS
<1>3. \E q \in Nat : x % W = x - q * W OBVIOUS
<1> QED BY <1>1, <1>2, <1>3

LEMMA WrapsVanish ==
  ASSUME NEW j \in Int, NEW y \in Nat, NEW W \in Nat, y < W
  PROVE  (j * W + y) % W = y
OBVIOUS

LEMMA WrapsAdd ==
  ASSUME NEW m \in Int, NEW k \in Int, NEW W \in Nat, W > 0
  PROVE  /\ m * W \in Int /\ k * W \in Int
         /\ m * W - k * W = (m - k) * W
         /\ m * W > k * W => m - k >= 1 /\ m * W - k * W >= W
         /\ m \in Nat => m * W >= 0
<1>1. m * W \in Int /\ k * W \in Int /\ m * W - k * W = (m - k) * W OBVIOUS
<1>2. m * W > k * W => m - k >= 1
  <2>1. m - k =< 0 => (m - k) * W =< 0 OBVIOUS
  <2> QED BY <1>1, <2>1
<1>3. m - k >= 1 => (m - k) * W >= W OBVIOUS
<1>4. m \in Nat => m * W >= 0 OBVIOUS
<1> QED BY <1>1, <1>2, <1>3, <1>4

\* What reads a counter of the boot at `boot`, at the time `at`.
Reads(up, at, boot, wraps) == up = at - boot - wraps * Wrap

ReadingTrue(r) ==
  /\ r.of \in Boots /\ booted[r.of] =< r.taken /\ r.taken =< now
  /\ r.up > 0
  /\ r.source = "engine" => r.boots = r.of /\ Reads(r.up, r.taken, booted[r.of], 0)
  /\ r.source = "sysuptime" => r.boots = 0 /\ \E m \in Nat : Reads(r.up, r.taken, booted[r.of], m)

StoredTrue ==
  /\ stored.bootTime =< now
  /\ stored.of = 0 <=> stored.source = "none"
  /\ stored.of > 0 => /\ stored.of \in Boots
                      /\ \E k \in Nat : stored.bootTime = booted[stored.of] + stored.late + k * Wrap

BootsTold ==
  /\ UptimeTypeOK /\ IsFiniteSet(waiting)
  /\ \A b \in Boots : booted[b] =< now
  /\ \A r \in waiting : ReadingTrue(r)
  /\ StoredTrue

BootsInv == BootsTold /\ RebootsAreReal /\ RebootsAreNoticed

\* UptimeTypeOK with its parts as the arithmetic needs them.
LEMMA UptimeParts ==
  UptimeTypeOK <=>
    /\ now \in Time
    /\ \E n \in 1 .. MaxBoots : Boots = 1 .. n
    /\ booted \in [Boots -> Time]
    /\ waiting \subseteq Readings /\ Cardinality(waiting) =< MaxWaiting
    /\ stored \in [bootTime : Time, source : Sources \cup {"none"}, boots : 0 .. MaxBoots,
                   of : 0 .. MaxBoots, late : Time]
    /\ verdict \in [rebooted : BOOLEAN, real : BOOLEAN,
                    excuses : SUBSET {"late", "edge", "mixed", "overtaken", "coincidence", "soon"}]
    /\ stored.source = "engine" => stored.boots > 0
<1>1. Boots \in {1 .. n : n \in 1 .. MaxBoots} <=> \E n \in 1 .. MaxBoots : Boots = 1 .. n
  OBVIOUS
<1> QED BY <1>1, Zenon DEF UptimeTypeOK

LEMMA BootsType ==
  ASSUME UptimeTypeOK
  PROVE  /\ now \in Nat /\ now =< MaxTime
         /\ LastBoot \in 1 .. MaxBoots /\ Boots = 1 .. LastBoot
         /\ booted \in [Boots -> Time] /\ booted = [b \in Boots |-> booted[b]]
         /\ \A b \in Boots : booted[b] \in Nat
<1>1. PICK n \in 1 .. MaxBoots : Boots = 1 .. n BY UptimeParts
<1>2. n \in Nat /\ 1 \in Int /\ n >= 1 BY <1>1, WrapAssumption
<1>3. Cardinality(1 .. n) = n - 1 + 1 BY <1>2, FS_Interval
<1>4. LastBoot = n BY <1>1, <1>2, <1>3 DEF LastBoot
<1>5. now \in Nat /\ now =< MaxTime BY UptimeParts, WrapAssumption DEF Time
<1>6. booted \in [Boots -> Time] BY UptimeParts
<1> QED BY <1>1, <1>4, <1>5, <1>6, WrapAssumption DEF Time

LEMMA ReadingsAre ==
  ASSUME UptimeTypeOK, NEW r \in waiting
  PROVE  /\ r.up \in Nat /\ r.source \in Sources /\ r.boots \in 0 .. MaxBoots /\ r.taken \in Nat
         /\ r.of \in 1 .. MaxBoots /\ r \in Readings /\ r.up =< MaxTime
BY UptimeParts, WrapAssumption DEF Readings, Time

LEMMA StoredIs ==
  ASSUME UptimeTypeOK
  PROVE  /\ stored.bootTime \in Nat /\ stored.late \in Nat /\ stored.boots \in 0 .. MaxBoots
         /\ stored.of \in 0 .. MaxBoots /\ stored.source \in Sources \cup {"none"}
BY UptimeParts, WrapAssumption DEF Time

LEMMA BootsInit == UptimeInit => BootsInv
<1> SUFFICES ASSUME UptimeInit PROVE BootsInv OBVIOUS
<1>1. Boots = 1 .. 1 BY DEF UptimeInit, Boots
<1>2. now = 0 /\ now \in Time BY WrapAssumption DEF UptimeInit, Time
<1>3. booted \in [Boots -> Time] /\ \A b \in Boots : booted[b] =< now
  BY <1>1, <1>2 DEF UptimeInit, Boots
<1>4. waiting = {} /\ IsFiniteSet(waiting) /\ Cardinality(waiting) = 0
  BY FS_EmptySet DEF UptimeInit
<1>5. stored = NoUptime /\ NoUptime.source = "none" /\ NoUptime.of = 0 /\ NoUptime.bootTime = 0
  BY DEF UptimeInit, NoUptime
<1>6. /\ stored \in [bootTime : Time, source : Sources \cup {"none"}, boots : 0 .. MaxBoots,
                     of : 0 .. MaxBoots, late : Time]
      /\ stored.source # "engine"
  BY <1>2, <1>5, WrapAssumption DEF NoUptime
<1>7. /\ verdict \in [rebooted : BOOLEAN, real : BOOLEAN,
                      excuses : SUBSET {"late", "edge", "mixed", "overtaken", "coincidence", "soon"}]
      /\ ~verdict.rebooted /\ ~verdict.real
  BY DEF UptimeInit, NoVerdict
<1>8. UptimeTypeOK
  <2>1. \E n \in 1 .. MaxBoots : Boots = 1 .. n BY <1>1, WrapAssumption
  <2> QED BY <2>1, <1>2, <1>3, <1>4, <1>6, <1>7, WrapAssumption, UptimeParts
<1>9. StoredTrue BY <1>2, <1>5 DEF StoredTrue
<1> QED BY <1>3, <1>4, <1>7, <1>8, <1>9 DEF BootsInv, BootsTold, RebootsAreReal, RebootsAreNoticed

LEMMA TickTells == ASSUME BootsInv, Tick PROVE BootsInv'
<1>1. /\ UNCHANGED <<booted, waiting, stored, verdict>>
      /\ now \in Nat /\ now' = now + 1 /\ now' \in Time
  BY BootsType, WrapAssumption DEF BootsInv, BootsTold, Tick, Time
<1>2. Boots' = Boots BY <1>1 DEF Boots
<1>3. UptimeTypeOK' BY <1>1, <1>2, Zenon DEF BootsInv, BootsTold, UptimeTypeOK
<1>4. \A b \in Boots' : booted'[b] =< now'
  <2>1. \A b \in Boots : booted[b] \in Nat /\ booted[b] =< now BY BootsType DEF BootsInv, BootsTold
  <2> QED BY <1>1, <1>2, <2>1
<1>5. ASSUME NEW r \in waiting' PROVE ReadingTrue(r)'
  <2>1. r \in waiting /\ ReadingTrue(r) BY <1>1 DEF BootsInv, BootsTold
  <2>2. r.taken \in Nat BY <2>1, ReadingsAre DEF BootsInv, BootsTold
  <2> QED BY <1>1, <1>2, <2>1, <2>2 DEF ReadingTrue, Reads
<1>6. StoredTrue'
  <2>1. stored.bootTime \in Nat BY StoredIs DEF BootsInv, BootsTold
  <2> QED BY <1>1, <1>2, <2>1 DEF StoredTrue, BootsInv, BootsTold
<1> QED BY <1>1, <1>3, <1>4, <1>5, <1>6 DEF BootsInv, BootsTold, RebootsAreReal, RebootsAreNoticed

LEMMA DeviceRebootTells == ASSUME BootsInv, DeviceReboots PROVE BootsInv'
<1>t. UptimeTypeOK BY DEF BootsInv, BootsTold
<1>1. /\ UNCHANGED <<now, waiting, stored, verdict>> /\ LastBoot < MaxBoots
      /\ booted' = [b \in 1 .. LastBoot + 1 |-> IF b \in Boots THEN booted[b] ELSE now]
  BY DEF DeviceReboots
<1>2. Boots' = 1 .. LastBoot + 1 /\ Boots \subseteq Boots' /\ LastBoot + 1 \in 1 .. MaxBoots
  BY <1>1, <1>t, BootsType, WrapAssumption DEF Boots
<1>3. \A b \in Boots : booted'[b] = booted[b] BY <1>1, <1>2
<1>4. \A b \in Boots' : booted'[b] \in Time /\ booted'[b] =< now
  <2>1. \A b \in Boots : booted[b] \in Time /\ booted[b] =< now
    BY <1>t, BootsType DEF BootsInv, BootsTold
  <2>2. now \in Time /\ now =< now BY <1>t, BootsType, UptimeParts
  <2> QED BY <1>1, <1>2, <2>1, <2>2
<1>5. UptimeTypeOK'
  <2>1. Boots' \in {1 .. n : n \in 1 .. MaxBoots} BY <1>2, Zenon
  <2>2. booted' \in [Boots' -> Time] BY <1>1, <1>2, <1>4
  <2> QED BY <1>1, <1>t, <2>1, <2>2, Zenon DEF UptimeTypeOK
<1>6. ASSUME NEW r \in waiting' PROVE ReadingTrue(r)'
  <2>1. r \in waiting /\ ReadingTrue(r) BY <1>1 DEF BootsInv, BootsTold
  <2> QED BY <1>1, <1>2, <1>3, <2>1 DEF ReadingTrue, Reads
<1>7. StoredTrue' BY <1>1, <1>2, <1>3 DEF StoredTrue, BootsInv, BootsTold
<1> QED BY <1>1, <1>4, <1>5, <1>6, <1>7 DEF BootsInv, BootsTold, RebootsAreReal, RebootsAreNoticed

LEMMA ProbeTells == ASSUME BootsInv, NEW s \in Sources, Probe(s) PROVE BootsInv'
<1> DEFINE age == now - booted[LastBoot]
           reading == [up |-> IF s = "engine" THEN age ELSE age % Wrap, source |-> s,
                       boots |-> IF s = "engine" THEN LastBoot ELSE 0,
                       taken |-> now, of |-> LastBoot]
<1>t. UptimeTypeOK BY DEF BootsInv, BootsTold
<1>1. /\ UNCHANGED <<now, booted, stored, verdict>> /\ reading.up > 0
      /\ waiting' = waiting \cup {reading} /\ Cardinality(waiting) < MaxWaiting
  BY DEF Probe
<1>2. /\ now \in Nat /\ now =< MaxTime /\ LastBoot \in 1 .. MaxBoots /\ LastBoot \in Boots
      /\ booted[LastBoot] \in Nat /\ booted[LastBoot] =< now
  BY <1>t, BootsType DEF BootsInv, BootsTold
<1>3. age \in Nat /\ age =< MaxTime BY <1>2, WrapAssumption
<1>4. age % Wrap \in Nat /\ age % Wrap =< age /\ \E m \in Nat : age % Wrap = age - m * Wrap
  BY <1>3, WrapAssumption, WrapsAre
<1>5. reading \in Readings
  <2>1. reading.up \in Time /\ now \in Time BY <1>2, <1>3, <1>4, WrapAssumption DEF Time
  <2> QED BY <1>2, <2>1, WrapAssumption DEF Readings
<1>6. PICK rd \in Readings : rd = reading BY <1>5
<1>7. Boots' = Boots BY <1>1 DEF Boots
<1>8. ReadingTrue(rd)'
  <2>1. rd.of = LastBoot /\ rd.taken = now /\ rd.source = s /\ rd.up > 0 BY <1>1, <1>6
  <2>2. CASE s = "engine"
    <3>1. rd.boots = LastBoot /\ rd.up = now - booted[LastBoot] - 0 * Wrap
      BY <2>2, <1>2, <1>3, <1>6, WrapAssumption
    <3> QED BY <2>1, <2>2, <3>1, <1>1, <1>2, <1>7 DEF ReadingTrue, Reads
  <2>3. CASE s = "sysuptime"
    <3>1. rd.boots = 0 /\ \E m \in Nat : rd.up = now - booted[LastBoot] - m * Wrap
      BY <2>3, <1>4, <1>6
    <3> QED BY <2>1, <2>3, <3>1, <1>1, <1>2, <1>7 DEF ReadingTrue, Reads
  <2> QED BY <2>2, <2>3 DEF Sources
<1>9. waiting' = waiting \cup {rd} BY <1>1, <1>6
<1> HIDE DEF reading
<1>10. IsFiniteSet(waiting') /\ Cardinality(waiting') =< MaxWaiting
  <2>1. IsFiniteSet(waiting) BY DEF BootsInv, BootsTold
  <2>2. Cardinality(waiting) \in Nat BY <2>1, FS_CardinalityType
  <2>3. /\ IsFiniteSet(waiting \cup {rd})
        /\ Cardinality(waiting \cup {rd}) =
             IF rd \in waiting THEN Cardinality(waiting) ELSE Cardinality(waiting) + 1
    BY <2>1, FS_AddElement
  <2>4. Cardinality(waiting) < MaxWaiting BY <1>1
  <2>5. Cardinality(waiting \cup {rd}) =< MaxWaiting BY <2>2, <2>3, <2>4, WrapAssumption
  <2> QED BY <1>9, <2>3, <2>5
<1>11. UptimeTypeOK'
  <2>1. waiting' \subseteq Readings BY <1>9, <1>t, UptimeParts
  <2> QED BY <1>1, <1>t, <1>7, <1>10, <2>1, Zenon DEF UptimeTypeOK
<1>12. ASSUME NEW r \in waiting' PROVE ReadingTrue(r)'
  <2>1. CASE r = rd BY <2>1, <1>8
  <2>2. CASE r \in waiting BY <2>2, <1>1, <1>7 DEF ReadingTrue, Reads, BootsInv, BootsTold
  <2> QED BY <1>9, <2>1, <2>2
<1>13. StoredTrue' BY <1>1, <1>7 DEF StoredTrue, BootsInv, BootsTold
<1> QED BY <1>1, <1>7, <1>10, <1>11, <1>12, <1>13 DEF BootsInv, BootsTold, RebootsAreReal, RebootsAreNoticed

\* When each excuse is one.
LEMMA ExcusesAre ==
  ASSUME NEW r
  PROVE  /\ "late" \notin Excuses(r) => ~(now - r.taken > Tolerance) /\ ~(stored.late > Tolerance)
         /\ "edge" \notin Excuses(r) =>
              ~(r.source = "sysuptime" /\ (r.up =< Tolerance \/ r.up >= Wrap - Tolerance))
         /\ "mixed" \notin Excuses(r) => stored.boots \in {0, stored.of}
         /\ "overtaken" \notin Excuses(r) => ~(r.of < stored.of)
         /\ "coincidence" \notin Excuses(r) => ~IsWrap(r)
         /\ "soon" \notin Excuses(r) => ~(stored.of > 0 /\ booted[r.of] - stored.bootTime =< Tolerance)
BY DEF Excuses

\* Two readings of one boot, both ingested in time and away from the wrap: if
\* the boot time moves, it moves by wraps.
LEMMA MovesByWraps ==
  ASSUME BootsTold, NEW r \in waiting, stored.of > 0, r.of = stored.of, MovedLater(r),
         now - r.taken =< Tolerance, stored.late =< Tolerance,
         r.source = "sysuptime" => r.up > Tolerance /\ r.up < Wrap - Tolerance
  PROVE  IsWrap(r)
<1> DEFINE boot == booted[r.of]
<1>1. UptimeTypeOK /\ ReadingTrue(r) /\ StoredTrue BY DEF BootsTold
<1>2. /\ now \in Nat /\ boot \in Nat /\ r.up \in Nat /\ r.taken \in Nat /\ r.taken =< now
      /\ stored.bootTime \in Nat /\ stored.late \in Nat /\ stored.bootTime =< now
      /\ r.source \in Sources
  BY <1>1, BootsType, ReadingsAre, StoredIs DEF ReadingTrue, StoredTrue
<1>3. PICK m \in Nat : r.up = r.taken - boot - m * Wrap /\ (r.source = "engine" => m = 0)
  BY <1>1, <1>2 DEF ReadingTrue, Reads, Sources
<1>4. PICK k \in Nat : stored.bootTime = boot + stored.late + k * Wrap
  BY <1>1 DEF StoredTrue
<1>5. (now - r.up) - stored.bootTime > Tolerance BY DEF MovedLater
<1> HIDE DEF boot
<1>6. /\ m * Wrap \in Int /\ k * Wrap \in Int
      /\ m * Wrap - k * Wrap = (m - k) * Wrap
      /\ m * Wrap > k * Wrap => m - k >= 1 /\ m * Wrap - k * Wrap >= Wrap
  BY WrapAssumption, WrapsAdd
<1> DEFINE M == m * Wrap
           K == k * Wrap
           y == r.up + (now - r.taken) - stored.late
<1>7. M \in Int /\ K \in Int /\ r.up = r.taken - boot - M /\ stored.bootTime = boot + stored.late + K
  BY <1>3, <1>4, <1>6
<1> HIDE DEF M, K
<1>8. M > K BY <1>2, <1>5, <1>7, WrapAssumption
<1>9. m - k >= 1 /\ M - K >= Wrap /\ M - K = (m - k) * Wrap BY <1>6, <1>8 DEF M, K
<1>10. r.source = "sysuptime"
  <2>1. m # 0 BY <1>9
  <2> QED BY <1>2, <1>3, <2>1 DEF Sources
<1>11. /\ y \in Nat /\ y > 0 /\ y < Wrap /\ Near(r.up, y)
       /\ now - stored.bootTime = (M - K) + y
  BY <1>2, <1>7, <1>10, WrapAssumption DEF Near
<1> HIDE DEF y
<1>12. (now - stored.bootTime) % Wrap = y
  <2>1. ((m - k) * Wrap + y) % Wrap = y BY <1>11, WrapAssumption, WrapsVanish
  <2> QED BY <1>9, <1>11, <2>1
<1>13. now - stored.bootTime >= Wrap BY <1>6, <1>9, <1>11, WrapAssumption DEF M, K
<1> QED BY <1>10, <1>11, <1>12, <1>13 DEF IsWrap

\* A later boot than the one on record moves the boot time.
LEMMA LaterBootMoves ==
  ASSUME BootsTold, NEW r \in waiting, booted[r.of] - stored.bootTime > Tolerance
  PROVE  MovedLater(r)
<1>1. UptimeTypeOK /\ ReadingTrue(r) BY DEF BootsTold
<1>2. /\ now \in Nat /\ booted[r.of] \in Nat /\ r.up \in Nat /\ r.taken \in Nat /\ r.taken =< now
      /\ stored.bootTime \in Nat /\ r.source \in Sources
  BY <1>1, BootsType, ReadingsAre, StoredIs DEF ReadingTrue
<1>3. PICK m \in Nat : r.up = r.taken - booted[r.of] - m * Wrap
  BY <1>1, <1>2 DEF ReadingTrue, Reads, Sources
<1>4. m * Wrap \in Int /\ m * Wrap >= 0 BY WrapAssumption, WrapsAdd
<1> DEFINE M == m * Wrap
<1> HIDE DEF M
<1>5. r.up = r.taken - booted[r.of] - M /\ M \in Int /\ M >= 0 BY <1>3, <1>4 DEF M
<1> QED BY <1>2, <1>5, WrapAssumption DEF MovedLater

LEMMA IngestTells == ASSUME BootsInv, NEW r \in waiting, IngestUptime(r) PROVE BootsInv'
<1>t. UptimeTypeOK /\ BootsTold BY DEF BootsInv, BootsTold
<1>1. /\ UNCHANGED <<now, booted>> /\ waiting' = waiting \ {r} /\ stored' = Reconcile(r)
      /\ verdict' = [rebooted |-> Rebooted(r), real |-> stored.of > 0 /\ r.of > stored.of,
                     excuses |-> Excuses(r)]
  BY DEF IngestUptime
<1>2. ReadingTrue(r) /\ StoredTrue BY DEF BootsInv, BootsTold
<1>3. /\ now \in Nat /\ now =< MaxTime /\ booted[r.of] \in Nat /\ r.up \in Nat /\ r.taken \in Nat
      /\ r.taken =< now /\ r.of \in 1 .. MaxBoots /\ r.of \in Boots
      /\ r.source \in Sources /\ r.boots \in 0 .. MaxBoots /\ booted[r.of] =< r.taken
  BY <1>t, <1>2, BootsType, ReadingsAre DEF ReadingTrue
<1>4. /\ stored.bootTime \in Nat /\ stored.late \in Nat /\ stored.boots \in 0 .. MaxBoots
      /\ stored.of \in 0 .. MaxBoots /\ stored.source \in Sources \cup {"none"}
  BY <1>t, StoredIs
<1>5. r.boots > 0 => r.source = "engine" /\ r.boots = r.of BY <1>2, <1>3 DEF ReadingTrue, Sources
<1>6. PICK m \in Nat : r.up = r.taken - booted[r.of] - m * Wrap
  BY <1>2, <1>3 DEF ReadingTrue, Reads, Sources
<1>7. m * Wrap \in Int /\ m * Wrap >= 0 BY WrapAssumption, WrapsAdd
<1>8. r.up =< r.taken
  <2> DEFINE M == m * Wrap
  <2> HIDE DEF M
  <2>1. r.up = r.taken - booted[r.of] - M /\ M \in Int /\ M >= 0 BY <1>6, <1>7 DEF M
  <2> QED BY <1>3, <2>1
<1> DEFINE new == [bootTime |-> now - r.up, source |-> r.source,
                   boots |-> IF r.boots > 0 THEN r.boots ELSE stored.boots, of |-> r.of,
                   late |-> now - r.taken]
<1>9. stored' = stored \/ stored' = new BY <1>1 DEF Reconcile
<1>10. /\ new \in [bootTime : Time, source : Sources \cup {"none"}, boots : 0 .. MaxBoots,
                   of : 0 .. MaxBoots, late : Time]
       /\ new.source = "engine" => new.boots > 0
  <2>1. now - r.up \in Time /\ now - r.taken \in Time BY <1>3, <1>8, WrapAssumption DEF Time
  <2>2. r.source = "engine" => r.boots > 0 BY <1>2, <1>3 DEF ReadingTrue
  <2> QED BY <1>3, <1>4, <2>1, <2>2, WrapAssumption
<1>11. new.bootTime = booted[r.of] + new.late + m * Wrap /\ new.bootTime =< now
  <2> DEFINE M == m * Wrap
  <2> HIDE DEF M
  <2>1. r.up = r.taken - booted[r.of] - M /\ M \in Int BY <1>6, <1>7 DEF M
  <2>2. now - r.up = booted[r.of] + (now - r.taken) + M /\ now - r.up =< now BY <1>3, <2>1
  <2> QED BY <2>2 DEF M
<1>12. Boots' = Boots BY <1>1 DEF Boots
<1>13. UptimeTypeOK'
  <2>1. /\ waiting' \subseteq Readings /\ IsFiniteSet(waiting) /\ IsFiniteSet(waiting')
        /\ Cardinality(waiting') =< MaxWaiting
    <3>1. IsFiniteSet(waiting) /\ waiting' \subseteq waiting BY <1>1 DEF BootsInv, BootsTold
    <3>2. IsFiniteSet(waiting') /\ Cardinality(waiting') =< Cardinality(waiting)
      BY <3>1, FS_Subset
    <3>3. Cardinality(waiting) \in Nat /\ Cardinality(waiting') \in Nat BY <3>1, <3>2, FS_CardinalityType
    <3>4. waiting \subseteq Readings /\ Cardinality(waiting) =< MaxWaiting BY <1>t, UptimeParts
    <3> QED BY <3>1, <3>2, <3>3, <3>4, WrapAssumption
  <2>2. stored' \in [bootTime : Time, source : Sources \cup {"none"}, boots : 0 .. MaxBoots,
                     of : 0 .. MaxBoots, late : Time]
        /\ (stored'.source = "engine" => stored'.boots > 0)
    BY <1>t, <1>9, <1>10, UptimeParts
  <2>3. verdict' \in [rebooted : BOOLEAN, real : BOOLEAN,
                      excuses : SUBSET {"late", "edge", "mixed", "overtaken", "coincidence", "soon"}]
    <3>1. Excuses(r) \subseteq {"late", "edge", "mixed", "overtaken", "coincidence", "soon"}
      BY Zenon DEF Excuses
    <3>2. Rebooted(r) \in BOOLEAN BY DEF Rebooted, MovedLater
    <3>3. (stored.of > 0 /\ r.of > stored.of) \in BOOLEAN OBVIOUS
    <3> QED BY <1>1, <3>1, <3>2, <3>3, Zenon
  <2> QED BY <1>1, <1>t, <1>12, <2>1, <2>2, <2>3, Zenon DEF UptimeTypeOK
<1>14. IsFiniteSet(waiting')
  <2>1. IsFiniteSet(waiting) /\ waiting' \subseteq waiting BY <1>1 DEF BootsInv, BootsTold
  <2> QED BY <2>1, FS_Subset
<1>15. \A x \in waiting' : ReadingTrue(x)' BY <1>1, <1>12 DEF ReadingTrue, Reads, BootsTold, BootsInv
<1>16. StoredTrue'
  <2>1. CASE stored' = stored BY <2>1, <1>1, <1>2, <1>12 DEF StoredTrue
  <2>2. CASE stored' = new
    <3>1. /\ new.of = r.of /\ new.of > 0 /\ new.of # 0 /\ new.source # "none" BY <1>3 DEF Sources
    <3>2. \E k \in Nat : new.bootTime = booted[new.of] + new.late + k * Wrap BY <1>11, <3>1
    <3> HIDE DEF new
    <3> QED BY <2>2, <3>1, <3>2, <1>1, <1>3, <1>11, <1>12 DEF StoredTrue
  <2> QED BY <1>9, <2>1, <2>2
<1> HIDE DEF new
<1>17. RebootsAreReal'
  <2> SUFFICES ASSUME Rebooted(r), ~(stored.of > 0 /\ r.of > stored.of),
                      Excuses(r) \cap {"late", "edge", "overtaken", "mixed"} = {}
               PROVE  FALSE
    BY <1>1, Zenon DEF RebootsAreReal
  <2>1. stored.source # "none" /\ stored.of > 0 BY <1>2, <1>4 DEF Rebooted, StoredTrue
  <2>2. "late" \notin Excuses(r) /\ "edge" \notin Excuses(r) /\ "overtaken" \notin Excuses(r)
        /\ "mixed" \notin Excuses(r)
    OBVIOUS
  <2>3. r.of = stored.of BY <1>3, <1>4, <2>1, <2>2, ExcusesAre
  <2>4. CASE Counted(r)
    <3>1. r.boots > stored.boots /\ r.boots = r.of BY <2>4, <1>5 DEF Rebooted, Counted
    <3>2. stored.boots = stored.of BY <2>2, <2>4, <1>4, ExcusesAre DEF Counted
    <3> QED BY <2>3, <3>1, <3>2, <1>3
  <2>5. CASE ~Counted(r)
    <3>1. MovedLater(r) /\ ~IsWrap(r) BY <2>5 DEF Rebooted
    <3>2. now - r.taken =< Tolerance /\ stored.late =< Tolerance
      BY <1>3, <1>4, <2>2, ExcusesAre, WrapAssumption
    <3>3. r.source = "sysuptime" => r.up > Tolerance /\ r.up < Wrap - Tolerance
      <4>1. r.up \in Nat BY <1>3
      <4> QED BY <4>1, <2>2, ExcusesAre, WrapAssumption
    <3> QED BY <1>t, <2>1, <2>3, <3>1, <3>2, <3>3, MovesByWraps
  <2> QED BY <2>4, <2>5
<1>18. RebootsAreNoticed'
  <2> SUFFICES ASSUME ~Rebooted(r), stored.of > 0, r.of > stored.of,
                      Excuses(r) \cap {"coincidence", "soon", "mixed"} = {}
               PROVE  FALSE
    BY <1>1, Zenon DEF RebootsAreNoticed
  <2>1. stored.source # "none" BY <1>2, <1>4 DEF StoredTrue
  <2>2. "coincidence" \notin Excuses(r) /\ "soon" \notin Excuses(r) /\ "mixed" \notin Excuses(r)
    OBVIOUS
  <2>3. CASE Counted(r)
    <3>1. r.boots = r.of BY <2>3, <1>5 DEF Counted
    <3>2. stored.boots = stored.of BY <2>2, <2>3, <1>4, ExcusesAre DEF Counted
    <3> QED BY <2>1, <2>3, <3>1, <3>2 DEF Rebooted
  <2>4. CASE ~Counted(r)
    <3>1. booted[r.of] - stored.bootTime > Tolerance
      <4>1. ~(booted[r.of] - stored.bootTime =< Tolerance) BY <2>2, ExcusesAre
      <4> QED BY <4>1, <1>3, <1>4, WrapAssumption
    <3>2. MovedLater(r) BY <1>t, <3>1, LaterBootMoves
    <3>3. ~IsWrap(r) BY <2>2, ExcusesAre
    <3> QED BY <2>1, <2>4, <3>2, <3>3 DEF Rebooted
  <2> QED BY <2>3, <2>4
<1>19. \A b \in Boots' : booted'[b] =< now' BY <1>1, <1>12 DEF BootsInv, BootsTold
<1> QED BY <1>13, <1>14, <1>15, <1>16, <1>17, <1>18, <1>19 DEF BootsInv, BootsTold

LEMMA BootsStep == BootsInv /\ [UptimeNext]_uptimeVars => BootsInv'
<1>1. ASSUME BootsInv, UNCHANGED uptimeVars PROVE BootsInv'
  BY <1>1, Zenon DEF uptimeVars, BootsInv, BootsTold, UptimeTypeOK, ReadingTrue, StoredTrue, Boots,
                     RebootsAreReal, RebootsAreNoticed
<1> QED BY <1>1, TickTells, DeviceRebootTells, ProbeTells, IngestTells, Zenon DEF UptimeNext

\* A reported reboot is real, and a real one is reported, but for the named
\* cases in which two boot times cannot be compared (lib/snmpUptime.ts), for
\* every tolerance and every counter of more than twice its width.
THEOREM RebootsStayTold == UptimeSpec => []RebootsAreTold
<1>1. BootsInv => RebootsAreTold BY DEF BootsInv, BootsTold, RebootsAreTold
<1> QED BY <1>1, BootsInit, BootsStep, PTL DEF UptimeSpec
=============================================================================
