------------------------- MODULE SelfUpdateProofs -------------------------
(* Theorems about SelfUpdate for every fleet, any number of releases and   *)
(* attempts, and any bound on scans and events.                            *)
EXTENDS SelfUpdate, TLAPS

RowType == [version : 0..MaxVersion, requested : BOOLEAN, status : {"none", "pending", "failed"},
            attempts : 0..MaxAttempts, proven : BOOLEAN]
WatchType == [pc : {"idle", "asked", "fetch", "download", "satisfied", "installed", "failing", "exec"},
              target : 0..MaxVersion]
ScanType == [pc : {"none", "claimed", "busy"}, fresh : BOOLEAN]
TickType == [pc : {"idle", "gate", "list", "ask"}, latest : 0..MaxVersion,
             gate : {"none", "open", "waiting"}, todo : SUBSET AutoUpdated]

-----------------------------------------------------------------------------
\* What the updates of a row do to its fields, one field after the other

WithVersion(r, v) == [r EXCEPT !.version = v]
WithRequested(r, q) == [r EXCEPT !.requested = q]
WithStatus(r, s) == [r EXCEPT !.status = s]
WithAttempts(r, n) == [r EXCEPT !.attempts = n]
WithProven(r, p) == [r EXCEPT !.proven = p]

LEMMA SetVersion ==
  ASSUME NEW r \in RowType, NEW v \in 0..MaxVersion
  PROVE  /\ WithVersion(r, v) \in RowType
         /\ WithVersion(r, v).version = v
         /\ WithVersion(r, v).requested = r.requested
         /\ WithVersion(r, v).status = r.status
         /\ WithVersion(r, v).attempts = r.attempts
         /\ WithVersion(r, v).proven = r.proven
BY SMT DEF WithVersion, RowType

LEMMA SetRequested ==
  ASSUME NEW r \in RowType, NEW q \in BOOLEAN
  PROVE  /\ WithRequested(r, q) \in RowType
         /\ WithRequested(r, q).requested = q
         /\ WithRequested(r, q).version = r.version
         /\ WithRequested(r, q).status = r.status
         /\ WithRequested(r, q).attempts = r.attempts
         /\ WithRequested(r, q).proven = r.proven
BY SMT DEF WithRequested, RowType

LEMMA SetStatus ==
  ASSUME NEW r \in RowType, NEW s \in {"none", "pending", "failed"}
  PROVE  /\ WithStatus(r, s) \in RowType
         /\ WithStatus(r, s).status = s
         /\ WithStatus(r, s).version = r.version
         /\ WithStatus(r, s).requested = r.requested
         /\ WithStatus(r, s).attempts = r.attempts
         /\ WithStatus(r, s).proven = r.proven
BY SMT DEF WithStatus, RowType

LEMMA SetAttempts ==
  ASSUME NEW r \in RowType, NEW n \in 0..MaxAttempts
  PROVE  /\ WithAttempts(r, n) \in RowType
         /\ WithAttempts(r, n).attempts = n
         /\ WithAttempts(r, n).version = r.version
         /\ WithAttempts(r, n).requested = r.requested
         /\ WithAttempts(r, n).status = r.status
         /\ WithAttempts(r, n).proven = r.proven
BY SMT DEF WithAttempts, RowType

LEMMA SetProven ==
  ASSUME NEW r \in RowType, NEW p \in BOOLEAN
  PROVE  /\ WithProven(r, p) \in RowType
         /\ WithProven(r, p).proven = p
         /\ WithProven(r, p).version = r.version
         /\ WithProven(r, p).requested = r.requested
         /\ WithProven(r, p).status = r.status
         /\ WithProven(r, p).attempts = r.attempts
BY SMT DEF WithProven, RowType

LEMMA SeenFields ==
  ASSUME NEW r \in RowType, NEW v \in 1..MaxVersion
  PROVE  /\ Seen(r, v) \in RowType
         /\ Seen(r, v).version = v
         /\ Seen(r, v).requested = r.requested
         /\ Seen(r, v).status = r.status
         /\ Seen(r, v).attempts = r.attempts
         /\ Seen(r, v).proven => r.proven /\ r.version = v
<1> DEFINE p == r.proven /\ r.version = v
           w == WithVersion(r, v)
<1>1. p \in BOOLEAN /\ v \in 0..MaxVersion OBVIOUS
<1>2. Seen(r, v) = WithProven(w, p) BY DEF Seen, WithProven, WithVersion
<1> HIDE DEF p
<1>3. w \in RowType BY <1>1, SetVersion
<1> HIDE DEF w
<1>4. WithProven(w, p) \in RowType /\ WithProven(w, p).proven = p /\ WithProven(w, p).version = w.version
      /\ WithProven(w, p).requested = w.requested /\ WithProven(w, p).status = w.status
      /\ WithProven(w, p).attempts = w.attempts
  BY <1>1, <1>3, SetProven
<1>5. w.version = v /\ w.requested = r.requested /\ w.status = r.status /\ w.attempts = r.attempts
  BY <1>1, SetVersion DEF w
<1>6. Seen(r, v).proven => p BY <1>2, <1>4, Zenon
<1> QED BY <1>2, <1>4, <1>5, <1>6, Zenon DEF p

LEMMA ClearedFields ==
  ASSUME NEW r \in RowType
  PROVE  /\ Cleared(r) \in RowType
         /\ Cleared(r).version = r.version
         /\ Cleared(r).proven = r.proven
         /\ Cleared(r).requested = FALSE
         /\ Cleared(r).status = "none"
         /\ Cleared(r).attempts = 0
<1> DEFINE x == WithRequested(r, FALSE)
           y == WithStatus(x, "none")
<1>1. 0 \in 0..MaxAttempts BY UpdateAssumption
<1>2. Cleared(r) = WithAttempts(y, 0) BY DEF Cleared, WithRequested, WithStatus, WithAttempts
<1>3. x \in RowType /\ x.requested = FALSE /\ x.version = r.version /\ x.proven = r.proven
  BY SetRequested
<1> HIDE DEF x
<1>4. y \in RowType /\ y.status = "none" /\ y.requested = x.requested /\ y.version = x.version /\ y.proven = x.proven
  BY <1>3, SetStatus
<1> HIDE DEF y
<1> QED BY <1>1, <1>2, <1>3, <1>4, SetAttempts

LEMMA RequestedFields ==
  ASSUME NEW r \in RowType
  PROVE  /\ Requested(r) \in RowType
         /\ Requested(r).version = r.version
         /\ Requested(r).proven = r.proven
         /\ Requested(r).status = "pending"
         /\ Requested(r).attempts = 0
<1> DEFINE x == WithRequested(r, TRUE)
           y == WithStatus(x, "pending")
<1>1. 0 \in 0..MaxAttempts BY UpdateAssumption
<1>2. Requested(r) = WithAttempts(y, 0) BY DEF Requested, WithRequested, WithStatus, WithAttempts
<1>3. x \in RowType /\ x.version = r.version /\ x.proven = r.proven BY SetRequested
<1> HIDE DEF x
<1>4. y \in RowType /\ y.status = "pending" /\ y.version = x.version /\ y.proven = x.proven
  BY <1>3, SetStatus
<1> HIDE DEF y
<1> QED BY <1>1, <1>2, <1>3, <1>4, SetAttempts

\* A request that has been given up is one whose attempts are used up.
Counted(r) ==
  /\ r.attempts = MaxAttempts <=> r.status = "failed"
  /\ r.status = "failed" => r.requested = FALSE

LEMMA FailedFields ==
  ASSUME NEW r \in RowType, r.attempts # MaxAttempts
  PROVE  /\ Failed(r) \in RowType
         /\ Failed(r).version = r.version
         /\ Failed(r).proven = r.proven
         /\ Counted(Failed(r))
<1> DEFINE n == r.attempts + 1
<1>1. r.attempts \in 0..MaxAttempts BY DEF RowType
<1>2. n \in 0..MaxAttempts /\ (n >= MaxAttempts <=> n = MaxAttempts) BY <1>1, UpdateAssumption
<1>3. CASE n >= MaxAttempts
  <2> DEFINE x == WithRequested(r, FALSE)
             y == WithStatus(x, "failed")
  <2>1. Failed(r) = WithAttempts(y, n) BY <1>3 DEF Failed, WithRequested, WithStatus, WithAttempts
  <2>2. x \in RowType /\ x.requested = FALSE /\ x.version = r.version /\ x.proven = r.proven
    BY SetRequested
  <2> HIDE DEF x, n
  <2>3. /\ y \in RowType /\ y.status = "failed" /\ y.requested = x.requested
        /\ y.version = x.version /\ y.proven = x.proven
    BY <2>2, SetStatus
  <2> HIDE DEF y
  <2> QED BY <1>2, <1>3, <2>1, <2>2, <2>3, SetAttempts DEF Counted
<1>4. CASE ~(n >= MaxAttempts)
  <2> DEFINE y == WithStatus(r, "pending")
  <2>1. Failed(r) = WithAttempts(y, n) BY <1>4 DEF Failed, WithStatus, WithAttempts
  <2> HIDE DEF n
  <2>2. y \in RowType /\ y.status = "pending" /\ y.version = r.version /\ y.proven = r.proven
    BY SetStatus
  <2> HIDE DEF y
  <2> QED BY <1>2, <1>4, <2>1, <2>2, SetAttempts DEF Counted
<1> QED BY <1>3, <1>4

\* A call brings the row's version to that of the process, keeps evidence
\* only if it was that before, and leaves the request as it is or clears it.
LEMMA HeardFields ==
  ASSUME NEW a \in Agents, row[a] \in RowType, running[a] \in 1..MaxVersion
  PROVE  /\ Heard(a) \in RowType
         /\ Heard(a).version = running[a]
         /\ Heard(a).proven => row[a].proven /\ row[a].version = running[a]
         /\ Heard(a).status = "failed" => row[a].status = "failed"
         /\ Heard(a).attempts = MaxAttempts => row[a].attempts = MaxAttempts
         /\ Counted(row[a]) => Counted(Heard(a))
<1> DEFINE r == Seen(row[a], running[a])
<1>1. /\ r \in RowType /\ r.version = running[a] /\ r.requested = row[a].requested
      /\ r.status = row[a].status /\ r.attempts = row[a].attempts
      /\ r.proven => row[a].proven /\ row[a].version = running[a]
  BY SeenFields
<1>2. Heard(a) = r \/ Heard(a) = Cleared(r) BY DEF Heard
<1> HIDE DEF r
<1>3. CASE Heard(a) = r BY <1>1, <1>3 DEF Counted
<1>4. CASE Heard(a) = Cleared(r)
  <2>1. 0 # MaxAttempts BY UpdateAssumption
  <2>2. /\ Heard(a) \in RowType /\ Heard(a).version = r.version /\ Heard(a).status = "none"
        /\ Heard(a).attempts = 0
    BY <1>1, <1>4, ClearedFields
  <2>3. Heard(a).proven = r.proven BY <1>1, <1>4, ClearedFields
  <2>4. Counted(Heard(a)) BY <2>1, <2>2 DEF Counted
  <2> QED BY <1>1, <2>1, <2>2, <2>3, <2>4
<1> QED BY <1>2, <1>3, <1>4
-----------------------------------------------------------------------------
\* Types, and the counter of attempts

\* A given-up request has no attempts left and no watcher at work on it.
Tries == \A a \in Agents : Counted(row[a]) /\ (row[a].status = "failed" => watch[a].pc = "idle")
Typed == TypeOK /\ Tries

LEMMA Unfold ==
  TypeOK <=> /\ latest \in 1..MaxVersion /\ canary \subseteq Agents
             /\ row \in [Agents -> RowType]
             /\ tick \in TickType
             /\ running \in [Agents -> 1..MaxVersion] /\ disk \in [Agents -> 1..MaxVersion]
             /\ watch \in [Agents -> WatchType]
             /\ scan \in [Agents -> ScanType]
             /\ scans \in [Agents -> Nat] /\ events \in 0..MaxEvents
             /\ proof \in [Agents -> SUBSET (1..MaxVersion)] /\ killed \subseteq Agents
BY DEF TypeOK, RowType, TickType, WatchType, ScanType

\* Rows and watchers that are typed and counted after a step on one scanner.
LEMMA RowStep ==
  ASSUME Typed, NEW a \in Agents, NEW r \in RowType, Counted(r),
         row' = [row EXCEPT ![a] = r],
         watch' \in [Agents -> WatchType],
         \A b \in Agents \ {a} : watch'[b] = watch[b],
         r.status = "failed" => watch'[a].pc = "idle"
  PROVE  row' \in [Agents -> RowType] /\ Tries'
<1>1. row \in [Agents -> RowType] BY Unfold DEF Typed
<1>2. row' \in [Agents -> RowType] /\ row'[a] = r /\ \A b \in Agents \ {a} : row'[b] = row[b] BY <1>1
<1>3. \A b \in Agents : Counted(row'[b]) /\ (row'[b].status = "failed" => watch'[b].pc = "idle")
  BY <1>2, Zenon DEF Typed, Tries
<1> QED BY <1>2, <1>3 DEF Tries, Counted

\* Only the watcher's step changes.
LEMMA ToStep ==
  ASSUME watch \in [Agents -> WatchType], NEW a \in Agents,
         NEW pc \in {"idle", "asked", "fetch", "download", "satisfied", "installed", "failing", "exec"}, To(a, pc)
  PROVE  /\ watch' \in [Agents -> WatchType]
         /\ watch'[a].pc = pc /\ watch'[a].target = watch[a].target
         /\ \A b \in Agents \ {a} : watch'[b] = watch[b]
BY DEF To, WatchType

LEMMA CallsStep ==
  ASSUME TypeOK, NEW a \in Agents, NEW r, Calls(a, r)
  PROVE  scan' \in [Agents -> ScanType] /\ row' = [row EXCEPT ![a] = r]
<1>1. StillFresh(a) \in BOOLEAN BY Unfold DEF StillFresh, ScanType
<1>2. scan \in [Agents -> ScanType] BY Unfold
<1> HIDE DEF StillFresh
<1> QED BY <1>1, <1>2 DEF Calls, ScanType

\* What the row of a scanner is when it calls.
LEMMA HeardTyped ==
  ASSUME Typed, NEW a \in Agents
  PROVE  /\ row[a] \in RowType /\ running[a] \in 1..MaxVersion
         /\ Heard(a) \in RowType /\ Counted(Heard(a))
         /\ Heard(a).status = "failed" => row[a].status = "failed"
         /\ row[a].status = "failed" => watch[a].pc = "idle"
<1>1. row[a] \in RowType /\ running[a] \in 1..MaxVersion BY Unfold DEF Typed
<1>2. Counted(row[a]) /\ (row[a].status = "failed" => watch[a].pc = "idle") BY DEF Typed, Tries
<1> QED BY <1>1, <1>2, HeardFields

\* The watcher moves on and the row stays, which was not given up.
LEMMA WatchStep ==
  ASSUME Typed, NEW a \in Agents, watch[a].pc # "idle", row' = row,
         watch' \in [Agents -> WatchType], \A b \in Agents \ {a} : watch'[b] = watch[b]
  PROVE  Tries'
<1>1. \A b \in Agents : Counted(row[b]) /\ (row[b].status = "failed" => watch[b].pc = "idle")
  BY DEF Typed, Tries
<1>2. \A b \in Agents : row[b].status = "failed" => watch'[b].pc = "idle" BY <1>1
<1> QED BY <1>1, <1>2 DEF Tries, Counted

LEMMA InitTyped == Init => Typed
<1> SUFFICES ASSUME Init PROVE Typed OBVIOUS
<1>1. 1 \in 1..MaxVersion /\ 0 \in 0..MaxVersion /\ 0 \in 0..MaxAttempts /\ 0 # MaxAttempts /\ 0 \in 0..MaxEvents
  BY UpdateAssumption
<1>2. row \in [Agents -> RowType] BY <1>1 DEF Init, RowType
<1>3. tick \in TickType BY <1>1 DEF Init, IdleTick, TickType
<1>4. watch \in [Agents -> WatchType] /\ scan \in [Agents -> ScanType]
  BY <1>1 DEF Init, IdleWatch, WatchType, NoScan, ScanType
<1>5. latest \in 1..MaxVersion /\ canary \subseteq Agents /\ scans \in [Agents -> Nat] /\ events \in 0..MaxEvents
  BY <1>1 DEF Init
<1>6. running \in [Agents -> 1..MaxVersion] /\ disk \in [Agents -> 1..MaxVersion] BY <1>1 DEF Init
<1>7. proof \in [Agents -> SUBSET (1..MaxVersion)] /\ killed \subseteq Agents BY DEF Init
<1>8. \A a \in Agents : row[a].status = "none" /\ row[a].attempts = 0 BY DEF Init
<1>9. Tries BY <1>1, <1>8 DEF Tries, Counted
<1> QED BY <1>2, <1>3, <1>4, <1>5, <1>6, <1>7, <1>9, Unfold DEF Typed

LEMMA UnfoldNext ==
  TypeOK' <=> /\ latest' \in 1..MaxVersion /\ canary' \subseteq Agents
              /\ row' \in [Agents -> RowType]
              /\ tick' \in TickType
              /\ running' \in [Agents -> 1..MaxVersion] /\ disk' \in [Agents -> 1..MaxVersion]
              /\ watch' \in [Agents -> WatchType]
              /\ scan' \in [Agents -> ScanType]
              /\ scans' \in [Agents -> Nat] /\ events' \in 0..MaxEvents
              /\ proof' \in [Agents -> SUBSET (1..MaxVersion)] /\ killed' \subseteq Agents
BY DEF TypeOK, RowType, TickType, WatchType, ScanType

LEMMA HappensTyped == TypeOK /\ Happens => events' \in 0..MaxEvents
BY UpdateAssumption DEF TypeOK, Happens

\* The rest of the state in a step of a watcher or a scan.
Rest == UNCHANGED <<server, running, disk, scans, events, proof, killed>>

LEMMA RestTyped ==
  ASSUME TypeOK, Rest, row' \in [Agents -> RowType], watch' \in [Agents -> WatchType],
         scan' \in [Agents -> ScanType]
  PROVE  TypeOK'
BY Unfold, UnfoldNext DEF Rest, server

LEMMA BeatTyped == ASSUME Typed, NEW a \in Agents, Beat(a) PROVE Typed'
<1>1. Calls(a, Heard(a)) /\ Rest /\ watch' = watch BY DEF Beat, Rest
<1>2. scan' \in [Agents -> ScanType] /\ row' = [row EXCEPT ![a] = Heard(a)] BY <1>1, CallsStep DEF Typed
<1>3. watch' \in [Agents -> WatchType] BY <1>1, Unfold DEF Typed
<1>4. row' \in [Agents -> RowType] /\ Tries' BY <1>1, <1>2, <1>3, HeardTyped, RowStep
<1> QED BY <1>1, <1>2, <1>3, <1>4, RestTyped DEF Typed

LEMMA CheckTyped == ASSUME Typed, NEW a \in Agents, Check(a) PROVE Typed'
<1> DEFINE pc == IF Heard(a).requested THEN "asked" ELSE "idle"
<1>1. Calls(a, Heard(a)) /\ Rest /\ To(a, pc) BY DEF Check, Rest
<1>2. scan' \in [Agents -> ScanType] /\ row' = [row EXCEPT ![a] = Heard(a)] BY <1>1, CallsStep DEF Typed
<1>3. Heard(a).status = "failed" => pc = "idle" BY HeardTyped DEF Counted
<1>4. watch \in [Agents -> WatchType] BY Unfold DEF Typed
<1>5. pc \in {"asked", "idle"} OBVIOUS
<1> HIDE DEF pc
<1>6. watch' \in [Agents -> WatchType] /\ watch'[a].pc = pc /\ \A b \in Agents \ {a} : watch'[b] = watch[b]
  BY <1>1, <1>4, <1>5, ToStep
<1>7. row' \in [Agents -> RowType] /\ Tries' BY <1>2, <1>3, <1>6, HeardTyped, RowStep
<1> QED BY <1>1, <1>2, <1>6, <1>7, RestTyped DEF Typed

LEMMA BusyCheckTyped == ASSUME Typed, NEW a \in Agents, BusyCheck(a) PROVE Typed'
<1> DEFINE pc == IF IsScanning(a) THEN "idle" ELSE "fetch"
<1>1. watch[a].pc # "idle" /\ Rest /\ To(a, pc) /\ row' = row /\ scan' = scan BY DEF BusyCheck, Rest
<1>2. watch \in [Agents -> WatchType] BY Unfold DEF Typed
<1>3. pc \in {"fetch", "idle"} OBVIOUS
<1> HIDE DEF pc
<1>4. watch' \in [Agents -> WatchType] /\ \A b \in Agents \ {a} : watch'[b] = watch[b]
  BY <1>1, <1>2, <1>3, ToStep
<1>5. Tries' BY <1>1, <1>4, WatchStep
<1> QED BY <1>1, <1>4, <1>5, RestTyped, Unfold DEF Typed

LEMMA FetchTyped == ASSUME Typed, NEW a \in Agents, Fetch(a) PROVE Typed'
<1> DEFINE w == [pc |-> NextStep(a), target |-> latest]
<1>1. /\ Calls(a, Heard(a)) /\ Rest /\ watch[a].pc = "fetch"
      /\ watch' = [watch EXCEPT ![a] = w]
  BY DEF Fetch, Rest
<1>2. scan' \in [Agents -> ScanType] /\ row' = [row EXCEPT ![a] = Heard(a)] BY <1>1, CallsStep DEF Typed
<1>3. w \in WatchType
  <2>1. latest \in 0..MaxVersion BY DEF Typed, TypeOK
  <2>2. NextStep(a) \in {"satisfied", "download"} BY DEF NextStep
  <2> QED BY <2>1, <2>2 DEF WatchType
<1>4. watch \in [Agents -> WatchType] BY Unfold DEF Typed
<1> HIDE DEF w
<1>5. watch' \in [Agents -> WatchType] /\ \A b \in Agents \ {a} : watch'[b] = watch[b] BY <1>1, <1>3, <1>4
<1>6. Heard(a).status # "failed" BY <1>1, HeardTyped
<1>7. row' \in [Agents -> RowType] /\ Tries' BY <1>2, <1>5, <1>6, HeardTyped, RowStep
<1> QED BY <1>1, <1>2, <1>5, <1>7, RestTyped DEF Typed

LEMMA FailTyped == ASSUME Typed, NEW a \in Agents, Fail(a) PROVE Typed'
<1>1. watch[a].pc # "idle" /\ Rest /\ To(a, "failing") /\ row' = row /\ scan' = scan BY DEF Fail, Rest
<1>2. watch \in [Agents -> WatchType] BY Unfold DEF Typed
<1>3. watch' \in [Agents -> WatchType] /\ \A b \in Agents \ {a} : watch'[b] = watch[b]
  BY <1>1, <1>2, ToStep
<1>4. Tries' BY <1>1, <1>3, WatchStep
<1> QED BY <1>1, <1>3, <1>4, RestTyped, Unfold DEF Typed

\* What is downloaded is a release, not the absence of one.
LEMMA DownloadsARelease ==
  ASSUME Typed, OnlyForward, NEW a \in Agents, watch[a].pc = "download"
  PROVE  watch[a].target \in 1..MaxVersion
<1>1. watch[a].target \in 0..MaxVersion BY Unfold DEF Typed, WatchType
<1>2. running[a] \in 1..MaxVersion BY Unfold DEF Typed
<1>3. watch[a].target > running[a] BY DEF OnlyForward
<1> QED BY <1>1, <1>2, <1>3, UpdateAssumption

LEMMA InstallTyped == ASSUME Typed, OnlyForward, NEW a \in Agents, Install(a) PROVE Typed'
<1>1. /\ watch[a].pc = "download" /\ To(a, "installed") /\ disk' = [disk EXCEPT ![a] = watch[a].target]
      /\ UNCHANGED <<server, row, running, scan, scans, events, proof, killed>>
  BY DEF Install
<1>2. watch \in [Agents -> WatchType] /\ disk \in [Agents -> 1..MaxVersion] BY Unfold DEF Typed
<1>3. watch' \in [Agents -> WatchType] /\ \A b \in Agents \ {a} : watch'[b] = watch[b] BY <1>1, <1>2, ToStep
<1>4. Tries' BY <1>1, <1>3, WatchStep
<1>5. disk' \in [Agents -> 1..MaxVersion] BY <1>1, <1>2, DownloadsARelease
<1> QED BY <1>1, <1>3, <1>4, <1>5, Unfold, UnfoldNext DEF Typed, server

\* Where the watcher goes after its report.
LEMMA AfterReportStep ==
  ASSUME Typed, NEW a \in Agents, AfterReport(a)
  PROVE  watch' \in [Agents -> WatchType] /\ \A b \in Agents \ {a} : watch'[b] = watch[b]
<1> DEFINE pc == IF watch[a].pc = "installed" THEN "exec" ELSE "idle"
<1>1. To(a, pc) BY DEF AfterReport
<1>2. pc \in {"exec", "idle"} OBVIOUS
<1>3. watch \in [Agents -> WatchType] BY Unfold DEF Typed
<1> HIDE DEF pc
<1> QED BY <1>1, <1>2, <1>3, ToStep

LEMMA ReportSuccessTyped == ASSUME Typed, NEW a \in Agents, ReportSuccess(a) PROVE Typed'
<1> DEFINE r == Cleared(Heard(a))
<1>1. Calls(a, r) /\ Rest /\ AfterReport(a) BY DEF ReportSuccess, Rest
<1>2. r \in RowType /\ r.status = "none" /\ r.attempts = 0 BY HeardTyped, ClearedFields
<1> HIDE DEF r
<1>3. Counted(r) BY <1>2, UpdateAssumption DEF Counted
<1>4. scan' \in [Agents -> ScanType] /\ row' = [row EXCEPT ![a] = r] BY <1>1, CallsStep DEF Typed
<1>5. watch' \in [Agents -> WatchType] /\ \A b \in Agents \ {a} : watch'[b] = watch[b] BY <1>1, AfterReportStep
<1>6. row' \in [Agents -> RowType] /\ Tries' BY <1>2, <1>3, <1>4, <1>5, RowStep
<1> QED BY <1>1, <1>4, <1>5, <1>6, RestTyped DEF Typed

LEMMA ReportFailureTyped == ASSUME Typed, NEW a \in Agents, ReportFailure(a) PROVE Typed'
<1> DEFINE r == Failed(Heard(a))
<1>1. Calls(a, r) /\ Rest /\ To(a, "idle") /\ watch[a].pc = "failing" BY DEF ReportFailure, Rest
<1>2. Heard(a).attempts # MaxAttempts BY <1>1, HeardTyped DEF Counted
<1>3. r \in RowType /\ Counted(r) BY <1>2, HeardTyped, FailedFields
<1> HIDE DEF r
<1>4. scan' \in [Agents -> ScanType] /\ row' = [row EXCEPT ![a] = r] BY <1>1, CallsStep DEF Typed
<1>5. watch \in [Agents -> WatchType] BY Unfold DEF Typed
<1>6. watch' \in [Agents -> WatchType] /\ watch'[a].pc = "idle" /\ \A b \in Agents \ {a} : watch'[b] = watch[b]
  BY <1>1, <1>5, ToStep
<1>7. row' \in [Agents -> RowType] /\ Tries' BY <1>3, <1>4, <1>6, RowStep
<1> QED BY <1>1, <1>4, <1>6, <1>7, RestTyped DEF Typed

LEMMA LoseReportTyped == ASSUME Typed, NEW a \in Agents, LoseReport(a) PROVE Typed'
<1>1. /\ watch[a].pc # "idle" /\ Happens /\ AfterReport(a)
      /\ UNCHANGED <<server, row, running, disk, scan, scans, proof, killed>>
  BY DEF LoseReport
<1>2. watch' \in [Agents -> WatchType] /\ \A b \in Agents \ {a} : watch'[b] = watch[b] BY <1>1, AfterReportStep
<1>3. Tries' BY <1>1, <1>2, WatchStep
<1>4. events' \in 0..MaxEvents BY <1>1, HappensTyped DEF Typed
<1> QED BY <1>1, <1>2, <1>3, <1>4, Unfold, UnfoldNext DEF Typed, server

LEMMA NoScanType == NoScan \in ScanType /\ IdleWatch \in WatchType
BY UpdateAssumption DEF NoScan, ScanType, IdleWatch, WatchType

LEMMA ExecTyped == ASSUME Typed, NEW a \in Agents, Exec(a) PROVE Typed'
<1>1. /\ watch[a].pc # "idle" /\ To(a, "idle") /\ running' = [running EXCEPT ![a] = disk[a]]
      /\ scan' = [scan EXCEPT ![a] = NoScan] /\ scans' = [scans EXCEPT ![a] = 0]
      /\ killed' \in {killed, killed \cup {a}} /\ UNCHANGED <<server, row, disk, events, proof>>
  BY DEF Exec
<1>2. watch \in [Agents -> WatchType] BY Unfold DEF Typed
<1>3. watch' \in [Agents -> WatchType] /\ \A b \in Agents \ {a} : watch'[b] = watch[b] BY <1>1, <1>2, ToStep
<1>4. Tries' BY <1>1, <1>3, WatchStep
<1>5. running' \in [Agents -> 1..MaxVersion] /\ scan' \in [Agents -> ScanType] /\ scans' \in [Agents -> Nat]
  BY <1>1, NoScanType, Unfold DEF Typed
<1>6. killed' \subseteq Agents BY <1>1, Unfold DEF Typed
<1> QED BY <1>1, <1>3, <1>4, <1>5, <1>6, Unfold, UnfoldNext DEF Typed, server

LEMMA ExecFailsTyped == ASSUME Typed, NEW a \in Agents, ExecFails(a) PROVE Typed'
<1>1. /\ watch[a].pc # "idle" /\ Happens /\ To(a, "idle")
      /\ UNCHANGED <<server, row, running, disk, scan, scans, proof, killed>>
  BY DEF ExecFails
<1>2. watch \in [Agents -> WatchType] BY Unfold DEF Typed
<1>3. watch' \in [Agents -> WatchType] /\ \A b \in Agents \ {a} : watch'[b] = watch[b] BY <1>1, <1>2, ToStep
<1>4. Tries' BY <1>1, <1>3, WatchStep
<1>5. events' \in 0..MaxEvents BY <1>1, HappensTyped DEF Typed
<1> QED BY <1>1, <1>3, <1>4, <1>5, Unfold, UnfoldNext DEF Typed, server

\* A step that leaves the rows alone and no watcher at work that was idle.
LEMMA SameRows ==
  ASSUME Typed, row' = row, \A b \in Agents : watch[b].pc = "idle" => watch'[b].pc = "idle"
  PROVE  Tries'
<1>1. \A b \in Agents : Counted(row[b]) /\ (row[b].status = "failed" => watch[b].pc = "idle")
  BY DEF Typed, Tries
<1>2. \A b \in Agents : row[b].status = "failed" => watch'[b].pc = "idle" BY <1>1
<1> QED BY <1>1, <1>2 DEF Tries, Counted

LEMMA RestartTyped == ASSUME Typed, NEW a \in Agents, Restart(a) PROVE Typed'
<1>1. /\ Happens /\ running' = [running EXCEPT ![a] = disk[a]] /\ scan' = [scan EXCEPT ![a] = NoScan]
      /\ watch' = [watch EXCEPT ![a] = IdleWatch]
      /\ UNCHANGED <<server, row, disk, scans, proof, killed>>
  BY DEF Restart
<1>2. /\ running' \in [Agents -> 1..MaxVersion] /\ scan' \in [Agents -> ScanType]
      /\ watch' \in [Agents -> WatchType]
  BY <1>1, NoScanType, Unfold DEF Typed
<1>3. \A b \in Agents : watch[b].pc = "idle" => watch'[b].pc = "idle"
  BY <1>1, Unfold DEF Typed, IdleWatch
<1>4. Tries' BY <1>1, <1>3, SameRows
<1>5. events' \in 0..MaxEvents BY <1>1, HappensTyped DEF Typed
<1> QED BY <1>1, <1>2, <1>4, <1>5, Unfold, UnfoldNext DEF Typed, server

LEMMA ClaimTyped == ASSUME Typed, NEW a \in Agents, Claim(a) PROVE Typed'
<1>1. /\ row' = [row EXCEPT ![a] = Heard(a)] /\ scan' = [scan EXCEPT ![a] = [pc |-> "claimed", fresh |-> TRUE]]
      /\ scans' = [scans EXCEPT ![a] = scans[a] + 1]
      /\ UNCHANGED <<server, running, disk, watch, events, proof, killed>>
  BY DEF Claim
<1>2. watch' \in [Agents -> WatchType] /\ watch' = watch BY <1>1, Unfold DEF Typed
<1>3. row' \in [Agents -> RowType] /\ Tries' BY <1>1, <1>2, HeardTyped, RowStep
<1>4. scan' \in [Agents -> ScanType] BY <1>1, Unfold DEF Typed, ScanType
<1>5. scans' \in [Agents -> Nat] BY <1>1, Unfold DEF Typed
<1> QED BY <1>1, <1>2, <1>3, <1>4, <1>5, Unfold, UnfoldNext DEF Typed, server

LEMMA BeginTyped == ASSUME Typed, NEW a \in Agents, Begin(a) PROVE Typed'
<1>1. scan' = [scan EXCEPT ![a].pc = "busy"] /\ Rest /\ row' = row /\ watch' = watch BY DEF Begin, Rest
<1>2. scan' \in [Agents -> ScanType] BY <1>1, Unfold DEF Typed, ScanType
<1>3. Tries' BY <1>1, SameRows
<1> QED BY <1>1, <1>2, <1>3, RestTyped, Unfold DEF Typed

LEMMA CompleteTyped == ASSUME Typed, NEW a \in Agents, Complete(a) PROVE Typed'
<1> DEFINE p == Heard(a).proven \/ StillFresh(a)
           r == WithProven(Heard(a), p)
<1>1. /\ row' = [row EXCEPT ![a] = r] /\ scan' = [scan EXCEPT ![a] = NoScan]
      /\ proof' = [proof EXCEPT ![a] = proof[a] \cup {running[a]}]
      /\ UNCHANGED <<server, running, disk, watch, scans, events, killed>>
  BY DEF Complete, WithProven
<1>2. p \in BOOLEAN OBVIOUS
<1> HIDE DEF p
<1>3. /\ r \in RowType /\ r.status = Heard(a).status /\ r.attempts = Heard(a).attempts
      /\ r.requested = Heard(a).requested
  BY <1>2, HeardTyped, SetProven
<1> HIDE DEF r
<1>4. Counted(r) BY <1>3, HeardTyped DEF Counted
<1>5. watch' \in [Agents -> WatchType] /\ watch' = watch BY <1>1, Unfold DEF Typed
<1>6. row' \in [Agents -> RowType] /\ Tries' BY <1>1, <1>3, <1>4, <1>5, HeardTyped, RowStep
<1>7. scan' \in [Agents -> ScanType] BY <1>1, NoScanType, Unfold DEF Typed
<1>8. proof' \in [Agents -> SUBSET (1..MaxVersion)] BY <1>1, HeardTyped, Unfold DEF Typed
<1> QED BY <1>1, <1>5, <1>6, <1>7, <1>8, Unfold, UnfoldNext DEF Typed, server

LEMMA EndOtherwiseTyped == ASSUME Typed, NEW a \in Agents, EndOtherwise(a) PROVE Typed'
<1>1. row' = [row EXCEPT ![a] = Heard(a)] /\ scan' = [scan EXCEPT ![a] = NoScan] /\ Rest /\ watch' = watch
  BY DEF EndOtherwise, Rest
<1>2. scan' \in [Agents -> ScanType] /\ watch' \in [Agents -> WatchType] BY <1>1, NoScanType, Unfold DEF Typed
<1>3. row' \in [Agents -> RowType] /\ Tries' BY <1>1, <1>2, HeardTyped, RowStep
<1> QED BY <1>1, <1>2, <1>3, RestTyped DEF Typed

\* A request is the start of new attempts.
LEMMA RequestStep ==
  ASSUME Typed, NEW a \in Agents, row' = [row EXCEPT ![a] = Requested(row[a])], watch' = watch
  PROVE  row' \in [Agents -> RowType] /\ Tries'
<1>1. Requested(row[a]) \in RowType /\ Requested(row[a]).status = "pending" /\ Requested(row[a]).attempts = 0
  BY HeardTyped, RequestedFields
<1>2. Counted(Requested(row[a])) BY <1>1, UpdateAssumption DEF Counted
<1>3. watch' \in [Agents -> WatchType] BY Unfold DEF Typed
<1> QED BY <1>1, <1>2, <1>3, RowStep

LEMMA AskTyped == ASSUME Typed, NEW a \in Agents, Ask(a) PROVE Typed'
<1>1. /\ Happens /\ row' = [row EXCEPT ![a] = Requested(row[a])]
      /\ UNCHANGED <<server, watch, running, disk, scan, scans, proof, killed>>
  BY DEF Ask
<1>2. row' \in [Agents -> RowType] /\ Tries' BY <1>1, RequestStep
<1>3. events' \in 0..MaxEvents BY <1>1, HappensTyped DEF Typed
<1> QED BY <1>1, <1>2, <1>3, Unfold, UnfoldNext DEF Typed, server

\* What the webserver does beside its rows.
Scanner == UNCHANGED <<row, running, disk, watch, scan, scans, proof, killed>>
LEMMA ServerStep ==
  ASSUME Typed, Scanner, latest' \in 1..MaxVersion, canary' \subseteq Agents, tick' \in TickType,
         events' \in 0..MaxEvents
  PROVE  Typed'
<1>1. Tries' BY SameRows DEF Scanner
<1> QED BY <1>1, Unfold, UnfoldNext DEF Typed, Scanner

LEMMA ReleaseTyped == Typed /\ Release => Typed'
<1> SUFFICES ASSUME Typed, Release PROVE Typed' OBVIOUS
<1>1. latest \in 1..MaxVersion BY Unfold DEF Typed
<1>2. latest' \in 1..MaxVersion BY <1>1, UpdateAssumption DEF Release
<1>3. Scanner /\ UNCHANGED <<canary, tick, events>> BY DEF Release, Scanner
<1> QED BY <1>2, <1>3, ServerStep, Unfold DEF Typed

LEMMA WithdrawTyped == Typed /\ Withdraw => Typed'
<1> SUFFICES ASSUME Typed, Withdraw PROVE Typed' OBVIOUS
<1>1. latest \in 1..MaxVersion BY Unfold DEF Typed
<1>2. latest' \in 1..MaxVersion BY <1>1, UpdateAssumption DEF Withdraw
<1>3. Scanner /\ UNCHANGED <<canary, tick>> BY DEF Withdraw, Scanner
<1>4. events' \in 0..MaxEvents BY HappensTyped DEF Typed, Withdraw
<1> QED BY <1>2, <1>3, <1>4, ServerStep, Unfold DEF Typed

LEMMA MarkTyped == ASSUME Typed, NEW a \in Agents, Mark(a) PROVE Typed'
<1>1. canary' \subseteq Agents BY Unfold DEF Typed, Mark
<1>2. Scanner /\ UNCHANGED <<latest, tick>> BY DEF Mark, Scanner
<1>3. events' \in 0..MaxEvents BY HappensTyped DEF Typed, Mark
<1> QED BY <1>1, <1>2, <1>3, ServerStep, Unfold DEF Typed

LEMMA IdleTickType == IdleTick \in TickType
BY UpdateAssumption DEF IdleTick, TickType

LEMMA TickStartTyped == Typed /\ TickStart => Typed'
<1> SUFFICES ASSUME Typed, TickStart PROVE Typed' OBVIOUS
<1>1. tick' = [pc |-> "gate", latest |-> latest, gate |-> "none", todo |-> {}] BY DEF TickStart, IdleTick
<1>2. latest \in 0..MaxVersion BY DEF Typed, TypeOK
<1>3. tick' \in TickType BY <1>1, <1>2 DEF TickType
<1>4. Scanner /\ UNCHANGED <<latest, canary, events>> BY DEF TickStart, Scanner
<1> QED BY <1>3, <1>4, ServerStep, Unfold DEF Typed

LEMMA TickGateTyped == Typed /\ TickGate => Typed'
<1> SUFFICES ASSUME Typed, TickGate PROVE Typed' OBVIOUS
<1>1. tick' = [[tick EXCEPT !.pc = "list"] EXCEPT !.gate = Gate(tick.latest)] BY DEF TickGate
<1>2. Gate(tick.latest) \in {"none", "open", "waiting"} BY DEF Gate
<1>3. tick \in TickType BY Unfold DEF Typed
<1>4. [tick EXCEPT !.pc = "list"] \in TickType BY <1>3 DEF TickType
<1>5. tick' \in TickType BY <1>1, <1>2, <1>4 DEF TickType
<1>6. Scanner /\ UNCHANGED <<latest, canary, events>> BY DEF TickGate, Scanner
<1> QED BY <1>5, <1>6, ServerStep, Unfold DEF Typed

LEMMA TickListTyped == Typed /\ TickList => Typed'
<1> SUFFICES ASSUME Typed, TickList PROVE Typed' OBVIOUS
<1>1. Candidates \subseteq AutoUpdated BY DEF Candidates
<1>2. tick' = IdleTick \/ tick' = [[tick EXCEPT !.pc = "ask"] EXCEPT !.todo = Candidates] BY DEF TickList
<1>3. tick \in TickType BY Unfold DEF Typed
<1>4. [tick EXCEPT !.pc = "ask"] \in TickType BY <1>3 DEF TickType
<1>5. tick' \in TickType
  <2>1. ASSUME NEW t \in TickType PROVE [t EXCEPT !.todo = Candidates] \in TickType BY <1>1 DEF TickType
  <2> QED BY <1>2, <1>4, <2>1, IdleTickType
<1>6. Scanner /\ UNCHANGED <<latest, canary, events>> BY DEF TickList, Scanner
<1> QED BY <1>5, <1>6, ServerStep, Unfold DEF Typed

LEMMA TickAskTyped == ASSUME Typed, NEW a \in Agents, TickAsk(a) PROVE Typed'
<1>1. /\ row' = row \/ row' = [row EXCEPT ![a] = Requested(row[a])]
      /\ tick' = IdleTick \/ tick' = [tick EXCEPT !.todo = tick.todo \ {a}]
      /\ UNCHANGED <<latest, canary, running, disk, watch, scan, scans, events, proof, killed>>
  BY DEF TickAsk
<1>2. tick' \in TickType
  <2>1. tick \in TickType BY Unfold DEF Typed
  <2>2. tick.todo \ {a} \in SUBSET AutoUpdated BY <2>1 DEF TickType
  <2>3. [tick EXCEPT !.todo = tick.todo \ {a}] \in TickType BY <2>1, <2>2 DEF TickType
  <2> QED BY <1>1, <2>3, IdleTickType
<1>3. row' \in [Agents -> RowType] /\ Tries'
  <2>1. CASE row' = row BY <1>1, <2>1, SameRows, Unfold DEF Typed
  <2>2. CASE row' = [row EXCEPT ![a] = Requested(row[a])] BY <1>1, <2>2, RequestStep
  <2> QED BY <1>1, <2>1, <2>2
<1> QED BY <1>1, <1>2, <1>3, Unfold, UnfoldNext DEF Typed
-----------------------------------------------------------------------------
\* Updates go forward

OnItsWay == {"download", "installed", "exec"}

LEMMA InitForward == Init => OnlyForward
<1> SUFFICES ASSUME Init, NEW a \in Agents
             PROVE  disk[a] >= running[a] /\ watch[a].pc \notin OnItsWay
  BY DEF OnlyForward, OnItsWay
<1>1. disk[a] = 1 /\ running[a] = 1 /\ watch[a].pc = "idle" BY DEF Init, IdleWatch
<1> QED BY <1>1 DEF OnItsWay

\* Neither the process nor the binary changes and nothing new is on its way.
LEMMA KeepsForward ==
  ASSUME OnlyForward, disk' = disk, running' = running,
         \A b \in Agents : watch'[b].pc \in OnItsWay => watch[b].pc \in OnItsWay /\ watch'[b].target = watch[b].target
  PROVE  OnlyForward'
BY DEF OnlyForward, OnItsWay

LEMMA ToKeepsForward ==
  ASSUME Typed, OnlyForward, NEW a \in Agents, disk' = disk, running' = running,
         NEW pc \in {"idle", "asked", "fetch", "satisfied", "installed", "failing", "exec"}, To(a, pc),
         pc \in OnItsWay => watch[a].pc \in OnItsWay
  PROVE  OnlyForward'
<1>1. watch \in [Agents -> WatchType] BY Unfold DEF Typed
<1>2. /\ watch'[a].pc = pc /\ watch'[a].target = watch[a].target
      /\ \A b \in Agents \ {a} : watch'[b] = watch[b]
  BY <1>1, ToStep
<1>3. \A b \in Agents : watch'[b].pc \in OnItsWay => watch[b].pc \in OnItsWay /\ watch'[b].target = watch[b].target
  BY <1>2
<1> QED BY <1>3, KeepsForward

LEMMA WatcherForward == ASSUME Typed, OnlyForward, NEW a \in Agents, Watcher(a) PROVE OnlyForward'
<1>1. watch \in [Agents -> WatchType] /\ running \in [Agents -> 1..MaxVersion] /\ disk \in [Agents -> 1..MaxVersion]
  BY Unfold DEF Typed
<1>2. CASE Check(a)
  <2> DEFINE pc == IF Heard(a).requested THEN "asked" ELSE "idle"
  <2>1. To(a, pc) /\ UNCHANGED <<disk, running>> BY <1>2 DEF Check
  <2>2. pc \in {"asked", "idle"} OBVIOUS
  <2> HIDE DEF pc
  <2> QED BY <2>1, <2>2, ToKeepsForward DEF OnItsWay
<1>3. CASE BusyCheck(a)
  <2> DEFINE pc == IF IsScanning(a) THEN "idle" ELSE "fetch"
  <2>1. To(a, pc) /\ UNCHANGED <<disk, running>> BY <1>3 DEF BusyCheck
  <2>2. pc \in {"fetch", "idle"} OBVIOUS
  <2> HIDE DEF pc
  <2> QED BY <2>1, <2>2, ToKeepsForward DEF OnItsWay
<1>4. CASE Fetch(a)
  <2>1. watch' = [watch EXCEPT ![a] = [pc |-> NextStep(a), target |-> latest]] /\ UNCHANGED <<disk, running>>
    BY <1>4 DEF Fetch
  <2>2. NextStep(a) \in OnItsWay => latest > running[a]
    <3>1. latest \in 1..MaxVersion /\ running[a] \in 1..MaxVersion BY Unfold DEF Typed
    <3> QED BY <3>1 DEF NextStep, OnItsWay
  <2>3. watch'[a].pc = NextStep(a) /\ watch'[a].target = latest /\ \A b \in Agents \ {a} : watch'[b] = watch[b]
    BY <1>1, <2>1
  <2> QED BY <2>1, <2>2, <2>3 DEF OnlyForward, OnItsWay
<1>5. CASE Fail(a)
  <2>1. To(a, "failing") /\ UNCHANGED <<disk, running>> BY <1>5 DEF Fail
  <2> QED BY <2>1, ToKeepsForward DEF OnItsWay
<1>6. CASE Install(a)
  <2>1. /\ watch[a].pc = "download" /\ To(a, "installed")
        /\ disk' = [disk EXCEPT ![a] = watch[a].target] /\ running' = running
    BY <1>6 DEF Install
  <2>2. watch'[a].target = watch[a].target /\ \A b \in Agents \ {a} : watch'[b] = watch[b]
    BY <1>1, <2>1, ToStep
  <2>3. disk'[a] = watch[a].target /\ \A b \in Agents \ {a} : disk'[b] = disk[b] BY <1>1, <2>1
  <2>4. watch[a].target > running[a] /\ watch[a].target \in 0..MaxVersion /\ running[a] \in 1..MaxVersion
    BY <1>1, <2>1 DEF OnlyForward, WatchType
  <2> QED BY <2>1, <2>2, <2>3, <2>4 DEF OnlyForward
<1>7. CASE ReportSuccess(a) \/ LoseReport(a)
  <2> DEFINE pc == IF watch[a].pc = "installed" THEN "exec" ELSE "idle"
  <2>1. To(a, pc) /\ UNCHANGED <<disk, running>> BY <1>7 DEF ReportSuccess, LoseReport, AfterReport
  <2>2. pc \in {"exec", "idle"} /\ (pc \in OnItsWay => watch[a].pc \in OnItsWay) BY DEF OnItsWay
  <2> HIDE DEF pc
  <2> QED BY <2>1, <2>2, ToKeepsForward
<1>8. CASE ReportFailure(a)
  <2>1. To(a, "idle") /\ UNCHANGED <<disk, running>> BY <1>8 DEF ReportFailure
  <2> QED BY <2>1, ToKeepsForward DEF OnItsWay
<1>9. CASE Exec(a)
  <2>1. To(a, "idle") /\ running' = [running EXCEPT ![a] = disk[a]] /\ disk' = disk BY <1>9 DEF Exec
  <2>2. watch'[a].pc = "idle" /\ \A b \in Agents \ {a} : watch'[b] = watch[b] BY <1>1, <2>1, ToStep
  <2>3. running'[a] = disk[a] /\ \A b \in Agents \ {a} : running'[b] = running[b] BY <1>1, <2>1
  <2>4. disk[a] >= disk[a] BY <1>1
  <2> QED BY <2>1, <2>2, <2>3, <2>4 DEF OnlyForward
<1>10. CASE ExecFails(a)
  <2>1. To(a, "idle") /\ UNCHANGED <<disk, running>> BY <1>10 DEF ExecFails
  <2> QED BY <2>1, ToKeepsForward DEF OnItsWay
<1> QED BY <1>2, <1>3, <1>4, <1>5, <1>6, <1>7, <1>8, <1>9, <1>10 DEF Watcher

LEMMA RestartForward == ASSUME Typed, OnlyForward, NEW a \in Agents, Restart(a) PROVE OnlyForward'
<1>1. /\ running' = [running EXCEPT ![a] = disk[a]] /\ disk' = disk
      /\ watch' = [watch EXCEPT ![a] = IdleWatch]
  BY DEF Restart
<1>2. watch \in [Agents -> WatchType] /\ running \in [Agents -> 1..MaxVersion] /\ disk \in [Agents -> 1..MaxVersion]
  BY Unfold DEF Typed
<1>3. watch'[a].pc = "idle" /\ \A b \in Agents \ {a} : watch'[b] = watch[b] BY <1>1, <1>2 DEF IdleWatch
<1>4. running'[a] = disk[a] /\ \A b \in Agents \ {a} : running'[b] = running[b] BY <1>1, <1>2
<1>5. disk[a] >= disk[a] BY <1>2
<1> QED BY <1>1, <1>3, <1>4, <1>5 DEF OnlyForward

-----------------------------------------------------------------------------
\* The two invariants that need each other: a release is downloaded only if
\* it is newer than a typed version, and a typed binary is one downloaded.

UpdatesInv == Typed /\ OnlyForward

LEMMA InitUpdates == Init => UpdatesInv
BY InitTyped, InitForward DEF UpdatesInv

LEMMA NextUpdates == UpdatesInv /\ Next => UpdatesInv'
<1> SUFFICES ASSUME Typed, OnlyForward, Next PROVE Typed' /\ OnlyForward' BY DEF UpdatesInv
<1>1. ASSUME NEW a \in Agents, Watcher(a) PROVE Typed' /\ OnlyForward'
  <2>1. Typed'
    BY <1>1, CheckTyped, BusyCheckTyped, FetchTyped, FailTyped, InstallTyped, ReportSuccessTyped,
       ReportFailureTyped, LoseReportTyped, ExecTyped, ExecFailsTyped
    DEF Watcher
  <2> QED BY <1>1, <2>1, WatcherForward
<1>2. ASSUME NEW a \in Agents, Restart(a) PROVE Typed' /\ OnlyForward'
  BY <1>2, RestartTyped, RestartForward
<1>3. ASSUME NEW a \in Agents, Beat(a) \/ Claim(a) \/ EndScan(a) \/ Ask(a) \/ Mark(a)
      PROVE  Typed' /\ OnlyForward'
  <2>1. Typed' BY <1>3, BeatTyped, ClaimTyped, BeginTyped, CompleteTyped, EndOtherwiseTyped, AskTyped, MarkTyped DEF EndScan
  <2>2. UNCHANGED <<disk, running, watch>> BY <1>3 DEF Beat, Claim, EndScan, Begin, Complete, EndOtherwise, Ask, Mark
  <2> QED BY <2>1, <2>2, KeepsForward
<1>4. CASE AutoUpdate
  <2>1. Typed' BY <1>4, TickStartTyped, TickGateTyped, TickListTyped, TickAskTyped DEF AutoUpdate
  <2>2. UNCHANGED <<disk, running, watch>> BY <1>4 DEF AutoUpdate, TickStart, TickGate, TickList, TickAsk
  <2> QED BY <2>1, <2>2, KeepsForward
<1>5. CASE Release \/ Withdraw
  <2>1. UNCHANGED <<disk, running, watch>> BY <1>5 DEF Release, Withdraw
  <2> QED BY <1>5, <2>1, KeepsForward, ReleaseTyped, WithdrawTyped
<1> QED BY <1>1, <1>2, <1>3, <1>4, <1>5 DEF Next

LEMMA StutterUpdates == UpdatesInv /\ UNCHANGED vars => UpdatesInv'
<1> SUFFICES ASSUME Typed, OnlyForward, UNCHANGED vars PROVE Typed' /\ OnlyForward' BY DEF UpdatesInv
<1>1. TypeOK' BY Unfold, UnfoldNext DEF vars, Typed
<1>2. Tries' BY SameRows DEF vars
<1>3. OnlyForward' BY KeepsForward DEF vars
<1> QED BY <1>1, <1>2, <1>3 DEF Typed

\* Types, the counter of attempts and the direction of updates, together,
\* hold in every reachable state.
THEOREM UpdatesInvariant == Spec => []UpdatesInv
<1>1. UpdatesInv /\ [Next]_vars => UpdatesInv' BY NextUpdates, StutterUpdates
<1> QED BY <1>1, InitUpdates, PTL DEF Spec

\* The state keeps its types.
THEOREM TypeCorrect == Spec => []TypeOK
<1>1. UpdatesInv => TypeOK BY DEF UpdatesInv, Typed
<1> QED BY <1>1, UpdatesInvariant, PTL

\* A request is tried MaxAttempts times at most and stays given up until
\* there is a new one (ingest/routes.ts: update-outcome).
THEOREM TriedThreeTimes == Spec => []ThreeTries
<1>1. UpdatesInv => ThreeTries
  <2> SUFFICES ASSUME UpdatesInv, NEW a \in Agents
               PROVE  row[a].attempts <= MaxAttempts
                      /\ (row[a].status = "failed" => row[a].attempts = MaxAttempts /\ ~row[a].requested)
    BY DEF ThreeTries
  <2>1. row[a] \in RowType /\ Counted(row[a]) BY Unfold DEF UpdatesInv, Typed, Tries
  <2>2. row[a].attempts <= MaxAttempts BY <2>1, UpdateAssumption DEF RowType
  <2> QED BY <2>1, <2>2 DEF Counted
<1> QED BY <1>1, UpdatesInvariant, PTL

\* No scanner goes back to an older release or is replaced by the one it
\* runs (updater.go: checkAndApply).
THEOREM GoesForward == Spec => []OnlyForward
<1>1. UpdatesInv => OnlyForward BY DEF UpdatesInv
<1> QED BY <1>1, UpdatesInvariant, PTL
-----------------------------------------------------------------------------
\* What the canary gate goes by

\* A row that counts as proven names a version a scan was completed on.
Evidence == \A a \in Agents : row[a].proven => row[a].version \in proof[a]
HonestInv == UpdatesInv /\ Evidence /\ GateIsHonest

\* Evidence is only added to.
LEMMA RowEvidence ==
  ASSUME UpdatesInv, Evidence, NEW a \in Agents, NEW r, row' = [row EXCEPT ![a] = r],
         r.proven => r.version \in proof'[a], \A b \in Agents : proof[b] \subseteq proof'[b]
  PROVE  Evidence'
<1>1. row \in [Agents -> RowType] BY Unfold DEF UpdatesInv, Typed
<1>2. row'[a] = r /\ \A b \in Agents \ {a} : row'[b] = row[b] BY <1>1
<1> QED BY <1>2 DEF Evidence

\* A call brings no evidence of its own.
LEMMA HeardEvidence ==
  ASSUME UpdatesInv, Evidence, NEW a \in Agents
  PROVE  /\ Heard(a) \in RowType /\ Counted(Heard(a)) /\ Heard(a).version = running[a]
         /\ Heard(a).proven => Heard(a).version \in proof[a]
<1>1. row[a] \in RowType /\ running[a] \in 1..MaxVersion /\ Heard(a) \in RowType /\ Counted(Heard(a))
  BY HeardTyped DEF UpdatesInv
<1>2. Heard(a).version = running[a] /\ (Heard(a).proven => row[a].proven /\ row[a].version = running[a])
  BY <1>1, HeardFields
<1> QED BY <1>1, <1>2 DEF Evidence

\* The gate is as it was, or closed.
LEMMA SameGate ==
  ASSUME GateIsHonest, tick'.gate = "open" => tick.gate = "open" /\ tick'.latest = tick.latest,
         \A b \in Agents : proof[b] \subseteq proof'[b]
  PROVE  GateIsHonest'
BY DEF GateIsHonest

LEMMA ScannerEvidence ==
  ASSUME UpdatesInv, Evidence, NEW a \in Agents,
         Watcher(a) \/ Beat(a) \/ Restart(a) \/ Claim(a) \/ EndScan(a) \/ Ask(a) \/ Mark(a)
  PROVE  Evidence'
<1>1. CASE Check(a) \/ Beat(a) \/ Fetch(a) \/ Claim(a) \/ EndOtherwise(a)
  <2>1. row' = [row EXCEPT ![a] = Heard(a)] /\ proof' = proof
    BY <1>1 DEF Check, Beat, Fetch, Claim, EndOtherwise, Calls
  <2> QED BY <2>1, HeardEvidence, RowEvidence
<1>2. CASE ReportSuccess(a)
  <2>1. row' = [row EXCEPT ![a] = Cleared(Heard(a))] /\ proof' = proof BY <1>2 DEF ReportSuccess, Calls
  <2>2. Cleared(Heard(a)).proven => Cleared(Heard(a)).version \in proof[a] BY HeardEvidence, ClearedFields
  <2> QED BY <2>1, <2>2, RowEvidence
<1>3. CASE ReportFailure(a)
  <2>1. row' = [row EXCEPT ![a] = Failed(Heard(a))] /\ proof' = proof /\ watch[a].pc = "failing"
    BY <1>3 DEF ReportFailure, Calls
  <2>2. Heard(a).attempts # MaxAttempts BY <2>1, HeardTyped DEF Counted, UpdatesInv
  <2>3. Failed(Heard(a)).proven => Failed(Heard(a)).version \in proof[a] BY <2>2, HeardEvidence, FailedFields
  <2> QED BY <2>1, <2>3, RowEvidence
<1>4. CASE Complete(a)
  <2> DEFINE p == Heard(a).proven \/ StillFresh(a)
             r == WithProven(Heard(a), p)
  <2>1. row' = [row EXCEPT ![a] = r] /\ proof' = [proof EXCEPT ![a] = proof[a] \cup {running[a]}]
    BY <1>4 DEF Complete, WithProven
  <2>2. p \in BOOLEAN OBVIOUS
  <2> HIDE DEF p
  <2>3. r.version = running[a] BY <2>2, HeardEvidence, SetProven
  <2> HIDE DEF r
  <2>4. proof \in [Agents -> SUBSET (1..MaxVersion)] BY Unfold DEF UpdatesInv, Typed
  <2>5. running[a] \in proof'[a] /\ \A b \in Agents : proof[b] \subseteq proof'[b] BY <2>1, <2>4
  <2> QED BY <2>1, <2>3, <2>5, RowEvidence
<1>5. CASE Ask(a)
  <2>1. row' = [row EXCEPT ![a] = Requested(row[a])] /\ proof' = proof BY <1>5 DEF Ask
  <2>2. row[a] \in RowType BY HeardTyped DEF UpdatesInv
  <2>3. Requested(row[a]).proven => Requested(row[a]).version \in proof[a] BY <2>2, RequestedFields DEF Evidence
  <2> QED BY <2>1, <2>3, RowEvidence
<1>6. CASE UNCHANGED <<row, proof>> BY <1>6 DEF Evidence
<1> QED BY <1>1, <1>2, <1>3, <1>4, <1>5, <1>6
        DEF Watcher, EndScan, BusyCheck, Fail, Install, LoseReport, Exec, ExecFails, Restart, Begin, Mark

LEMMA ScannerGate ==
  ASSUME UpdatesInv, GateIsHonest, NEW a \in Agents,
         Watcher(a) \/ Beat(a) \/ Restart(a) \/ Claim(a) \/ EndScan(a) \/ Ask(a) \/ Mark(a)
  PROVE  GateIsHonest'
<1>1. tick' = tick
  BY DEF Watcher, Check, BusyCheck, Fetch, Fail, Install, ReportSuccess, ReportFailure, LoseReport, Exec, ExecFails,
         Beat, Restart, Claim, EndScan, Begin, Complete, EndOtherwise, Ask, Mark, server
<1>2. \A b \in Agents : proof[b] \subseteq proof'[b]
  <2>1. CASE proof' = proof BY <2>1
  <2>2. CASE Complete(a)
    <3>1. proof' = [proof EXCEPT ![a] = proof[a] \cup {running[a]}] BY <2>2 DEF Complete
    <3>2. proof \in [Agents -> SUBSET (1..MaxVersion)] BY Unfold DEF UpdatesInv, Typed
    <3> QED BY <3>1, <3>2
  <2> QED BY <2>1, <2>2
          DEF Watcher, Check, BusyCheck, Fetch, Fail, Install, ReportSuccess, ReportFailure, LoseReport, Exec, ExecFails,
              Beat, Restart, Claim, EndScan, Begin, EndOtherwise, Ask, Mark
<1> QED BY <1>1, <1>2, SameGate

LEMMA AutoUpdateHonest ==
  ASSUME UpdatesInv, Evidence, GateIsHonest, AutoUpdate
  PROVE  Evidence' /\ GateIsHonest'
<1>1. tick \in TickType /\ canary \subseteq Agents BY Unfold DEF UpdatesInv, Typed
<1>2. proof' = proof BY DEF AutoUpdate, TickStart, TickGate, TickList, TickAsk
<1>3. CASE TickStart
  <2>1. tick'.gate = "none" /\ row' = row BY <1>3 DEF TickStart, IdleTick
  <2> QED BY <1>2, <2>1 DEF Evidence, GateIsHonest
<1>4. CASE TickGate
  <2>1. tick' = [[tick EXCEPT !.pc = "list"] EXCEPT !.gate = Gate(tick.latest)] /\ row' = row BY <1>4 DEF TickGate
  <2>2. tick'.gate = Gate(tick.latest) /\ tick'.latest = tick.latest BY <1>1, <2>1 DEF TickType
  <2>3. ASSUME tick'.gate = "open" PROVE \E a \in Agents : \E v \in proof[a] : v >= tick.latest
    <3>1. PICK a \in canary : ProvenOn(a, tick.latest) BY <2>2, <2>3 DEF Gate
    <3>2. row[a].version \in proof[a] /\ row[a].version >= tick.latest BY <1>1, <3>1 DEF ProvenOn, Evidence
    <3> QED BY <1>1, <3>2
  <2>4. GateIsHonest' BY <1>2, <2>2, <2>3 DEF GateIsHonest
  <2> QED BY <1>2, <2>1, <2>4 DEF Evidence
<1>5. CASE TickList
  <2>1. tick' = IdleTick \/ tick' = [[tick EXCEPT !.pc = "ask"] EXCEPT !.todo = Candidates] BY <1>5 DEF TickList
  <2>2. tick'.gate = "open" => tick.gate = "open" /\ tick'.latest = tick.latest
    <3>1. CASE tick' = IdleTick BY <3>1 DEF IdleTick
    <3>2. CASE tick' = [[tick EXCEPT !.pc = "ask"] EXCEPT !.todo = Candidates] BY <1>1, <3>2 DEF TickType
    <3> QED BY <2>1, <3>1, <3>2
  <2>3. row' = row BY <1>5 DEF TickList
  <2> QED BY <1>2, <2>2, <2>3, SameGate DEF Evidence
<1>6. ASSUME NEW a \in Agents, TickAsk(a) PROVE Evidence' /\ GateIsHonest'
  <2>1. tick' = IdleTick \/ tick' = [tick EXCEPT !.todo = tick.todo \ {a}] BY <1>6 DEF TickAsk
  <2>2. tick'.gate = "open" => tick.gate = "open" /\ tick'.latest = tick.latest
    <3>1. CASE tick' = IdleTick BY <3>1 DEF IdleTick
    <3>2. CASE tick' = [tick EXCEPT !.todo = tick.todo \ {a}] BY <1>1, <3>2 DEF TickType
    <3> QED BY <2>1, <3>1, <3>2
  <2>3. row' = row \/ row' = [row EXCEPT ![a] = Requested(row[a])] BY <1>6 DEF TickAsk
  <2>4. row[a] \in RowType BY HeardTyped DEF UpdatesInv
  <2>5. Requested(row[a]).proven => Requested(row[a]).version \in proof[a] BY <2>4, RequestedFields DEF Evidence
  <2>6. Evidence'
    <3>1. CASE row' = row BY <1>2, <3>1 DEF Evidence
    <3>2. CASE row' = [row EXCEPT ![a] = Requested(row[a])] BY <1>2, <2>5, <3>2, RowEvidence
    <3> QED BY <2>3, <3>1, <3>2
  <2> QED BY <1>2, <2>2, <2>6, SameGate
<1> QED BY <1>3, <1>4, <1>5, <1>6 DEF AutoUpdate

\* The rows that count as proven and the gate agree with what was completed.
THEOREM HonestInvariant == Spec => []HonestInv
<1>1. Init => HonestInv
  <2>1. Init => Evidence BY DEF Init, Evidence
  <2>2. Init => GateIsHonest BY DEF Init, IdleTick, GateIsHonest
  <2> QED BY <2>1, <2>2, InitUpdates DEF HonestInv
<1>2. HonestInv /\ [Next]_vars => HonestInv'
  <2> SUFFICES ASSUME UpdatesInv, Evidence, GateIsHonest, [Next]_vars PROVE HonestInv' BY DEF HonestInv
  <2>1. UpdatesInv' BY NextUpdates, StutterUpdates
  <2>2. CASE Next
    <3>1. CASE Release \/ Withdraw
      <4>1. UNCHANGED <<row, proof, tick>> BY <3>1 DEF Release, Withdraw
      <4> QED BY <2>1, <4>1 DEF HonestInv, Evidence, GateIsHonest
    <3> QED BY <2>1, <2>2, <3>1, ScannerEvidence, ScannerGate, AutoUpdateHonest DEF Next, HonestInv
  <2>3. CASE UNCHANGED vars BY <2>1, <2>3 DEF HonestInv, Evidence, GateIsHonest, vars
  <2> QED BY <2>2, <2>3
<1> QED BY <1>1, <1>2, PTL DEF Spec

\* The canary gate opens for a release only after a scan was completed on it
\* or on a later one (autoUpdate.ts: canaryStatus).
THEOREM GateTellsTheTruth == Spec => []GateIsHonest
<1>1. HonestInv => GateIsHonest BY DEF HonestInv
<1> QED BY <1>1, HonestInvariant, PTL

-----------------------------------------------------------------------------
\* Updates stay sound, for any number of scanners and versions.
THEOREM UpdatesStaySound == Spec => []UpdatesAreSound
<1>1. TypeOK /\ GateIsHonest /\ OnlyForward /\ ThreeTries => UpdatesAreSound
  BY DEF UpdatesAreSound
<1> QED BY <1>1, TypeCorrect, GateTellsTheTruth, GoesForward, TriedThreeTimes, PTL
=============================================================================
