----------------------------- MODULE LoginLimiter -----------------------------
(***************************************************************************)
(* The count of failed logins and the lock-out (auth/rateLimiter.ts, and   *)
(* its use in POST /auth/login). Counters are in memory, one per source    *)
(* address and one per user name. A login asks both before it looks up the *)
(* user and verifies the password, which is awaited, and counts its        *)
(* failure, or clears the counters, after that; so several logins may have *)
(* asked before any of them counts.                                        *)
(*                                                                         *)
(* Left out: sessions, and the second factor (POST /auth/verify-totp),     *)
(* which asks, counts and clears in the same way the counter of the        *)
(* address, this one, and one of its own for the user. Of a code from the  *)
(* generator it awaits nothing between; of a recovery code it awaits the   *)
(* update that uses it up. To the counter of an address it is a login that *)
(* meets no user's.                                                        *)
(***************************************************************************)
EXTENDS Naturals, FiniteSets

CONSTANTS
    Logins,         \* logins that may be under way at once
    ClientIps,
    Users,
    MaxTries,       \* MAX_ATTEMPTS
    MaxPasses       \* ends of a window, and restarts, in one behaviour

ASSUME LoginAssumption ==
    /\ IsFiniteSet(Logins)
    /\ MaxTries \in Nat /\ MaxTries > 1
    /\ MaxPasses \in Nat
    /\ ClientIps \cap Users = {}

Counters == ClientIps \cup Users

VARIABLES
    tried,      \* attempts: the count of a counter (0: no entry)
    windowOver, \* its window has ended
    locked,     \* lockedUntil is set
    lockOver,   \* and has passed
    login,      \* logins under way
    passes,
    \* history
    alarms      \* auth.account_locked since the counter was last locked

loginVars == <<tried, windowOver, locked, lockOver, login, passes, alarms>>

NoLogin == [pc |-> "idle", keys |-> {}]

LimiterTypeOK ==
    /\ tried \in [Counters -> Nat]
    /\ windowOver \in SUBSET Counters /\ locked \in SUBSET Counters /\ lockOver \in SUBSET locked
    /\ login \in [Logins -> [pc : {"idle", "verify"}, keys : SUBSET Counters]]
    /\ passes \in 0 .. MaxPasses
    /\ alarms \in [Counters -> Nat]
    /\ \A c \in locked : tried[c] >= MaxTries

LoginInit ==
    /\ tried = [c \in Counters |-> 0]
    /\ windowOver = {}
    /\ locked = {} /\ lockOver = {}
    /\ login = [l \in Logins |-> NoLogin]
    /\ passes = 0
    /\ alarms = [c \in Counters |-> 0]

\* Not the code: the count is cleared, and the lock is not.
ForgetCountOnly(keys) ==
    /\ tried' = [c \in Counters |-> IF c \in keys THEN 0 ELSE tried[c]]
    /\ UNCHANGED <<windowOver, locked, lockOver>>

\* attempts.delete
Forget(keys) ==
    /\ tried' = [c \in Counters |-> IF c \in keys THEN 0 ELSE tried[c]]
    /\ windowOver' = windowOver \ keys
    /\ locked' = locked \ keys
    /\ lockOver' = lockOver \ keys

\* Not the code: only the user's counter is asked.
StillLockedUser(a, u) == {u} \cap (locked \ lockOver)

\* isLockedOut of the address, and of the user if that is not.
StillLocked(a, u) == {a, u} \cap (locked \ lockOver)

\* An entry whose lock has passed is deleted by the question.
AskLimiter(l, a, u) ==
    /\ login[l].pc = "idle"
    /\ Forget({a, u} \cap (IF a \in locked \ lockOver THEN {} ELSE lockOver))
    /\ login' = IF StillLocked(a, u) = {}
                THEN [login EXCEPT ![l] = [pc |-> "verify", keys |-> {a, u}]]
                ELSE login
    /\ UNCHANGED <<passes, alarms>>

\* Not the code: a locked counter locks again.
LocksAgain(c) == c \notin windowOver /\ tried[c] + 1 >= MaxTries

\* The attempt that locks a counter.
Locks(c) == c \notin windowOver /\ tried[c] + 1 >= MaxTries /\ c \notin locked

\* recordFailure of both: a counter whose window has ended, or without an
\* entry, begins anew.
LoginFails(l) ==
    LET keys == login[l].keys
        anew == keys \cap windowOver
        lock == {c \in keys : Locks(c)}
    IN  /\ login[l].pc = "verify"
        /\ tried' = [c \in Counters |-> IF c \in anew THEN 1 ELSE IF c \in keys THEN tried[c] + 1 ELSE tried[c]]
        /\ windowOver' = windowOver \ anew
        /\ locked' = (locked \ anew) \cup lock
        /\ lockOver' = (lockOver \ anew) \ lock
        /\ alarms' = [c \in Counters |-> IF c \in lock THEN 1 + (IF c \in locked THEN alarms[c] ELSE 0) ELSE alarms[c]]
        /\ login' = [login EXCEPT ![l] = NoLogin]
        /\ UNCHANGED passes

\* recordSuccess of both.
LoginSucceeds(l) ==
    /\ login[l].pc = "verify"
    /\ Forget(login[l].keys)
    /\ login' = [login EXCEPT ![l] = NoLogin]
    /\ UNCHANGED <<passes, alarms>>

\* A failing statement: nothing is counted.
LoginBreaks(l) ==
    /\ login[l].pc = "verify"
    /\ login' = [login EXCEPT ![l] = NoLogin]
    /\ UNCHANGED <<tried, windowOver, locked, lockOver, passes, alarms>>

\* Both last 15 minutes, and the lock begins later.
WindowPasses(c) ==
    /\ tried[c] > 0 /\ c \notin windowOver
    /\ passes < MaxPasses
    /\ passes' = passes + 1
    /\ windowOver' = windowOver \cup {c}
    /\ UNCHANGED <<tried, locked, lockOver, login, alarms>>

LockPasses(c) ==
    /\ c \in locked \cap windowOver
    /\ lockOver' = lockOver \cup {c}
    /\ UNCHANGED <<tried, windowOver, locked, login, passes, alarms>>

LimiterRestart ==
    /\ passes < MaxPasses
    /\ passes' = passes + 1
    /\ Forget(Counters)
    /\ login' = [l \in Logins |-> NoLogin]
    /\ UNCHANGED alarms

LoginNext ==
    \/ \E l \in Logins, a \in ClientIps, u \in Users : AskLimiter(l, a, u)
    \/ \E l \in Logins : LoginFails(l) \/ LoginSucceeds(l) \/ LoginBreaks(l)
    \/ \E c \in Counters : WindowPasses(c) \/ LockPasses(c)
    \/ LimiterRestart

LoginSpec == LoginInit /\ [][LoginNext]_loginVars

(***************************************************************************)
(* Properties.                                                             *)
(***************************************************************************)

\* A lock is told once, by the attempt that causes it and never by those that
\* end after it (rateLimiter.ts:30-38).
OneAlarmPerLock == \A c \in Counters : alarms[c] <= 1

\* Logins that asked before the lock still count: they may exceed MAX_ATTEMPTS,
\* by no more than were under way.
OverrunIsBounded == \A c \in Counters : tried[c] < MaxTries + Cardinality(Logins)

\* A counter goes over its limit only by the logins under way, and a lock is
\* told once.
LockIsSound == LimiterTypeOK /\ OneAlarmPerLock /\ OverrunIsBounded

=============================================================================
