---------------------------- MODULE LoginLockout ----------------------------
(***************************************************************************)
(* Failed logins and the lock they put on one account                      *)
(* (services/auth_service.py, login).  A login reads the user and the      *)
(* clock, verifies the password, which takes long, and then writes the     *)
(* counter and the lock as it computed them from what it had read: the     *)
(* UPDATE names the row by its id alone.  Update, audit row and commit are *)
(* one step here, because nothing is read between them.                    *)
(*                                                                         *)
(* A member of Requests is a connection that logs in again and again.      *)
(* MaxTime bounds the clock; MaxSmallInt is the largest failed_attempts.   *)
(***************************************************************************)
EXTENDS Naturals, FiniteSetsExt

CONSTANTS Requests, MaxFailed, Lockout, MaxSmallInt, MaxTime

ASSUME LockoutAssumption ==
    /\ IsFiniteSet(Requests)
    /\ {MaxFailed, Lockout} \subseteq Nat \ {0}
    /\ {MaxSmallInt, MaxTime} \subseteq Nat /\ MaxSmallInt >= MaxFailed

VARIABLES
    failed,        \* users.failed_attempts
    lockedUntil,   \* users.locked_until
    active,        \* users.is_active
    clock,
    login,            \* request -> where its login stands, or how the last one ended
    read,          \* request -> the user it read, the time then, and if it may pass
    guesses        \* history: wrong passwords told so since the last login or tick

loginVars == <<failed, lockedUntil, active, clock, login, read, guesses>>

NoLock == 0

LoginTypeOK ==
    /\ failed \in 0..MaxSmallInt
    /\ lockedUntil \in Nat
    /\ active \in BOOLEAN
    /\ clock \in 0..MaxTime
    /\ login \in [Requests -> {"idle", "verifying", "locked", "wrong", "in"}]
    /\ read \in [Requests -> [failed : 0..MaxSmallInt, now : 0..MaxTime, good : BOOLEAN]]
    /\ guesses \in Nat

LoginInit ==
    /\ failed = 0 /\ lockedUntil = NoLock /\ active = TRUE
    /\ clock = 0
    /\ login = [q \in Requests |-> "idle"]
    /\ read = [q \in Requests |-> [failed |-> 0, now |-> 0, good |-> FALSE]]
    /\ guesses = 0

Tick ==
    /\ clock < MaxTime
    /\ clock' = clock + 1
    /\ guesses' = 0
    /\ UNCHANGED <<failed, lockedUntil, active, login, read>>

\* update_user: deactivation and reactivation leave counter and lock alone.
SetActive ==
    /\ active' = ~active
    /\ UNCHANGED <<failed, lockedUntil, clock, login, read, guesses>>

-----------------------------------------------------------------------------
(* login *)

MutantNeverLocked == FALSE                \* mutant: the lock is not looked at
LockedNow == lockedUntil > clock

\* The lookup: a locked account is answered before any password is verified.
LookUp(q, right) ==
    /\ login[q] # "verifying"
    /\ login' = [login EXCEPT ![q] = IF LockedNow THEN "locked" ELSE "verifying"]
    /\ read' = [read EXCEPT ![q] = [failed |-> failed, now |-> clock,
                                    good |-> active /\ right]]
    /\ UNCHANGED <<failed, lockedUntil, active, clock, guesses>>

MutantStartsAgain(q) ==                   \* mutant: anew once a lock has run out
    IF read[q].failed >= MaxFailed THEN 1 ELSE read[q].failed + 1
Attempts(q) == read[q].failed + 1

Fits(n) == n <= MaxSmallInt

CountFailure(q) ==
    /\ login[q] = "verifying" /\ ~read[q].good
    /\ Fits(Attempts(q))
    /\ failed' = Attempts(q)
    /\ lockedUntil' = IF Attempts(q) >= MaxFailed THEN read[q].now + Lockout ELSE NoLock
    /\ login' = [login EXCEPT ![q] = "wrong"]
    /\ guesses' = guesses + 1
    /\ UNCHANGED <<active, clock, read>>

MutantKeepsLock == lockedUntil            \* mutant: success clears the counter alone
Unlocked == NoLock

LogIn(q) ==
    /\ login[q] = "verifying" /\ read[q].good
    /\ failed' = 0
    /\ lockedUntil' = Unlocked
    /\ login' = [login EXCEPT ![q] = "in"]
    /\ guesses' = 0
    /\ UNCHANGED <<active, clock, read>>

\* The process or the database fails, or failed_attempts is out of range: the
\* transaction leaves nothing, and the answer does not tell the password wrong.
Abort(q) ==
    /\ login[q] = "verifying"
    /\ login' = [login EXCEPT ![q] = "idle"]
    /\ UNCHANGED <<failed, lockedUntil, active, clock, read, guesses>>

LoginNext ==
    \/ Tick \/ SetActive
    \/ \E q \in Requests :
         \/ \E right \in BOOLEAN : LookUp(q, right)
         \/ CountFailure(q) \/ LogIn(q) \/ Abort(q)

LoginSpec == LoginInit /\ [][LoginNext]_loginVars

-----------------------------------------------------------------------------
(* Properties *)

\* The account carries a lock exactly when its counter has reached the limit,
\* whichever of several concurrent logins wrote last (login: values of the two
\* UPDATEs).
LockMatchesCounter == lockedUntil # NoLock <=> failed >= MaxFailed

\* Neither the counter nor what a login under way has read of it lies below v.
AtLeast(v) == failed >= v /\ \A q \in Requests : login[q] = "verifying" => read[q].failed >= v

\* A late failure may take the counter back to one more than it read, and lift
\* the lock, but only a login takes it below what everybody has read: guessing
\* in parallel makes progress towards a lock that stays (login, attempts).
FloorNeverFalls == [][\A v \in 0..MaxFailed : AtLeast(v) /\ failed' # 0 => AtLeast(v)']_loginVars

\* K connections that read the counter before they write it get at most
\* (MaxFailed + K) choose K, less one, wrong passwords answered before the
\* account is locked for good: MaxFailed when K = 1 (login).
GuessesBounded ==
    guesses < Cardinality(kSubset(MaxFailed, 1 .. MaxFailed + Cardinality(Requests)))

\* Five failures lock the account for 15 minutes (docs/API.md, POST /auth/login):
\* a lock ends with its time, or with a login, never with one more failure.
\* Does not hold: a failure that read the counter before writes its own.
LockLasts ==
    [][lockedUntil > clock => \/ lockedUntil' > clock
                              \/ \E q \in Requests : login'[q] = "in" /\ login[q] # "in"]_loginVars
=============================================================================
