---------------------------- MODULE OwnerAsserts ----------------------------
(* The assertions that a thread owns, or does not own, a lock:             *)
(* safe_mutex_assert_owner, rw_pr_lock_assert_write_owner and              *)
(* my_rw_lock_assert_write_owner of my_pthread.h, their opposites, and the *)
(* macros of mysql_thread.h on top of them.  An assertion reads two fields *)
(* of the lock, whether it is locked and by whom, without holding anything *)
(* while other threads lock and unlock it.                                 *)
EXTENDS Integers, FiniteSets

CONSTANTS
    Askers,         \* pthread_t
    NoThread        \* the value 0 of a pthread_t

ASSUME AskerAssumption == NoThread \notin Askers

VARIABLES
    SAFE_MUTEX,     \* is the program compiled with the assertions?
    lockKind,       \* which of the three lock types the lock is
    flag,           \* its field count, active_writer or state
    lockedBy,       \* its field thread, writer_thread or write_thread
    inside,         \* the thread that has locked it, for writing, or NoThread
    sharing,        \* the threads that have locked it for reading
    at,             \* per thread, the step it is at
    claim,          \*   the assertion it makes
    verdict         \*   and its outcome

ownership == <<SAFE_MUTEX, lockKind, flag, lockedBy, inside, sharing, at,
               claim, verdict>>

lock_types == {"safe_mutex_t", "rw_pr_lock_t", "my_rw_lock_t"}

OwnerInit ==
    /\ SAFE_MUTEX \in BOOLEAN /\ lockKind \in lock_types
    /\ flag = 0 /\ lockedBy = NoThread
    /\ inside = NoThread /\ sharing = {}
    /\ at = [t \in Askers |-> "idle"]
    /\ claim = [t \in Askers |-> "none"]
    /\ verdict = [t \in Askers |-> "none"]
-----------------------------------------------------------------------------
(* The locks themselves.  The two fields are written one after the other   *)
(* under the lock that protects them, in either order.                     *)
Goes(t, step) == at' = [at EXCEPT ![t] = step]
Locking == <<flag, lockedBy>>
Asking == <<SAFE_MUTEX, lockKind, claim, verdict>>

WriteLocked == IF lockKind = "my_rw_lock_t" THEN -1 ELSE 1

LockForWriting(t) ==
    /\ at[t] = "idle" /\ inside = NoThread /\ sharing = {}
    /\ inside' = t /\ Goes(t, "locking")
    /\ \/ flag' = WriteLocked /\ UNCHANGED lockedBy
       \/ SAFE_MUTEX /\ lockedBy' = t /\ UNCHANGED flag
    /\ UNCHANGED <<sharing, Asking>>
LockedNow(t) ==
    /\ at[t] = "locking" /\ Goes(t, "idle")
    /\ flag' = WriteLocked /\ lockedBy' = IF SAFE_MUTEX THEN t ELSE lockedBy
    /\ UNCHANGED <<inside, sharing, Asking>>
UnlockForWriting(t) ==
    /\ at[t] = "idle" /\ inside = t /\ Goes(t, "unlocking")
    /\ \/ flag' = 0 /\ UNCHANGED lockedBy
       \/ SAFE_MUTEX /\ lockedBy' = NoThread /\ UNCHANGED flag
    /\ UNCHANGED <<inside, sharing, Asking>>
Unlocked(t) ==
    /\ at[t] = "unlocking" /\ Goes(t, "idle")
    /\ flag' = 0 /\ lockedBy' = IF SAFE_MUTEX THEN NoThread ELSE lockedBy
    /\ inside' = NoThread
    /\ UNCHANGED <<sharing, Asking>>

(* Readers show in the state of a my_rw_lock_t only.                       *)
LockForReading(t) ==
    /\ lockKind # "safe_mutex_t"
    /\ at[t] = "idle" /\ inside = NoThread /\ t \notin sharing
    /\ sharing' = sharing \cup {t}
    /\ flag' = IF lockKind = "my_rw_lock_t" THEN flag + 1 ELSE flag
    /\ UNCHANGED <<lockedBy, inside, at, Asking>>
UnlockForReading(t) ==
    /\ at[t] = "idle" /\ t \in sharing
    /\ sharing' = sharing \ {t}
    /\ flag' = IF lockKind = "my_rw_lock_t" THEN flag - 1 ELSE flag
    /\ UNCHANGED <<lockedBy, inside, at, Asking>>
-----------------------------------------------------------------------------
(* The assertions.  The first field decides whether the second is read:    *)
(* a lock that is not locked is owned by nobody.  Without SAFE_MUTEX the   *)
(* macros are empty.                                                       *)
Judge(t, ok) ==
    /\ verdict' = [verdict EXCEPT ![t] = IF ok THEN "passed" ELSE "aborted"]
    /\ Goes(t, "judged")
    /\ UNCHANGED claim
Ask(t, c, locked) ==
    /\ at[t] = "idle" /\ SAFE_MUTEX
    /\ claim' = [claim EXCEPT ![t] = c]
    /\ IF locked THEN Goes(t, "comparing") /\ UNCHANGED verdict
       ELSE /\ verdict' = [verdict EXCEPT ![t] =
                              IF c = "not_owner" THEN "passed" ELSE "aborted"]
            /\ Goes(t, "judged")
    /\ UNCHANGED <<SAFE_MUTEX, lockKind, Locking, inside, sharing>>

safe_mutex_assert(t, c) == lockKind = "safe_mutex_t" /\ Ask(t, c, flag > 0)
rw_pr_lock_assert(t, c) == lockKind = "rw_pr_lock_t" /\ Ask(t, c, flag # 0)
my_rw_lock_assert(t, c) == lockKind = "my_rw_lock_t" /\ Ask(t, c, flag = -1)

(* mutant: the comparison of the assertion not_owner is not negated.       *)
pthread_equal_NotNegated(t) ==
    /\ at[t] = "comparing"
    /\ Judge(t, lockedBy = t)
    /\ UNCHANGED <<SAFE_MUTEX, lockKind, Locking, inside, sharing>>
pthread_equal(t) ==
    /\ at[t] = "comparing"
    /\ Judge(t, (lockedBy = t) = (claim[t] = "owner"))
    /\ UNCHANGED <<SAFE_MUTEX, lockKind, Locking, inside, sharing>>

mysql_mutex_assert(t) == \E c \in {"owner", "not_owner"} :
    safe_mutex_assert(t, c)
mysql_prlock_assert(t) == \E c \in {"owner", "not_owner"} :
    rw_pr_lock_assert(t, c)
rw_lock_assert(t) == \E c \in {"owner", "not_owner"} : my_rw_lock_assert(t, c)

(* An assertion that passes returns, one that fails ends the program.      *)
GoOn(t) ==
    /\ verdict[t] = "passed" /\ Goes(t, "idle")
    /\ claim' = [claim EXCEPT ![t] = "none"]
    /\ verdict' = [verdict EXCEPT ![t] = "none"]
    /\ UNCHANGED <<SAFE_MUTEX, lockKind, Locking, inside, sharing>>

OwnerNext ==
    /\ \A t \in Askers : verdict[t] # "aborted"
    /\ \E t \in Askers :
          \/ LockForWriting(t) \/ LockedNow(t)
          \/ UnlockForWriting(t) \/ Unlocked(t)
          \/ LockForReading(t) \/ UnlockForReading(t)
          \/ mysql_mutex_assert(t) \/ mysql_prlock_assert(t)
          \/ rw_lock_assert(t)
          \/ pthread_equal(t) \/ GoOn(t)

OwnerSpec == OwnerInit /\ [][OwnerNext]_ownership
-----------------------------------------------------------------------------
(* An assertion passes exactly when its claim is true, whatever the other  *)
(* threads do to the lock between the two reads: it neither stops a        *)
(* correct program nor lets an incorrect one go on.                        *)
AssertionsExact ==
    \A t \in Askers : verdict[t] # "none" =>
        (verdict[t] = "passed" <=> (inside = t) = (claim[t] = "owner"))
=============================================================================
