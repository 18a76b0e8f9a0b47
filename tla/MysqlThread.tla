---------------------------- MODULE MysqlThread -----------------------------
(* The instrumented mutexes, conditions and threads of mysql_thread.h.     *)
(* A wrapper brackets the real operation with calls to the recorder        *)
(* (module PSI); between the stages of one thread's wrapper any step of    *)
(* any other thread may happen, so every wrapper is one action of a thread *)
(* whose disjuncts are its stages:                                         *)
(*   idle --locker, start of wait--> entered --real operation--> done      *)
(*        --end of wait, return--> idle                                    *)
(* and a wait on a condition sleeps and is woken between entered and done. *)
EXTENDS PSI

CONSTANTS
    Threads,        \* pthread_t
    Main,           \* the thread the program starts with
    Mutexes,        \* mysql_mutex_t objects
    Conds,          \* mysql_cond_t objects
    Ids             \* identifiers given to mysql_thread_set_psi_id

ASSUME ThreadAssumption ==
    /\ Main \in Threads
    /\ NULL \notin Threads \cup Mutexes \cup Conds
    /\ Mutexes \cap Conds = {}
    /\ Ids \subseteq Nat

(* Return codes of the real operations.                                    *)
EBUSY == 16
EINVAL == 22
ETIMEDOUT == 145

VARIABLES
    PSI_server,     \* the interface, or NULL
    key,            \* per class of instrument, its key
    wait,           \* the recorder: waits in progress,
    owner,          \*   owners of the mutexes,
    attached,       \*   instrumentation attached to a thread, or NULL,
    psi_id,         \*   and the identifier of an instrumented thread
    m_psi,          \* per mutex and condition, its instrument or NULL
    ready,          \* per mutex and condition, is it initialised?
    holder,         \* per mutex, the thread that has it locked, or NULL
    alive,          \* the threads that run
    pc,             \* per thread, the stage of the wrapper it is in,
    fn,             \*   the wrapper,
    obj,            \*   the object it was called on,
    mtx,            \*   the mutex of a wait on a condition,
    locker,         \*   its local locker
    rc              \*   and its local result

recorder == <<wait, owner, attached, psi_id>>
objects == <<m_psi, ready>>
setup == <<PSI_server, key>>
call == <<pc, fn, obj, mtx, locker, rc>>
vars == <<setup, recorder, objects, holder, alive, call>>

Objects == Mutexes \cup Conds

Init ==
    /\ PSI_server = NULL
    /\ key = [c \in PSI_kinds |-> 0]
    /\ wait = [t \in Threads |-> NULL]
    /\ owner = [m \in Mutexes |-> NULL]
    /\ attached = [t \in Threads |-> NULL]
    /\ psi_id = [t \in Threads |-> 0]
    /\ m_psi = [o \in Objects |-> NULL]
    /\ ready = [o \in Objects |-> FALSE]
    /\ holder = [m \in Mutexes |-> NULL]
    /\ alive = {Main}
    /\ pc = [t \in Threads |-> "idle"]
    /\ fn = [t \in Threads |-> "none"]
    /\ obj = [t \in Threads |-> NULL]
    /\ mtx = [t \in Threads |-> NULL]
    /\ locker = [t \in Threads |-> NULL]
    /\ rc = [t \in Threads |-> 0]
-----------------------------------------------------------------------------
(* Stages of a call.                                                       *)
Idle(t) == t \in alive /\ pc[t] = "idle"
At(t, stage, f, o) == pc[t] = stage /\ fn[t] = f /\ obj[t] = o

Instrumented(o) == PSI_server # NULL /\ m_psi[o] # NULL

Enter(t, f, o, m, l) ==
    /\ pc' = [pc EXCEPT ![t] = "entered"]
    /\ fn' = [fn EXCEPT ![t] = f]
    /\ obj' = [obj EXCEPT ![t] = o]
    /\ mtx' = [mtx EXCEPT ![t] = m]
    /\ locker' = [locker EXCEPT ![t] = l]
    /\ wait' = StartWait(wait, l)
    /\ UNCHANGED <<setup, attached, psi_id, objects, holder, alive, rc>>

(* The real operation of t is over, with result r.                         *)
Done(t, r) ==
    /\ pc' = [pc EXCEPT ![t] = "done"]
    /\ rc' = [rc EXCEPT ![t] = r]
    /\ UNCHANGED <<setup, recorder, objects, alive, fn, obj, mtx, locker>>

Return(t) ==
    /\ pc' = [pc EXCEPT ![t] = "idle"]
    /\ fn' = [fn EXCEPT ![t] = "none"]
    /\ obj' = [obj EXCEPT ![t] = NULL]
    /\ mtx' = [mtx EXCEPT ![t] = NULL]
    /\ locker' = [locker EXCEPT ![t] = NULL]
    /\ rc' = [rc EXCEPT ![t] = 0]
    /\ UNCHANGED <<setup, attached, psi_id, objects, alive>>
-----------------------------------------------------------------------------
(* Mutexes.  Callers initialise a mutex before they use it, lock a mutex   *)
(* they do not hold, and unlock one they hold.                             *)

(* The instrument is created before the real mutex, and stays when         *)
(* creating the real mutex fails.                                          *)
inline_mysql_mutex_init(t, m) ==
    /\ Idle(t) /\ ~ready[m]
    /\ \E p \in IF PSI_server # NULL THEN init_mutex(key["mutex"], m)
                                     ELSE {NULL} :
          m_psi' = [m_psi EXCEPT ![m] = p]
    /\ \E ok \in BOOLEAN : ready' = [ready EXCEPT ![m] = ok]
    /\ UNCHANGED <<setup, recorder, holder, alive, call>>

(* The caller guarantees that the mutex is free and that nobody will lock  *)
(* it; a thread that has not yet returned from unlocking it may still be   *)
(* there (the requirement my_pthread.h states for its locks).              *)
Abandoned(m) ==
    /\ holder[m] = NULL
    /\ \A u \in Threads :
          pc[u] # "idle" => /\ obj[u] = m => fn[u] = "mutex_unlock"
                            /\ mtx[u] # m
inline_mysql_mutex_destroy(t, m) ==
    /\ Idle(t) /\ ready[m] /\ Abandoned(m)
    /\ IF Instrumented(m)
       THEN /\ owner' = destroy_mutex(owner, m)
            /\ m_psi' = [m_psi EXCEPT ![m] = NULL]
       ELSE UNCHANGED <<owner, m_psi>>
    /\ ready' = [ready EXCEPT ![m] = FALSE]
    /\ UNCHANGED <<setup, wait, attached, psi_id, holder, alive, call>>

MutexLocker(t, m, op) ==
    IF Instrumented(m)
    THEN get_thread_mutex_locker(get_thread(attached, t), m_psi[m], op)
    ELSE {NULL}

(* mutant: only a successful wait is ended.                                *)
EndMutexWait_OnSuccess(t) ==
    /\ owner' = end_mutex_wait(owner, locker[t], rc[t])
    /\ wait' = IF rc[t] = 0 THEN EndWait(wait, locker[t]) ELSE wait
    /\ UNCHANGED holder
    /\ Return(t)
EndMutexWait(t) ==
    /\ owner' = end_mutex_wait(owner, locker[t], rc[t])
    /\ wait' = EndWait(wait, locker[t])
    /\ UNCHANGED holder
    /\ Return(t)

inline_mysql_mutex_lock(t, m) ==
    \/ /\ Idle(t) /\ ready[m] /\ holder[m] # t
       /\ \E l \in MutexLocker(t, m, "PSI_MUTEX_LOCK") :
             Enter(t, "mutex_lock", m, NULL, l)
       /\ UNCHANGED owner
    \/ /\ At(t, "entered", "mutex_lock", m)
       /\ \/ /\ holder[m] = NULL
             /\ holder' = [holder EXCEPT ![m] = t]
             /\ Done(t, 0)
          \/ UNCHANGED holder /\ Done(t, EINVAL)
    \/ At(t, "done", "mutex_lock", m) /\ EndMutexWait(t)

inline_mysql_mutex_trylock(t, m) ==
    \/ /\ Idle(t) /\ ready[m] /\ holder[m] # t
       /\ \E l \in MutexLocker(t, m, "PSI_MUTEX_TRYLOCK") :
             Enter(t, "mutex_trylock", m, NULL, l)
       /\ UNCHANGED owner
    \/ /\ At(t, "entered", "mutex_trylock", m)
       /\ \/ /\ holder[m] = NULL
             /\ holder' = [holder EXCEPT ![m] = t]
             /\ Done(t, 0)
          \/ holder[m] # NULL /\ UNCHANGED holder /\ Done(t, EBUSY)
    \/ At(t, "done", "mutex_trylock", m) /\ EndMutexWait(t)

(* mutant: the mutex is unlocked before the recorder is told of it.        *)
inline_mysql_mutex_unlock_ToldLate(t, m) ==
    \/ /\ Idle(t) /\ holder[m] = t
       /\ pc' = [pc EXCEPT ![t] = "entered"]
       /\ fn' = [fn EXCEPT ![t] = "mutex_unlock"]
       /\ obj' = [obj EXCEPT ![t] = m]
       /\ holder' = [holder EXCEPT ![m] = NULL]
       /\ UNCHANGED <<setup, recorder, objects, alive, mtx, locker, rc>>
    \/ /\ At(t, "entered", "mutex_unlock", m)
       /\ owner' = IF Instrumented(m) THEN unlock_mutex(owner, m_psi[m])
                                      ELSE owner
       /\ UNCHANGED <<holder, wait>>
       /\ Return(t)
(* The recorder is told of the unlock before the mutex is unlocked, and    *)
(* the wrapper touches nothing after it.                                   *)
inline_mysql_mutex_unlock(t, m) ==
    \/ /\ Idle(t) /\ holder[m] = t
       /\ owner' = IF Instrumented(m) THEN unlock_mutex(owner, m_psi[m])
                                      ELSE owner
       /\ Enter(t, "mutex_unlock", m, NULL, NULL)
    \/ /\ At(t, "entered", "mutex_unlock", m)
       /\ holder' = [holder EXCEPT ![m] = NULL]
       /\ UNCHANGED <<owner, wait>>
       /\ Return(t)
-----------------------------------------------------------------------------
(* Conditions.  A caller waits with a mutex it holds.                      *)
inline_mysql_cond_init(t, c) ==
    /\ Idle(t) /\ ~ready[c]
    /\ \E p \in IF PSI_server # NULL THEN init_cond(key["cond"], c)
                                     ELSE {NULL} :
          m_psi' = [m_psi EXCEPT ![c] = p]
    /\ \E ok \in BOOLEAN : ready' = [ready EXCEPT ![c] = ok]
    /\ UNCHANGED <<setup, recorder, holder, alive, call>>

inline_mysql_cond_destroy(t, c) ==
    /\ Idle(t) /\ ready[c]
    /\ \A u \in Threads : pc[u] # "idle" => obj[u] # c
    /\ m_psi' = [m_psi EXCEPT ![c] = IF Instrumented(c) THEN NULL ELSE @]
    /\ ready' = [ready EXCEPT ![c] = FALSE]
    /\ UNCHANGED <<setup, recorder, holder, alive, call>>

CondLocker(t, c, m, op) ==
    IF Instrumented(c)
    THEN get_thread_cond_locker(get_thread(attached, t), m_psi[c],
                                m_psi[m], op)
    ELSE {NULL}

EndCondWait(t) ==
    /\ wait' = EndWait(wait, locker[t])
    /\ UNCHANGED <<owner, holder>>
    /\ Return(t)

(* pthread_cond_wait: the mutex is released and the thread sleeps; woken   *)
(* by a signal, a broadcast, spuriously, or by its timeout, it returns     *)
(* once it has the mutex again.  A failing call returns with the mutex     *)
(* still locked.                                                           *)
Sleep(t) ==
    /\ holder' = [holder EXCEPT ![mtx[t]] = NULL]
    /\ pc' = [pc EXCEPT ![t] = "asleep"]
    /\ UNCHANGED <<setup, recorder, objects, alive, fn, obj, mtx, locker, rc>>
Wake(t, r) ==
    /\ pc' = [pc EXCEPT ![t] = "woken"]
    /\ rc' = [rc EXCEPT ![t] = r]
    /\ UNCHANGED <<setup, recorder, objects, holder, alive, fn, obj, mtx,
                   locker>>
Relock(t) ==
    /\ holder[mtx[t]] = NULL
    /\ holder' = [holder EXCEPT ![mtx[t]] = t]
    /\ Done(t, rc[t])

inline_mysql_cond_wait(t, c, m) ==
    \/ /\ Idle(t) /\ ready[c] /\ holder[m] = t
       /\ \E l \in CondLocker(t, c, m, "PSI_COND_WAIT") :
             Enter(t, "cond_wait", c, m, l)
       /\ UNCHANGED owner
    \/ /\ At(t, "entered", "cond_wait", c) /\ mtx[t] = m
       /\ Sleep(t) \/ (UNCHANGED holder /\ Done(t, EINVAL))
    \/ At(t, "asleep", "cond_wait", c) /\ mtx[t] = m /\ Wake(t, 0)
    \/ At(t, "woken", "cond_wait", c) /\ mtx[t] = m /\ Relock(t)
    \/ At(t, "done", "cond_wait", c) /\ mtx[t] = m /\ EndCondWait(t)

inline_mysql_cond_timedwait(t, c, m) ==
    \/ /\ Idle(t) /\ ready[c] /\ holder[m] = t
       /\ \E l \in CondLocker(t, c, m, "PSI_COND_TIMEDWAIT") :
             Enter(t, "cond_timedwait", c, m, l)
       /\ UNCHANGED owner
    \/ /\ At(t, "entered", "cond_timedwait", c) /\ mtx[t] = m
       /\ Sleep(t) \/ (UNCHANGED holder /\ Done(t, EINVAL))
    \/ /\ At(t, "asleep", "cond_timedwait", c) /\ mtx[t] = m
       /\ \E r \in {0, ETIMEDOUT} : Wake(t, r)
    \/ At(t, "woken", "cond_timedwait", c) /\ mtx[t] = m /\ Relock(t)
    \/ At(t, "done", "cond_timedwait", c) /\ mtx[t] = m /\ EndCondWait(t)

Sleepers(c) == {u \in Threads : pc[u] = "asleep" /\ obj[u] = c}

(* The real signal wakes the threads of S, and the call returns.           *)
WakeAndReturn(t, S) ==
    /\ pc' = [u \in Threads |-> IF u = t THEN "idle"
                                ELSE IF u \in S THEN "woken" ELSE pc[u]]
    /\ fn' = [fn EXCEPT ![t] = "none"]
    /\ obj' = [obj EXCEPT ![t] = NULL]
    /\ UNCHANGED <<setup, recorder, objects, holder, alive, mtx, locker, rc>>

inline_mysql_cond_signal(t, c) ==
    \/ /\ Idle(t) /\ ready[c]
       /\ Enter(t, "cond_signal", c, NULL, NULL)
       /\ UNCHANGED owner
    \/ /\ At(t, "entered", "cond_signal", c)
       /\ IF Sleepers(c) = {} THEN WakeAndReturn(t, {})
          ELSE \E u \in Sleepers(c) : WakeAndReturn(t, {u})

inline_mysql_cond_broadcast(t, c) ==
    \/ /\ Idle(t) /\ ready[c]
       /\ Enter(t, "cond_broadcast", c, NULL, NULL)
       /\ UNCHANGED owner
    \/ /\ At(t, "entered", "cond_broadcast", c)
       /\ WakeAndReturn(t, Sleepers(c))
-----------------------------------------------------------------------------
(* Threads.  Creating a thread that fails changes nothing.                 *)
inline_mysql_thread_create(t, u) ==
    /\ Idle(t) /\ u \notin alive
    /\ IF PSI_server # NULL
       THEN attached' \in spawn_thread(attached, key["thread"], u)
       ELSE UNCHANGED attached
    /\ alive' = alive \cup {u}
    /\ UNCHANGED <<setup, wait, owner, psi_id, objects, holder, call>>

inline_mysql_thread_set_psi_id(t, id) ==
    /\ Idle(t) /\ PSI_server # NULL /\ get_thread(attached, t) # NULL
    /\ psi_id' = set_thread_id(psi_id, get_thread(attached, t), id)
    /\ UNCHANGED <<setup, wait, owner, attached, objects, holder, alive, call>>

(* The server finds the interface and registers its instruments.  It may   *)
(* do so at any time: objects initialised before are not instrumented.     *)
AttachInterface ==
    /\ PSI_server = NULL
    /\ PSI_server' \in get_interface(PSI_CURRENT_VERSION) \ {NULL}
    /\ UNCHANGED <<key, recorder, objects, holder, alive, call>>
RegisterInstruments(class) ==
    /\ PSI_server # NULL /\ key[class] = 0
    /\ key' = register(key, PSI_info(class))
    /\ UNCHANGED <<PSI_server, recorder, objects, holder, alive, call>>
-----------------------------------------------------------------------------
(* The macros of mysql_thread.h: what a thread may call.                   *)
MutexCalls(t) == \E m \in Mutexes :
    \/ inline_mysql_mutex_init(t, m)
    \/ inline_mysql_mutex_destroy(t, m)
    \/ inline_mysql_mutex_lock(t, m)
    \/ inline_mysql_mutex_trylock(t, m)
    \/ inline_mysql_mutex_unlock(t, m)
CondCalls(t) == \E c \in Conds :
    \/ inline_mysql_cond_init(t, c)
    \/ inline_mysql_cond_destroy(t, c)
    \/ \E m \in Mutexes : inline_mysql_cond_wait(t, c, m)
    \/ \E m \in Mutexes : inline_mysql_cond_timedwait(t, c, m)
    \/ inline_mysql_cond_signal(t, c)
    \/ inline_mysql_cond_broadcast(t, c)
ThreadCalls(t) ==
    \/ \E u \in Threads : inline_mysql_thread_create(t, u)
    \/ \E id \in Ids : inline_mysql_thread_set_psi_id(t, id)

Next ==
    \/ AttachInterface
    \/ \E class \in {"mutex", "cond", "thread"} : RegisterInstruments(class)
    \/ \E t \in Threads : MutexCalls(t) \/ CondCalls(t) \/ ThreadCalls(t)

Spec == Init /\ [][Next]_vars
-----------------------------------------------------------------------------
(* Properties.                                                             *)
MutexLockers == [m_mutex : Mutexes, m_thread : Threads,
                 m_operation : PSI_mutex_operation]
CondLockers == [m_cond : Conds, m_mutex : Mutexes \cup {NULL},
                m_thread : Threads, m_operation : PSI_cond_operation]
Lockers == MutexLockers \cup CondLockers

Acquiring == {"mutex_lock", "mutex_trylock"}
Waiting == {"cond_wait", "cond_timedwait"}
Functions == Acquiring \cup Waiting
    \cup {"none", "mutex_unlock", "cond_signal", "cond_broadcast"}

(* Every variable stays in its type.                                       *)
TypeOK ==
    /\ PSI_server \in {NULL, PSI_v1}
    /\ key \in [PSI_kinds -> PSI_key]
    /\ wait \in [Threads -> Lockers \cup {NULL}]
    /\ owner \in [Mutexes -> Threads \cup {NULL}]
    /\ attached \in [Threads -> Threads \cup {NULL}]
    /\ psi_id \in [Threads -> Nat]
    /\ m_psi \in [Objects -> Objects \cup {NULL}]
    /\ ready \in [Objects -> BOOLEAN]
    /\ holder \in [Mutexes -> Threads \cup {NULL}]
    /\ alive \in SUBSET Threads
    /\ pc \in [Threads -> {"idle", "entered", "asleep", "woken", "done"}]
    /\ fn \in [Threads -> Functions]
    /\ obj \in [Threads -> Objects \cup {NULL}]
    /\ mtx \in [Threads -> Mutexes \cup {NULL}]
    /\ locker \in [Threads -> Lockers \cup {NULL}]
    /\ rc \in [Threads -> {0, EBUSY, EINVAL, ETIMEDOUT}]

(* The refinement mapping: what the ledger calls parked.                   *)
Parked(m) == {t \in Threads : pc[t] \in {"asleep", "woken"} /\ mtx[t] = m}
ParkedOn == [m \in Mutexes |-> Parked(m)]
Ledger == INSTANCE LockLedger WITH Locks <- Mutexes, parked <- ParkedOn
(* The wrappers implement the ledger: a mutex protects the recorder's      *)
(* entry about itself, because the end of a lock wait is recorded after    *)
(* the mutex is locked and the unlock event before it is unlocked.         *)
LedgerSpec == Ledger!Spec

(* The recorder names as the owner of a mutex only a thread that has it    *)
(* locked, or that sleeps on a condition with it.                          *)
OwnerIsTrue ==
    \A m \in Mutexes : \/ owner[m] = NULL
                       \/ owner[m] = holder[m]
                       \/ owner[m] \in Parked(m)

(* The recorder has a wait in progress for exactly the threads that are    *)
(* inside a wrapper with a locker: every start is matched by one end,      *)
(* whatever the result, and also when the interface is attached while the  *)
(* call is under way.                                                      *)
WaitsMatchCalls ==
    \A t \in Threads : /\ wait[t] = locker[t]
                       /\ locker[t] # NULL => /\ pc[t] # "idle"
                                              /\ locker[t].m_thread = t

(* A mutex or condition some thread still has to touch is not destroyed    *)
(* under it, although the destroyer only knows that the mutex is free: a   *)
(* wrapper touches nothing after the real unlock.                          *)
NoUseAfterDestroy ==
    \A t \in Threads :
        pc[t] # "idle" => /\ ready[obj[t]]
                          /\ fn[t] \in Waiting => ready[mtx[t]]
=============================================================================
