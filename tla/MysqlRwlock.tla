---------------------------- MODULE MysqlRwlock -----------------------------
(* The instrumented read-write locks of mysql_thread.h: rwlocks, and       *)
(* prlocks, which prefer readers.  As in MysqlThread a wrapper is one      *)
(* action of a thread whose disjuncts are its stages, and the recorder is  *)
(* behind the interface of module PSI; here it counts readers too, and the *)
(* event of an unlock does not say whether a reader or a writer unlocks.   *)
EXTENDS PSI, FiniteSets

CONSTANTS
    Threads,        \* pthread_t
    Rwlocks,        \* mysql_rwlock_t objects
    Prlocks         \* mysql_prlock_t objects

Locks == Rwlocks \cup Prlocks

ASSUME RwlockAssumption ==
    /\ IsFiniteSet(Threads) /\ Threads # {}
    /\ NULL \notin Threads \cup Locks
    /\ Rwlocks \cap Prlocks = {}

EBUSY == 16
EINVAL == 22

VARIABLES
    PSI_server,     \* the interface, or NULL
    key,            \* per class of instrument, its key
    attached,       \* per thread, its instrumentation or NULL
    wait,           \* the recorder: waits in progress,
    writer,         \*   writers
    readers,        \*   and numbers of readers
    m_psi,          \* per lock, its instrument or NULL
    ready,          \* per lock, is it initialised?
    wr,             \* the real lock: its writer, or NULL,
    rd,             \*   and the set of its readers
    pc,             \* per thread, the stage of the wrapper it is in,
    fn,             \*   the wrapper,
    obj,            \*   the lock it was called on,
    locker,         \*   its local locker
    rc              \*   and its local result

recorder == <<wait, writer, readers>>
objects == <<m_psi, ready>>
setup == <<PSI_server, key, attached>>
real == <<wr, rd>>
call == <<pc, fn, obj, locker, rc>>
vars == <<setup, recorder, objects, real, call>>

(* Some threads are instrumented and some are not.                         *)
Init ==
    /\ PSI_server = NULL
    /\ key = [c \in PSI_kinds |-> 0]
    /\ attached \in {a \in [Threads -> Threads \cup {NULL}] :
                        \A t \in Threads : a[t] \in {NULL, t}}
    /\ wait = [t \in Threads |-> NULL]
    /\ writer = [o \in Locks |-> NULL]
    /\ readers = [o \in Locks |-> 0]
    /\ m_psi = [o \in Locks |-> NULL]
    /\ ready = [o \in Locks |-> FALSE]
    /\ wr = [o \in Locks |-> NULL]
    /\ rd = [o \in Locks |-> {}]
    /\ pc = [t \in Threads |-> "idle"]
    /\ fn = [t \in Threads |-> "none"]
    /\ obj = [t \in Threads |-> NULL]
    /\ locker = [t \in Threads |-> NULL]
    /\ rc = [t \in Threads |-> 0]
-----------------------------------------------------------------------------
Idle(t) == pc[t] = "idle"
At(t, stage, f, o) == pc[t] = stage /\ fn[t] = f /\ obj[t] = o
Holds(t, o) == wr[o] = t \/ t \in rd[o]
Instrumented(o) == PSI_server # NULL /\ m_psi[o] # NULL

Enter(t, f, o, l) ==
    /\ pc' = [pc EXCEPT ![t] = "entered"]
    /\ fn' = [fn EXCEPT ![t] = f]
    /\ obj' = [obj EXCEPT ![t] = o]
    /\ locker' = [locker EXCEPT ![t] = l]
    /\ wait' = StartWait(wait, l)
    /\ UNCHANGED <<setup, objects, real, rc>>
Done(t, r) ==
    /\ pc' = [pc EXCEPT ![t] = "done"]
    /\ rc' = [rc EXCEPT ![t] = r]
    /\ UNCHANGED <<setup, recorder, objects, fn, obj, locker>>
Return(t) ==
    /\ pc' = [pc EXCEPT ![t] = "idle"]
    /\ fn' = [fn EXCEPT ![t] = "none"]
    /\ obj' = [obj EXCEPT ![t] = NULL]
    /\ locker' = [locker EXCEPT ![t] = NULL]
    /\ rc' = [rc EXCEPT ![t] = 0]
    /\ UNCHANGED <<setup, objects>>

(* The real operations: rw_rdlock, rw_wrlock, their attempts, and the same *)
(* for prlocks.  A reader gets in when there is no writer, a writer when   *)
(* there is nobody; an attempt fails instead of blocking.                  *)
RealRdlock(t, o, error) ==
    \/ /\ wr[o] = NULL
       /\ rd' = [rd EXCEPT ![o] = @ \cup {t}]
       /\ UNCHANGED wr
       /\ Done(t, 0)
    \/ UNCHANGED real /\ Done(t, error)
RealWrlock(t, o, error) ==
    \/ /\ wr[o] = NULL /\ rd[o] = {}
       /\ wr' = [wr EXCEPT ![o] = t]
       /\ UNCHANGED rd
       /\ Done(t, 0)
    \/ UNCHANGED real /\ Done(t, error)
RealUnlock(t, o) ==
    /\ wr' = [wr EXCEPT ![o] = IF @ = t THEN NULL ELSE @]
    /\ rd' = [rd EXCEPT ![o] = @ \ {t}]
-----------------------------------------------------------------------------
(* Initialisation and destruction.  A failed initialisation leaves the     *)
(* instrument behind.                                                      *)
InitLock(t, o) ==
    /\ Idle(t) /\ ~ready[o]
    /\ \E p \in IF PSI_server # NULL THEN init_rwlock(key["rwlock"], o)
                                     ELSE {NULL} :
          m_psi' = [m_psi EXCEPT ![o] = p]
    /\ \E ok \in BOOLEAN : ready' = [ready EXCEPT ![o] = ok]
    /\ UNCHANGED <<setup, recorder, real, call>>
inline_mysql_rwlock_init(t, o) == o \in Rwlocks /\ InitLock(t, o)
inline_mysql_prlock_init(t, o) == o \in Prlocks /\ InitLock(t, o)

(* The external guarantee my_pthread.h asks for: the lock is unlocked and  *)
(* nobody will lock it, but threads may not have left unlock yet.          *)
Abandoned(o) ==
    /\ wr[o] = NULL /\ rd[o] = {}
    /\ \A u \in Threads : obj[u] = o => fn[u] = "unlock"
DestroyLock(t, o) ==
    /\ Idle(t) /\ ready[o] /\ Abandoned(o)
    /\ IF Instrumented(o)
       THEN /\ writer' = [writer EXCEPT ![o] = NULL]
            /\ readers' = [readers EXCEPT ![o] = 0]
            /\ m_psi' = [m_psi EXCEPT ![o] = NULL]
       ELSE UNCHANGED <<writer, readers, m_psi>>
    /\ ready' = [ready EXCEPT ![o] = FALSE]
    /\ UNCHANGED <<setup, wait, real, call>>
inline_mysql_rwlock_destroy(t, o) == o \in Rwlocks /\ DestroyLock(t, o)
inline_mysql_prlock_destroy(t, o) == o \in Prlocks /\ DestroyLock(t, o)
-----------------------------------------------------------------------------
(* Locking.  A thread does not lock what it holds.                         *)
RwlockLocker(t, o, op) ==
    IF Instrumented(o)
    THEN get_thread_rwlock_locker(attached[t], m_psi[o], op)
    ELSE {NULL}

EnterLock(t, f, o, op) ==
    /\ Idle(t) /\ ready[o] /\ ~Holds(t, o)
    /\ \E l \in RwlockLocker(t, o, op) : Enter(t, f, o, l)
    /\ UNCHANGED <<writer, readers>>
EndRdwait(t) ==
    /\ readers' = end_rwlock_rdwait(readers, locker[t], rc[t])
    /\ wait' = EndWait(wait, locker[t])
    /\ UNCHANGED <<writer, real>>
    /\ Return(t)
(* mutant: the end of the wait does not report the result.                 *)
EndWrwait_AnyResult(t) ==
    /\ writer' = end_rwlock_wrwait(writer, locker[t], 0)
    /\ wait' = EndWait(wait, locker[t])
    /\ UNCHANGED <<readers, real>>
    /\ Return(t)
EndWrwait(t) ==
    /\ writer' = end_rwlock_wrwait(writer, locker[t], rc[t])
    /\ wait' = EndWait(wait, locker[t])
    /\ UNCHANGED <<readers, real>>
    /\ Return(t)

inline_mysql_rwlock_rdlock(t, o) ==
    \/ o \in Rwlocks /\ EnterLock(t, "rdlock", o, "PSI_RWLOCK_READLOCK")
    \/ At(t, "entered", "rdlock", o) /\ RealRdlock(t, o, EINVAL)
    \/ At(t, "done", "rdlock", o) /\ EndRdwait(t)
inline_mysql_prlock_rdlock(t, o) ==
    \/ o \in Prlocks /\ EnterLock(t, "pr_rdlock", o, "PSI_RWLOCK_READLOCK")
    \/ At(t, "entered", "pr_rdlock", o) /\ RealRdlock(t, o, EINVAL)
    \/ At(t, "done", "pr_rdlock", o) /\ EndRdwait(t)
inline_mysql_rwlock_wrlock(t, o) ==
    \/ o \in Rwlocks /\ EnterLock(t, "wrlock", o, "PSI_RWLOCK_WRITELOCK")
    \/ At(t, "entered", "wrlock", o) /\ RealWrlock(t, o, EINVAL)
    \/ At(t, "done", "wrlock", o) /\ EndWrwait(t)
inline_mysql_prlock_wrlock(t, o) ==
    \/ o \in Prlocks /\ EnterLock(t, "pr_wrlock", o, "PSI_RWLOCK_WRITELOCK")
    \/ At(t, "entered", "pr_wrlock", o) /\ RealWrlock(t, o, EINVAL)
    \/ At(t, "done", "pr_wrlock", o) /\ EndWrwait(t)
inline_mysql_rwlock_tryrdlock(t, o) ==
    \/ o \in Rwlocks /\ EnterLock(t, "tryrdlock", o, "PSI_RWLOCK_TRYREADLOCK")
    \/ At(t, "entered", "tryrdlock", o) /\ RealRdlock(t, o, EBUSY)
    \/ At(t, "done", "tryrdlock", o) /\ EndRdwait(t)
inline_mysql_rwlock_trywrlock(t, o) ==
    \/ o \in Rwlocks /\ EnterLock(t, "trywrlock", o, "PSI_RWLOCK_TRYWRITELOCK")
    \/ At(t, "entered", "trywrlock", o) /\ RealWrlock(t, o, EBUSY)
    \/ At(t, "done", "trywrlock", o) /\ EndWrwait(t)

(* mutant: the recorder is not told of the unlock.                         *)
Unlock_Untold(t, o) ==
    \/ /\ Idle(t) /\ Holds(t, o)
       /\ UNCHANGED <<writer, readers>>
       /\ Enter(t, "unlock", o, NULL)
    \/ /\ At(t, "entered", "unlock", o)
       /\ RealUnlock(t, o)
       /\ UNCHANGED recorder
       /\ Return(t)
(* mutant: the lock is unlocked before the recorder is told of it.         *)
Unlock_ToldLate(t, o) ==
    \/ /\ Idle(t) /\ Holds(t, o)
       /\ RealUnlock(t, o)
       /\ pc' = [pc EXCEPT ![t] = "entered"]
       /\ fn' = [fn EXCEPT ![t] = "unlock"]
       /\ obj' = [obj EXCEPT ![t] = o]
       /\ UNCHANGED <<setup, recorder, objects, locker, rc>>
    \/ /\ At(t, "entered", "unlock", o)
       /\ IF Instrumented(o)
          THEN /\ writer' = unlock_rwlock_writer(writer, m_psi[o])
               /\ readers' = unlock_rwlock_readers(readers, writer, m_psi[o])
          ELSE UNCHANGED <<writer, readers>>
       /\ UNCHANGED <<wait, real>>
       /\ Return(t)
(* The recorder is told of the unlock before the lock is unlocked, and the *)
(* wrapper touches nothing after it.                                       *)
Unlock(t, o) ==
    \/ /\ Idle(t) /\ Holds(t, o)
       /\ IF Instrumented(o)
          THEN /\ writer' = unlock_rwlock_writer(writer, m_psi[o])
               /\ readers' = unlock_rwlock_readers(readers, writer, m_psi[o])
          ELSE UNCHANGED <<writer, readers>>
       /\ Enter(t, "unlock", o, NULL)
    \/ /\ At(t, "entered", "unlock", o)
       /\ RealUnlock(t, o)
       /\ UNCHANGED recorder
       /\ Return(t)
inline_mysql_rwlock_unlock(t, o) == o \in Rwlocks /\ Unlock(t, o)
inline_mysql_prlock_unlock(t, o) == o \in Prlocks /\ Unlock(t, o)
-----------------------------------------------------------------------------
AttachInterface ==
    /\ PSI_server = NULL
    /\ PSI_server' \in get_interface(PSI_CURRENT_VERSION) \ {NULL}
    /\ UNCHANGED <<key, attached, recorder, objects, real, call>>
RegisterInstruments ==
    /\ PSI_server # NULL /\ key["rwlock"] = 0
    /\ key' = register(key, PSI_info("rwlock"))
    /\ UNCHANGED <<PSI_server, attached, recorder, objects, real, call>>

(* The macros of mysql_thread.h: what a thread may call.                   *)
RwlockCalls(t) == \E o \in Rwlocks :
    \/ inline_mysql_rwlock_init(t, o)
    \/ inline_mysql_rwlock_destroy(t, o)
    \/ inline_mysql_rwlock_rdlock(t, o)
    \/ inline_mysql_rwlock_wrlock(t, o)
    \/ inline_mysql_rwlock_tryrdlock(t, o)
    \/ inline_mysql_rwlock_trywrlock(t, o)
    \/ inline_mysql_rwlock_unlock(t, o)
PrlockCalls(t) == \E o \in Prlocks :
    \/ inline_mysql_prlock_init(t, o)
    \/ inline_mysql_prlock_destroy(t, o)
    \/ inline_mysql_prlock_rdlock(t, o)
    \/ inline_mysql_prlock_wrlock(t, o)
    \/ inline_mysql_prlock_unlock(t, o)

Next == \/ AttachInterface
        \/ RegisterInstruments
        \/ \E t \in Threads : RwlockCalls(t) \/ PrlockCalls(t)

Spec == Init /\ [][Next]_vars
-----------------------------------------------------------------------------
(* Properties.                                                             *)
Lockers == [m_rwlock : Locks, m_thread : Threads,
            m_operation : PSI_rwlock_operation]
Reading == {"rdlock", "pr_rdlock", "tryrdlock"}
Writing == {"wrlock", "pr_wrlock", "trywrlock"}

(* Every variable stays in its type.                                       *)
TypeOK ==
    /\ PSI_server \in {NULL, PSI_v1}
    /\ key \in [PSI_kinds -> PSI_key]
    /\ attached \in [Threads -> Threads \cup {NULL}]
    /\ wait \in [Threads -> Lockers \cup {NULL}]
    /\ writer \in [Locks -> Threads \cup {NULL}]
    /\ readers \in [Locks -> Nat]
    /\ m_psi \in [Locks -> Locks \cup {NULL}]
    /\ ready \in [Locks -> BOOLEAN]
    /\ wr \in [Locks -> Threads \cup {NULL}]
    /\ rd \in [Locks -> SUBSET Threads]
    /\ pc \in [Threads -> {"idle", "entered", "done"}]
    /\ fn \in [Threads -> Reading \cup Writing \cup {"none", "unlock"}]
    /\ obj \in [Threads -> Locks \cup {NULL}]
    /\ locker \in [Threads -> Lockers \cup {NULL}]
    /\ rc \in [Threads -> {0, EBUSY, EINVAL}]

WriterLedger == INSTANCE LockLedger
    WITH holder <- wr, owner <- writer, parked <- [o \in Locks |-> {}]
(* On the writer's side the wrappers implement the ledger: nobody sleeps   *)
(* on a condition with a read-write lock.                                  *)
WriterLedgerSpec == WriterLedger!Spec

(* The recorder never counts more readers than the lock has, although a    *)
(* reader without instrumentation reports its unlock but not its lock.     *)
ReadersNotOvercounted ==
    \A o \in Locks : readers[o] <= Cardinality(rd[o])

(* The recorder never sees a writer together with a writer's rivals: the   *)
(* writer it names is the real one, and it counts no readers beside it.    *)
WriterExcludesReaders ==
    \A o \in Locks : writer[o] # NULL => /\ wr[o] = writer[o]
                                         /\ readers[o] = 0

(* Every wait the recorder sees started is ended by the same call.         *)
WaitsMatchCalls ==
    \A t \in Threads : /\ wait[t] = locker[t]
                       /\ locker[t] # NULL => /\ pc[t] # "idle"
                                              /\ locker[t].m_thread = t

(* It is all right to destroy a lock in unlocked state although threads    *)
(* may not have left unlock yet: no thread is left with a destroyed lock   *)
(* to touch.                                                               *)
NoUseAfterDestroy ==
    \A t \in Threads : pc[t] # "idle" => ready[obj[t]]
=============================================================================
