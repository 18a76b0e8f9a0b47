------------------------- MODULE MysqlThreadProofs --------------------------
(* Proofs about MysqlThread, for any threads, mutexes and conditions.      *)
EXTENDS MysqlThread, TLAPS

(* What holds of a mutex or condition between any two steps: an instrument *)
(* instruments its own object and only under an attached interface, an     *)
(* owner is recorded only for an instrumented mutex in use, and a locked   *)
(* mutex is initialised.                                                   *)
ObjectInv ==
    /\ \A o \in Objects : /\ m_psi[o] \in {NULL, o}
                          /\ m_psi[o] # NULL => PSI_server # NULL
    /\ \A m \in Mutexes : /\ m_psi[m] = NULL => owner[m] = NULL
                          /\ ~ready[m] => owner[m] = NULL
                          /\ holder[m] # NULL => ready[m]
    /\ \A t \in Threads : attached[t] \in {NULL, t}

(* What holds of a thread at each stage of a wrapper.                      *)
IdleInv(t) ==
    pc[t] = "idle" => /\ fn[t] = "none" /\ obj[t] = NULL
                      /\ mtx[t] = NULL /\ locker[t] = NULL
AcquireInv(t) ==
    fn[t] \in Acquiring =>
        /\ pc[t] \in {"entered", "done"}
        /\ obj[t] \in Mutexes /\ ready[obj[t]] /\ mtx[t] = NULL
        /\ pc[t] = "done" /\ rc[t] = 0 => holder[obj[t]] = t
        /\ locker[t] # NULL => /\ locker[t] \in MutexLockers
                               /\ locker[t].m_mutex = obj[t]
                               /\ locker[t].m_thread = t
                               /\ m_psi[obj[t]] # NULL
UnlockInv(t) ==
    fn[t] = "mutex_unlock" =>
        /\ pc[t] = "entered" /\ obj[t] \in Mutexes /\ mtx[t] = NULL
        /\ holder[obj[t]] = t /\ owner[obj[t]] # t
        /\ locker[t] = NULL
CondInv(t) ==
    fn[t] \in Waiting =>
        /\ pc[t] # "idle"
        /\ obj[t] \in Conds /\ ready[obj[t]]
        /\ mtx[t] \in Mutexes /\ ready[mtx[t]]
        /\ pc[t] \in {"entered", "done"} => holder[mtx[t]] = t
        /\ locker[t] # NULL => /\ locker[t] \in CondLockers
                               /\ locker[t].m_thread = t
SignalInv(t) ==
    fn[t] \in {"cond_signal", "cond_broadcast"} =>
        /\ pc[t] = "entered" /\ obj[t] \in Conds /\ ready[obj[t]]
        /\ mtx[t] = NULL /\ locker[t] = NULL
StageInv(t) ==
    /\ pc[t] \in {"asleep", "woken"} => fn[t] \in Waiting
    /\ pc[t] # "idle" => fn[t] # "none"
    /\ wait[t] = locker[t]

CallInv(t) == /\ IdleInv(t) /\ AcquireInv(t) /\ UnlockInv(t)
              /\ CondInv(t) /\ SignalInv(t) /\ StageInv(t)

IInv == TypeOK /\ ObjectInv /\ \A t \in Threads : CallInv(t)

(* A thread enters the wrapper of a lock or an attempt to lock. *)
LEMMA AcquireEnters ==
    ASSUME IInv,
           NEW t \in Threads,
           NEW m \in Mutexes,
           NEW f \in Acquiring,
           NEW op \in PSI_mutex_operation,
           Idle(t),
           ready[m],
           NEW l \in MutexLocker(t, m, op),
           Enter(t, f, m, NULL, l),
           UNCHANGED owner
    PROVE  IInv'
<1> USE ThreadAssumption DEF IInv, Objects
<1>1. wait[t] = NULL /\ locker[t] = NULL
  BY DEF CallInv, IdleInv, StageInv, Idle
<1>2. l = NULL \/ (l \in MutexLockers /\ l.m_mutex = m /\ l.m_thread = t)
  <2>1. l = NULL \/ (l = PSI_mutex_locker_state(m, t, op) /\ m_psi[m] # NULL)
    BY DEF ObjectInv, MutexLocker, Instrumented, get_thread,
           get_thread_mutex_locker
  <2>2. ASSUME l = PSI_mutex_locker_state(m, t, op)
        PROVE  l \in MutexLockers /\ l.m_mutex = m /\ l.m_thread = t
    BY <2>2 DEF PSI_mutex_locker_state, MutexLockers
  <2> QED
    BY <2>1, <2>2
<1>3. l \in Lockers \cup {NULL}
  BY <1>2 DEF Lockers
<1>4. wait' = [wait EXCEPT ![t] = l]
  <2>1. CASE l = NULL
    BY <2>1, <1>1 DEF Enter, StartWait, TypeOK
  <2>2. CASE l # NULL
    BY <2>2, <1>2 DEF Enter, StartWait, TypeOK
  <2> QED
    BY <2>1, <2>2
<1>5. l # NULL => m_psi[m] # NULL
  BY DEF MutexLocker, Instrumented
<1>t. TypeOK'
  BY <1>1, <1>2, <1>3, <1>4, <1>5
    DEF TypeOK, vars, setup, recorder, objects, call, Idle, Enter, Acquiring,
        Waiting, Functions
<1>o. ObjectInv'
  BY <1>1, <1>2, <1>3, <1>4, <1>5
    DEF TypeOK, ObjectInv, CallInv, IdleInv, AcquireInv, UnlockInv, CondInv,
        SignalInv, StageInv, vars, setup, recorder, objects, call, Idle,
        Enter, Acquiring, Waiting, Functions
<1>c. ASSUME NEW u \in Threads PROVE CallInv(u)'
  <2>1. CASE u = t
    BY <2>1, <1>1, <1>2, <1>3, <1>4, <1>5
      DEF TypeOK, ObjectInv, CallInv, IdleInv, AcquireInv, UnlockInv,
          CondInv, SignalInv, StageInv, vars, setup, recorder, objects, call,
          Idle, Enter, Acquiring, Waiting, Functions
  <2>2. CASE u # t
    BY <2>2, <1>1, <1>2, <1>3, <1>4, <1>5
      DEF TypeOK, ObjectInv, CallInv, IdleInv, AcquireInv, UnlockInv,
          CondInv, SignalInv, StageInv, vars, setup, recorder, objects, call,
          Idle, Enter, Acquiring, Waiting, Functions
  <2> QED
    BY <2>1, <2>2
<1> QED
  BY <1>t, <1>o, <1>c

(* The real lock or trylock takes the free mutex. *)
LEMMA AcquireSucceeds ==
    ASSUME IInv,
           NEW t \in Threads,
           NEW m \in Mutexes,
           NEW f \in Acquiring,
           At(t, "entered", f, m),
           holder[m] = NULL,
           holder' = [holder EXCEPT ![m] = t],
           Done(t, 0)
    PROVE  IInv'
<1> USE ThreadAssumption DEF IInv, Objects
<1>t. TypeOK'
  BY DEF TypeOK, vars, setup, recorder, objects, call, At, Done, Acquiring,
      Waiting, Functions, EBUSY, EINVAL, ETIMEDOUT
<1>o. ObjectInv'
  BY DEF TypeOK, ObjectInv, CallInv, IdleInv, AcquireInv, UnlockInv, CondInv,
      SignalInv, StageInv, vars, setup, recorder, objects, call, At, Done,
      Acquiring, Waiting, Functions, EBUSY, EINVAL, ETIMEDOUT
<1>c. ASSUME NEW u \in Threads PROVE CallInv(u)'
  <2>1. CASE u = t
    BY <2>1
      DEF TypeOK, ObjectInv, CallInv, IdleInv, AcquireInv, UnlockInv,
          CondInv, SignalInv, StageInv, vars, setup, recorder, objects, call,
          At, Done, Acquiring, Waiting, Functions, EBUSY, EINVAL, ETIMEDOUT
  <2>2. CASE u # t
    BY <2>2
      DEF TypeOK, ObjectInv, CallInv, IdleInv, AcquireInv, UnlockInv,
          CondInv, SignalInv, StageInv, vars, setup, recorder, objects, call,
          At, Done, Acquiring, Waiting, Functions, EBUSY, EINVAL, ETIMEDOUT
  <2> QED
    BY <2>1, <2>2
<1> QED
  BY <1>t, <1>o, <1>c

(* The real lock or trylock fails. *)
LEMMA AcquireFails ==
    ASSUME IInv,
           NEW t \in Threads,
           NEW m \in Mutexes,
           NEW f \in Acquiring,
           At(t, "entered", f, m),
           UNCHANGED holder,
           NEW r \in {EINVAL, EBUSY},
           Done(t, r)
    PROVE  IInv'
<1> USE ThreadAssumption DEF IInv, Objects
<1>t. TypeOK'
  BY DEF TypeOK, vars, setup, recorder, objects, call, At, Done, Acquiring,
      Waiting, Functions, EBUSY, EINVAL, ETIMEDOUT
<1>o. ObjectInv'
  BY DEF TypeOK, ObjectInv, CallInv, IdleInv, AcquireInv, UnlockInv, CondInv,
      SignalInv, StageInv, vars, setup, recorder, objects, call, At, Done,
      Acquiring, Waiting, Functions, EBUSY, EINVAL, ETIMEDOUT
<1>c. ASSUME NEW u \in Threads PROVE CallInv(u)'
  <2>1. CASE u = t
    BY <2>1
      DEF TypeOK, ObjectInv, CallInv, IdleInv, AcquireInv, UnlockInv,
          CondInv, SignalInv, StageInv, vars, setup, recorder, objects, call,
          At, Done, Acquiring, Waiting, Functions, EBUSY, EINVAL, ETIMEDOUT
  <2>2. CASE u # t
    BY <2>2
      DEF TypeOK, ObjectInv, CallInv, IdleInv, AcquireInv, UnlockInv,
          CondInv, SignalInv, StageInv, vars, setup, recorder, objects, call,
          At, Done, Acquiring, Waiting, Functions, EBUSY, EINVAL, ETIMEDOUT
  <2> QED
    BY <2>1, <2>2
<1> QED
  BY <1>t, <1>o, <1>c

(* The wait ends, with its result, and the call returns. *)
LEMMA AcquireReturns ==
    ASSUME IInv,
           NEW t \in Threads,
           NEW m \in Mutexes,
           NEW f \in Acquiring,
           At(t, "done", f, m),
           EndMutexWait(t)
    PROVE  IInv'
<1> USE ThreadAssumption DEF IInv, Objects
<1>1. wait' = [wait EXCEPT ![t] = NULL]
  <2>1. CASE locker[t] = NULL
    BY <2>1 DEF EndMutexWait, EndWait, CallInv, StageInv, TypeOK
  <2>2. CASE locker[t] # NULL
    BY <2>2 DEF EndMutexWait, EndWait, CallInv, AcquireInv, At
  <2> QED
    BY <2>1, <2>2
<1>2. \/ UNCHANGED owner
      \/ /\ owner' = [owner EXCEPT ![m] = t]
         /\ holder[m] = t /\ m_psi[m] # NULL
  BY DEF EndMutexWait, end_mutex_wait, CallInv, AcquireInv, At
<1>t. TypeOK'
  BY <1>1, <1>2
    DEF TypeOK, vars, setup, recorder, objects, call, At, EndMutexWait,
        Return, Acquiring, Waiting, Functions, EBUSY, EINVAL, ETIMEDOUT
<1>o. ObjectInv'
  BY <1>1, <1>2
    DEF TypeOK, ObjectInv, CallInv, IdleInv, AcquireInv, UnlockInv, CondInv,
        SignalInv, StageInv, vars, setup, recorder, objects, call, At,
        EndMutexWait, Return, Acquiring, Waiting, Functions, EBUSY, EINVAL,
        ETIMEDOUT
<1>c. ASSUME NEW u \in Threads PROVE CallInv(u)'
  <2>1. CASE u = t
    BY <2>1, <1>1, <1>2
      DEF TypeOK, ObjectInv, CallInv, IdleInv, AcquireInv, UnlockInv,
          CondInv, SignalInv, StageInv, vars, setup, recorder, objects, call,
          At, EndMutexWait, Return, Acquiring, Waiting, Functions, EBUSY,
          EINVAL, ETIMEDOUT
  <2>2. CASE u # t
    BY <2>2, <1>1, <1>2
      DEF TypeOK, ObjectInv, CallInv, IdleInv, AcquireInv, UnlockInv,
          CondInv, SignalInv, StageInv, vars, setup, recorder, objects, call,
          At, EndMutexWait, Return, Acquiring, Waiting, Functions, EBUSY,
          EINVAL, ETIMEDOUT
  <2> QED
    BY <2>1, <2>2
<1> QED
  BY <1>t, <1>o, <1>c

(* The recorder is told of an unlock. *)
LEMMA UnlockEnters ==
    ASSUME IInv,
           NEW t \in Threads,
           NEW m \in Mutexes,
           Idle(t),
           holder[m] = t,
           owner' = IF Instrumented(m) THEN unlock_mutex(owner, m_psi[m])
                                      ELSE owner,
           Enter(t, "mutex_unlock", m, NULL, NULL)
    PROVE  IInv'
<1> USE ThreadAssumption DEF IInv, Objects
<1>1. UNCHANGED wait
  BY DEF Enter, StartWait
<1>2. owner' = [owner EXCEPT ![m] = NULL]
  BY DEF Instrumented, unlock_mutex, ObjectInv, TypeOK
<1>t. TypeOK'
  BY <1>1, <1>2
    DEF TypeOK, vars, setup, recorder, objects, call, Idle, Enter, Acquiring,
        Waiting, Functions
<1>o. ObjectInv'
  BY <1>1, <1>2
    DEF TypeOK, ObjectInv, CallInv, IdleInv, AcquireInv, UnlockInv, CondInv,
        SignalInv, StageInv, vars, setup, recorder, objects, call, Idle,
        Enter, Acquiring, Waiting, Functions
<1>c. ASSUME NEW u \in Threads PROVE CallInv(u)'
  <2>1. CASE u = t
    BY <2>1, <1>1, <1>2
      DEF TypeOK, ObjectInv, CallInv, IdleInv, AcquireInv, UnlockInv,
          CondInv, SignalInv, StageInv, vars, setup, recorder, objects, call,
          Idle, Enter, Acquiring, Waiting, Functions
  <2>2. CASE u # t
    BY <2>2, <1>1, <1>2
      DEF TypeOK, ObjectInv, CallInv, IdleInv, AcquireInv, UnlockInv,
          CondInv, SignalInv, StageInv, vars, setup, recorder, objects, call,
          Idle, Enter, Acquiring, Waiting, Functions
  <2> QED
    BY <2>1, <2>2
<1> QED
  BY <1>t, <1>o, <1>c

(* The real unlock, after which the wrapper touches nothing. *)
LEMMA UnlockReturns ==
    ASSUME IInv,
           NEW t \in Threads,
           NEW m \in Mutexes,
           At(t, "entered", "mutex_unlock", m),
           holder' = [holder EXCEPT ![m] = NULL],
           UNCHANGED <<owner, wait>>,
           Return(t)
    PROVE  IInv'
<1> USE ThreadAssumption DEF IInv, Objects
<1>t. TypeOK'
  BY DEF TypeOK, vars, setup, recorder, objects, call, At, Return, Acquiring,
      Waiting, Functions, EBUSY, EINVAL, ETIMEDOUT
<1>o. ObjectInv'
  BY DEF TypeOK, ObjectInv, CallInv, IdleInv, AcquireInv, UnlockInv, CondInv,
      SignalInv, StageInv, vars, setup, recorder, objects, call, At, Return,
      Acquiring, Waiting, Functions, EBUSY, EINVAL, ETIMEDOUT
<1>c. ASSUME NEW u \in Threads PROVE CallInv(u)'
  <2>1. CASE u = t
    BY <2>1
      DEF TypeOK, ObjectInv, CallInv, IdleInv, AcquireInv, UnlockInv,
          CondInv, SignalInv, StageInv, vars, setup, recorder, objects, call,
          At, Return, Acquiring, Waiting, Functions, EBUSY, EINVAL,
          ETIMEDOUT
  <2>2. CASE u # t
    BY <2>2
      DEF TypeOK, ObjectInv, CallInv, IdleInv, AcquireInv, UnlockInv,
          CondInv, SignalInv, StageInv, vars, setup, recorder, objects, call,
          At, Return, Acquiring, Waiting, Functions, EBUSY, EINVAL,
          ETIMEDOUT
  <2> QED
    BY <2>1, <2>2
<1> QED
  BY <1>t, <1>o, <1>c

(* A mutex is initialised. *)
LEMMA MutexInit ==
    ASSUME IInv,
           NEW t \in Threads,
           NEW m \in Mutexes,
           inline_mysql_mutex_init(t, m)
    PROVE  IInv'
<1> USE ThreadAssumption DEF IInv, Objects
<1>1. PICK p \in {NULL, m}, ok \in BOOLEAN :
         /\ p # NULL => PSI_server # NULL
         /\ m_psi' = [m_psi EXCEPT ![m] = p]
         /\ ready' = [ready EXCEPT ![m] = ok]
         /\ ~ready[m]
         /\ UNCHANGED <<setup, recorder, holder, alive, call>>
  BY DEF inline_mysql_mutex_init, init_mutex
<1>t. TypeOK'
  BY <1>1
    DEF TypeOK, vars, setup, recorder, objects, call, Idle, Acquiring,
        Waiting, Functions
<1>o. ObjectInv'
  BY <1>1
    DEF TypeOK, ObjectInv, CallInv, IdleInv, AcquireInv, UnlockInv, CondInv,
        SignalInv, StageInv, vars, setup, recorder, objects, call, Idle,
        Acquiring, Waiting, Functions
<1>c. ASSUME NEW u \in Threads PROVE CallInv(u)'
  <2>1. CASE u = t
    BY <2>1, <1>1
      DEF TypeOK, ObjectInv, CallInv, IdleInv, AcquireInv, UnlockInv,
          CondInv, SignalInv, StageInv, vars, setup, recorder, objects, call,
          Idle, Acquiring, Waiting, Functions
  <2>2. CASE u # t
    BY <2>2, <1>1
      DEF TypeOK, ObjectInv, CallInv, IdleInv, AcquireInv, UnlockInv,
          CondInv, SignalInv, StageInv, vars, setup, recorder, objects, call,
          Idle, Acquiring, Waiting, Functions
  <2> QED
    BY <2>1, <2>2
<1> QED
  BY <1>t, <1>o, <1>c

(* A mutex that its users have left is destroyed. *)
LEMMA MutexDestroy ==
    ASSUME IInv,
           NEW t \in Threads,
           NEW m \in Mutexes,
           inline_mysql_mutex_destroy(t, m)
    PROVE  IInv'
<1> USE ThreadAssumption DEF IInv, Objects
<1>1. /\ owner' = [owner EXCEPT ![m] = NULL]
      /\ m_psi' = [m_psi EXCEPT ![m] = NULL]
  BY DEF inline_mysql_mutex_destroy, Instrumented, destroy_mutex, ObjectInv,
         TypeOK
<1>t. TypeOK'
  BY <1>1
    DEF TypeOK, vars, setup, recorder, objects, call,
        inline_mysql_mutex_destroy, Abandoned, Idle, Acquiring, Waiting,
        Functions
<1>o. ObjectInv'
  BY <1>1
    DEF TypeOK, ObjectInv, CallInv, IdleInv, AcquireInv, UnlockInv, CondInv,
        SignalInv, StageInv, vars, setup, recorder, objects, call,
        inline_mysql_mutex_destroy, Abandoned, Idle, Acquiring, Waiting,
        Functions
<1>c. ASSUME NEW u \in Threads PROVE CallInv(u)'
  <2>1. CASE u = t
    BY <2>1, <1>1
      DEF TypeOK, ObjectInv, CallInv, IdleInv, AcquireInv, UnlockInv,
          CondInv, SignalInv, StageInv, vars, setup, recorder, objects, call,
          inline_mysql_mutex_destroy, Abandoned, Idle, Acquiring, Waiting,
          Functions
  <2>2. CASE u # t
    BY <2>2, <1>1
      DEF TypeOK, ObjectInv, CallInv, IdleInv, AcquireInv, UnlockInv,
          CondInv, SignalInv, StageInv, vars, setup, recorder, objects, call,
          inline_mysql_mutex_destroy, Abandoned, Idle, Acquiring, Waiting,
          Functions
  <2> QED
    BY <2>1, <2>2
<1> QED
  BY <1>t, <1>o, <1>c

(* A condition is initialised. *)
LEMMA CondInit ==
    ASSUME IInv,
           NEW t \in Threads,
           NEW c \in Conds,
           inline_mysql_cond_init(t, c)
    PROVE  IInv'
<1> USE ThreadAssumption DEF IInv, Objects
<1>1. PICK p \in {NULL, c}, ok \in BOOLEAN :
         /\ p # NULL => PSI_server # NULL
         /\ m_psi' = [m_psi EXCEPT ![c] = p]
         /\ ready' = [ready EXCEPT ![c] = ok]
         /\ ~ready[c]
         /\ UNCHANGED <<setup, recorder, holder, alive, call>>
  BY DEF inline_mysql_cond_init, init_cond
<1>t. TypeOK'
  BY <1>1
    DEF TypeOK, vars, setup, recorder, objects, call, Idle, Acquiring,
        Waiting, Functions
<1>o. ObjectInv'
  BY <1>1
    DEF TypeOK, ObjectInv, CallInv, IdleInv, AcquireInv, UnlockInv, CondInv,
        SignalInv, StageInv, vars, setup, recorder, objects, call, Idle,
        Acquiring, Waiting, Functions
<1>c. ASSUME NEW u \in Threads PROVE CallInv(u)'
  <2>1. CASE u = t
    BY <2>1, <1>1
      DEF TypeOK, ObjectInv, CallInv, IdleInv, AcquireInv, UnlockInv,
          CondInv, SignalInv, StageInv, vars, setup, recorder, objects, call,
          Idle, Acquiring, Waiting, Functions
  <2>2. CASE u # t
    BY <2>2, <1>1
      DEF TypeOK, ObjectInv, CallInv, IdleInv, AcquireInv, UnlockInv,
          CondInv, SignalInv, StageInv, vars, setup, recorder, objects, call,
          Idle, Acquiring, Waiting, Functions
  <2> QED
    BY <2>1, <2>2
<1> QED
  BY <1>t, <1>o, <1>c

(* A condition no thread uses is destroyed. *)
LEMMA CondDestroy ==
    ASSUME IInv,
           NEW t \in Threads,
           NEW c \in Conds,
           inline_mysql_cond_destroy(t, c)
    PROVE  IInv'
<1> USE ThreadAssumption DEF IInv, Objects
<1>t. TypeOK'
  BY DEF TypeOK, vars, setup, recorder, objects, call,
      inline_mysql_cond_destroy, Idle, Acquiring, Waiting, Functions
<1>o. ObjectInv'
  BY DEF TypeOK, ObjectInv, CallInv, IdleInv, AcquireInv, UnlockInv, CondInv,
      SignalInv, StageInv, vars, setup, recorder, objects, call,
      inline_mysql_cond_destroy, Idle, Acquiring, Waiting, Functions
<1>c. ASSUME NEW u \in Threads PROVE CallInv(u)'
  <2>1. CASE u = t
    BY <2>1
      DEF TypeOK, ObjectInv, CallInv, IdleInv, AcquireInv, UnlockInv,
          CondInv, SignalInv, StageInv, vars, setup, recorder, objects, call,
          inline_mysql_cond_destroy, Idle, Acquiring, Waiting, Functions
  <2>2. CASE u # t
    BY <2>2
      DEF TypeOK, ObjectInv, CallInv, IdleInv, AcquireInv, UnlockInv,
          CondInv, SignalInv, StageInv, vars, setup, recorder, objects, call,
          inline_mysql_cond_destroy, Idle, Acquiring, Waiting, Functions
  <2> QED
    BY <2>1, <2>2
<1> QED
  BY <1>t, <1>o, <1>c

(* A thread enters the wrapper of a wait on a condition. *)
LEMMA WaitEnters ==
    ASSUME IInv,
           NEW t \in Threads,
           NEW c \in Conds,
           NEW m \in Mutexes,
           NEW f \in Waiting,
           NEW op \in PSI_cond_operation,
           Idle(t),
           ready[c],
           holder[m] = t,
           NEW l \in CondLocker(t, c, m, op),
           Enter(t, f, c, m, l),
           UNCHANGED owner
    PROVE  IInv'
<1> USE ThreadAssumption DEF IInv, Objects
<1>1. wait[t] = NULL /\ locker[t] = NULL
  BY DEF CallInv, IdleInv, StageInv, Idle
<1>2. l = NULL \/ (l \in CondLockers /\ l.m_thread = t)
  <2>1. l = NULL \/ (l = PSI_cond_locker_state(c, m_psi[m], t, op))
    BY DEF ObjectInv, CondLocker, Instrumented, get_thread,
           get_thread_cond_locker
  <2>2. ASSUME l = PSI_cond_locker_state(c, m_psi[m], t, op)
        PROVE  l \in CondLockers /\ l.m_thread = t
    BY <2>2 DEF PSI_cond_locker_state, CondLockers, ObjectInv
  <2> QED
    BY <2>1, <2>2
<1>3. l \in Lockers \cup {NULL}
  BY <1>2 DEF Lockers
<1>4. wait' = [wait EXCEPT ![t] = l]
  <2>1. CASE l = NULL
    BY <2>1, <1>1 DEF Enter, StartWait, TypeOK
  <2>2. CASE l # NULL
    BY <2>2, <1>2 DEF Enter, StartWait, TypeOK
  <2> QED
    BY <2>1, <2>2
<1>t. TypeOK'
  BY <1>1, <1>2, <1>3, <1>4
    DEF TypeOK, vars, setup, recorder, objects, call, Idle, Enter, Acquiring,
        Waiting, Functions
<1>o. ObjectInv'
  BY <1>1, <1>2, <1>3, <1>4
    DEF TypeOK, ObjectInv, CallInv, IdleInv, AcquireInv, UnlockInv, CondInv,
        SignalInv, StageInv, vars, setup, recorder, objects, call, Idle,
        Enter, Acquiring, Waiting, Functions
<1>c. ASSUME NEW u \in Threads PROVE CallInv(u)'
  <2>1. CASE u = t
    BY <2>1, <1>1, <1>2, <1>3, <1>4
      DEF TypeOK, ObjectInv, CallInv, IdleInv, AcquireInv, UnlockInv,
          CondInv, SignalInv, StageInv, vars, setup, recorder, objects, call,
          Idle, Enter, Acquiring, Waiting, Functions
  <2>2. CASE u # t
    BY <2>2, <1>1, <1>2, <1>3, <1>4
      DEF TypeOK, ObjectInv, CallInv, IdleInv, AcquireInv, UnlockInv,
          CondInv, SignalInv, StageInv, vars, setup, recorder, objects, call,
          Idle, Enter, Acquiring, Waiting, Functions
  <2> QED
    BY <2>1, <2>2
<1> QED
  BY <1>t, <1>o, <1>c

(* The real wait fails at once and keeps the mutex. *)
LEMMA WaitFails ==
    ASSUME IInv,
           NEW t \in Threads,
           NEW c \in Conds,
           NEW f \in Waiting,
           At(t, "entered", f, c),
           UNCHANGED holder,
           Done(t, EINVAL)
    PROVE  IInv'
<1> USE ThreadAssumption DEF IInv, Objects
<1>t. TypeOK'
  BY DEF TypeOK, vars, setup, recorder, objects, call, At, Done, Acquiring,
      Waiting, Functions, EBUSY, EINVAL, ETIMEDOUT
<1>o. ObjectInv'
  BY DEF TypeOK, ObjectInv, CallInv, IdleInv, AcquireInv, UnlockInv, CondInv,
      SignalInv, StageInv, vars, setup, recorder, objects, call, At, Done,
      Acquiring, Waiting, Functions, EBUSY, EINVAL, ETIMEDOUT
<1>c. ASSUME NEW u \in Threads PROVE CallInv(u)'
  <2>1. CASE u = t
    BY <2>1
      DEF TypeOK, ObjectInv, CallInv, IdleInv, AcquireInv, UnlockInv,
          CondInv, SignalInv, StageInv, vars, setup, recorder, objects, call,
          At, Done, Acquiring, Waiting, Functions, EBUSY, EINVAL, ETIMEDOUT
  <2>2. CASE u # t
    BY <2>2
      DEF TypeOK, ObjectInv, CallInv, IdleInv, AcquireInv, UnlockInv,
          CondInv, SignalInv, StageInv, vars, setup, recorder, objects, call,
          At, Done, Acquiring, Waiting, Functions, EBUSY, EINVAL, ETIMEDOUT
  <2> QED
    BY <2>1, <2>2
<1> QED
  BY <1>t, <1>o, <1>c

(* The real wait releases the mutex and sleeps. *)
LEMMA WaitSleeps ==
    ASSUME IInv,
           NEW t \in Threads,
           NEW c \in Conds,
           NEW f \in Waiting,
           At(t, "entered", f, c),
           Sleep(t)
    PROVE  IInv'
<1> USE ThreadAssumption DEF IInv, Objects
<1>t. TypeOK'
  BY DEF TypeOK, vars, setup, recorder, objects, call, At, Sleep, Acquiring,
      Waiting, Functions, EBUSY, EINVAL, ETIMEDOUT
<1>o. ObjectInv'
  BY DEF TypeOK, ObjectInv, CallInv, IdleInv, AcquireInv, UnlockInv, CondInv,
      SignalInv, StageInv, vars, setup, recorder, objects, call, At, Sleep,
      Acquiring, Waiting, Functions, EBUSY, EINVAL, ETIMEDOUT
<1>c. ASSUME NEW u \in Threads PROVE CallInv(u)'
  <2>1. CASE u = t
    BY <2>1
      DEF TypeOK, ObjectInv, CallInv, IdleInv, AcquireInv, UnlockInv,
          CondInv, SignalInv, StageInv, vars, setup, recorder, objects, call,
          At, Sleep, Acquiring, Waiting, Functions, EBUSY, EINVAL, ETIMEDOUT
  <2>2. CASE u # t
    BY <2>2
      DEF TypeOK, ObjectInv, CallInv, IdleInv, AcquireInv, UnlockInv,
          CondInv, SignalInv, StageInv, vars, setup, recorder, objects, call,
          At, Sleep, Acquiring, Waiting, Functions, EBUSY, EINVAL, ETIMEDOUT
  <2> QED
    BY <2>1, <2>2
<1> QED
  BY <1>t, <1>o, <1>c

(* A sleeping thread is woken. *)
LEMMA WaitWakes ==
    ASSUME IInv,
           NEW t \in Threads,
           NEW c \in Conds,
           NEW f \in Waiting,
           At(t, "asleep", f, c),
           NEW r \in {0, ETIMEDOUT},
           Wake(t, r)
    PROVE  IInv'
<1> USE ThreadAssumption DEF IInv, Objects
<1>t. TypeOK'
  BY DEF TypeOK, vars, setup, recorder, objects, call, At, Wake, Acquiring,
      Waiting, Functions, EBUSY, EINVAL, ETIMEDOUT
<1>o. ObjectInv'
  BY DEF TypeOK, ObjectInv, CallInv, IdleInv, AcquireInv, UnlockInv, CondInv,
      SignalInv, StageInv, vars, setup, recorder, objects, call, At, Wake,
      Acquiring, Waiting, Functions, EBUSY, EINVAL, ETIMEDOUT
<1>c. ASSUME NEW u \in Threads PROVE CallInv(u)'
  <2>1. CASE u = t
    BY <2>1
      DEF TypeOK, ObjectInv, CallInv, IdleInv, AcquireInv, UnlockInv,
          CondInv, SignalInv, StageInv, vars, setup, recorder, objects, call,
          At, Wake, Acquiring, Waiting, Functions, EBUSY, EINVAL, ETIMEDOUT
  <2>2. CASE u # t
    BY <2>2
      DEF TypeOK, ObjectInv, CallInv, IdleInv, AcquireInv, UnlockInv,
          CondInv, SignalInv, StageInv, vars, setup, recorder, objects, call,
          At, Wake, Acquiring, Waiting, Functions, EBUSY, EINVAL, ETIMEDOUT
  <2> QED
    BY <2>1, <2>2
<1> QED
  BY <1>t, <1>o, <1>c

(* A woken thread takes its mutex again. *)
LEMMA WaitRelocks ==
    ASSUME IInv,
           NEW t \in Threads,
           NEW c \in Conds,
           NEW f \in Waiting,
           At(t, "woken", f, c),
           Relock(t)
    PROVE  IInv'
<1> USE ThreadAssumption DEF IInv, Objects
<1>t. TypeOK'
  BY DEF TypeOK, vars, setup, recorder, objects, call, At, Relock, Done,
      Acquiring, Waiting, Functions, EBUSY, EINVAL, ETIMEDOUT
<1>o. ObjectInv'
  BY DEF TypeOK, ObjectInv, CallInv, IdleInv, AcquireInv, UnlockInv, CondInv,
      SignalInv, StageInv, vars, setup, recorder, objects, call, At, Relock,
      Done, Acquiring, Waiting, Functions, EBUSY, EINVAL, ETIMEDOUT
<1>c. ASSUME NEW u \in Threads PROVE CallInv(u)'
  <2>1. CASE u = t
    BY <2>1
      DEF TypeOK, ObjectInv, CallInv, IdleInv, AcquireInv, UnlockInv,
          CondInv, SignalInv, StageInv, vars, setup, recorder, objects, call,
          At, Relock, Done, Acquiring, Waiting, Functions, EBUSY, EINVAL,
          ETIMEDOUT
  <2>2. CASE u # t
    BY <2>2
      DEF TypeOK, ObjectInv, CallInv, IdleInv, AcquireInv, UnlockInv,
          CondInv, SignalInv, StageInv, vars, setup, recorder, objects, call,
          At, Relock, Done, Acquiring, Waiting, Functions, EBUSY, EINVAL,
          ETIMEDOUT
  <2> QED
    BY <2>1, <2>2
<1> QED
  BY <1>t, <1>o, <1>c

(* The wait on a condition ends and the call returns. *)
LEMMA WaitReturns ==
    ASSUME IInv,
           NEW t \in Threads,
           NEW c \in Conds,
           NEW f \in Waiting,
           At(t, "done", f, c),
           EndCondWait(t)
    PROVE  IInv'
<1> USE ThreadAssumption DEF IInv, Objects
<1>1. wait' = [wait EXCEPT ![t] = NULL]
  <2>1. CASE locker[t] = NULL
    BY <2>1 DEF EndCondWait, EndWait, CallInv, StageInv, TypeOK
  <2>2. CASE locker[t] # NULL
    BY <2>2 DEF EndCondWait, EndWait, CallInv, CondInv, At
  <2> QED
    BY <2>1, <2>2
<1>t. TypeOK'
  BY <1>1
    DEF TypeOK, vars, setup, recorder, objects, call, At, EndCondWait,
        Return, Acquiring, Waiting, Functions, EBUSY, EINVAL, ETIMEDOUT
<1>o. ObjectInv'
  BY <1>1
    DEF TypeOK, ObjectInv, CallInv, IdleInv, AcquireInv, UnlockInv, CondInv,
        SignalInv, StageInv, vars, setup, recorder, objects, call, At,
        EndCondWait, Return, Acquiring, Waiting, Functions, EBUSY, EINVAL,
        ETIMEDOUT
<1>c. ASSUME NEW u \in Threads PROVE CallInv(u)'
  <2>1. CASE u = t
    BY <2>1, <1>1
      DEF TypeOK, ObjectInv, CallInv, IdleInv, AcquireInv, UnlockInv,
          CondInv, SignalInv, StageInv, vars, setup, recorder, objects, call,
          At, EndCondWait, Return, Acquiring, Waiting, Functions, EBUSY,
          EINVAL, ETIMEDOUT
  <2>2. CASE u # t
    BY <2>2, <1>1
      DEF TypeOK, ObjectInv, CallInv, IdleInv, AcquireInv, UnlockInv,
          CondInv, SignalInv, StageInv, vars, setup, recorder, objects, call,
          At, EndCondWait, Return, Acquiring, Waiting, Functions, EBUSY,
          EINVAL, ETIMEDOUT
  <2> QED
    BY <2>1, <2>2
<1> QED
  BY <1>t, <1>o, <1>c

(* The recorder is told of a signal or broadcast. *)
LEMMA SignalEnters ==
    ASSUME IInv,
           NEW t \in Threads,
           NEW c \in Conds,
           NEW f \in {"cond_signal", "cond_broadcast"},
           Idle(t),
           ready[c],
           Enter(t, f, c, NULL, NULL),
           UNCHANGED owner
    PROVE  IInv'
<1> USE ThreadAssumption DEF IInv, Objects
<1>1. UNCHANGED wait
  BY DEF Enter, StartWait
<1>t. TypeOK'
  BY <1>1
    DEF TypeOK, vars, setup, recorder, objects, call, Idle, Enter, Acquiring,
        Waiting, Functions
<1>o. ObjectInv'
  BY <1>1
    DEF TypeOK, ObjectInv, CallInv, IdleInv, AcquireInv, UnlockInv, CondInv,
        SignalInv, StageInv, vars, setup, recorder, objects, call, Idle,
        Enter, Acquiring, Waiting, Functions
<1>c. ASSUME NEW u \in Threads PROVE CallInv(u)'
  <2>1. CASE u = t
    BY <2>1, <1>1
      DEF TypeOK, ObjectInv, CallInv, IdleInv, AcquireInv, UnlockInv,
          CondInv, SignalInv, StageInv, vars, setup, recorder, objects, call,
          Idle, Enter, Acquiring, Waiting, Functions
  <2>2. CASE u # t
    BY <2>2, <1>1
      DEF TypeOK, ObjectInv, CallInv, IdleInv, AcquireInv, UnlockInv,
          CondInv, SignalInv, StageInv, vars, setup, recorder, objects, call,
          Idle, Enter, Acquiring, Waiting, Functions
  <2> QED
    BY <2>1, <2>2
<1> QED
  BY <1>t, <1>o, <1>c

(* The real signal or broadcast wakes sleepers. *)
LEMMA SignalReturns ==
    ASSUME IInv,
           NEW t \in Threads,
           NEW c \in Conds,
           NEW f \in {"cond_signal", "cond_broadcast"},
           At(t, "entered", f, c),
           NEW S \in SUBSET Sleepers(c),
           WakeAndReturn(t, S)
    PROVE  IInv'
<1> USE ThreadAssumption DEF IInv, Objects
<1>t. TypeOK'
  BY DEF TypeOK, vars, setup, recorder, objects, call, At, Sleepers,
      WakeAndReturn, Acquiring, Waiting, Functions
<1>o. ObjectInv'
  BY DEF TypeOK, ObjectInv, CallInv, IdleInv, AcquireInv, UnlockInv, CondInv,
      SignalInv, StageInv, vars, setup, recorder, objects, call, At,
      Sleepers, WakeAndReturn, Acquiring, Waiting, Functions
<1>c. ASSUME NEW u \in Threads PROVE CallInv(u)'
  <2>1. CASE u = t
    BY <2>1
      DEF TypeOK, ObjectInv, CallInv, IdleInv, AcquireInv, UnlockInv,
          CondInv, SignalInv, StageInv, vars, setup, recorder, objects, call,
          At, Sleepers, WakeAndReturn, Acquiring, Waiting, Functions
  <2>2. CASE u # t
    BY <2>2
      DEF TypeOK, ObjectInv, CallInv, IdleInv, AcquireInv, UnlockInv,
          CondInv, SignalInv, StageInv, vars, setup, recorder, objects, call,
          At, Sleepers, WakeAndReturn, Acquiring, Waiting, Functions
  <2> QED
    BY <2>1, <2>2
<1> QED
  BY <1>t, <1>o, <1>c

(* A thread is created. *)
LEMMA ThreadCreated ==
    ASSUME IInv,
           NEW t \in Threads,
           NEW v \in Threads,
           inline_mysql_thread_create(t, v)
    PROVE  IInv'
<1> USE ThreadAssumption DEF IInv, Objects
<1>1. PICK p \in {NULL, v} :
         \/ attached' = [attached EXCEPT ![v] = p]
         \/ UNCHANGED attached
  BY DEF inline_mysql_thread_create, spawn_thread, new_thread, set_thread
<1>2. /\ alive' = alive \cup {v}
      /\ UNCHANGED <<setup, wait, owner, psi_id, objects, holder, call>>
  BY DEF inline_mysql_thread_create
<1>t. TypeOK'
  BY <1>1, <1>2
    DEF TypeOK, vars, setup, recorder, objects, call, Idle, Acquiring,
        Waiting, Functions
<1>o. ObjectInv'
  BY <1>1, <1>2
    DEF TypeOK, ObjectInv, CallInv, IdleInv, AcquireInv, UnlockInv, CondInv,
        SignalInv, StageInv, vars, setup, recorder, objects, call, Idle,
        Acquiring, Waiting, Functions
<1>c. ASSUME NEW u \in Threads PROVE CallInv(u)'
  <2>1. CASE u = t
    BY <2>1, <1>1, <1>2
      DEF TypeOK, ObjectInv, CallInv, IdleInv, AcquireInv, UnlockInv,
          CondInv, SignalInv, StageInv, vars, setup, recorder, objects, call,
          Idle, Acquiring, Waiting, Functions
  <2>2. CASE u # t
    BY <2>2, <1>1, <1>2
      DEF TypeOK, ObjectInv, CallInv, IdleInv, AcquireInv, UnlockInv,
          CondInv, SignalInv, StageInv, vars, setup, recorder, objects, call,
          Idle, Acquiring, Waiting, Functions
  <2> QED
    BY <2>1, <2>2
<1> QED
  BY <1>t, <1>o, <1>c

(* An instrumented thread is given an identifier. *)
LEMMA IdAssigned ==
    ASSUME IInv,
           NEW t \in Threads,
           NEW id \in Ids,
           inline_mysql_thread_set_psi_id(t, id)
    PROVE  IInv'
<1> USE ThreadAssumption DEF IInv, Objects
<1>t. TypeOK'
  BY DEF TypeOK, vars, setup, recorder, objects, call,
      inline_mysql_thread_set_psi_id, set_thread_id, get_thread, Acquiring,
      Waiting, Functions
<1>o. ObjectInv'
  BY DEF TypeOK, ObjectInv, CallInv, IdleInv, AcquireInv, UnlockInv, CondInv,
      SignalInv, StageInv, vars, setup, recorder, objects, call,
      inline_mysql_thread_set_psi_id, set_thread_id, get_thread, Acquiring,
      Waiting, Functions
<1>c. ASSUME NEW u \in Threads PROVE CallInv(u)'
  <2>1. CASE u = t
    BY <2>1
      DEF TypeOK, ObjectInv, CallInv, IdleInv, AcquireInv, UnlockInv,
          CondInv, SignalInv, StageInv, vars, setup, recorder, objects, call,
          inline_mysql_thread_set_psi_id, set_thread_id, get_thread,
          Acquiring, Waiting, Functions
  <2>2. CASE u # t
    BY <2>2
      DEF TypeOK, ObjectInv, CallInv, IdleInv, AcquireInv, UnlockInv,
          CondInv, SignalInv, StageInv, vars, setup, recorder, objects, call,
          inline_mysql_thread_set_psi_id, set_thread_id, get_thread,
          Acquiring, Waiting, Functions
  <2> QED
    BY <2>1, <2>2
<1> QED
  BY <1>t, <1>o, <1>c

(* The interface is found. *)
LEMMA InterfaceAttached ==
    ASSUME IInv,
           NEW t \in Threads,
           AttachInterface
    PROVE  IInv'
<1> USE ThreadAssumption DEF IInv, Objects
<1>t. TypeOK'
  BY DEF TypeOK, vars, setup, recorder, objects, call, AttachInterface,
      get_interface, Acquiring, Waiting, Functions
<1>o. ObjectInv'
  BY DEF TypeOK, ObjectInv, CallInv, IdleInv, AcquireInv, UnlockInv, CondInv,
      SignalInv, StageInv, vars, setup, recorder, objects, call,
      AttachInterface, get_interface, Acquiring, Waiting, Functions
<1>c. ASSUME NEW u \in Threads PROVE CallInv(u)'
  <2>1. CASE u = t
    BY <2>1
      DEF TypeOK, ObjectInv, CallInv, IdleInv, AcquireInv, UnlockInv,
          CondInv, SignalInv, StageInv, vars, setup, recorder, objects, call,
          AttachInterface, get_interface, Acquiring, Waiting, Functions
  <2>2. CASE u # t
    BY <2>2
      DEF TypeOK, ObjectInv, CallInv, IdleInv, AcquireInv, UnlockInv,
          CondInv, SignalInv, StageInv, vars, setup, recorder, objects, call,
          AttachInterface, get_interface, Acquiring, Waiting, Functions
  <2> QED
    BY <2>1, <2>2
<1> QED
  BY <1>t, <1>o, <1>c

(* A class of instruments is registered. *)
LEMMA InstrumentRegistered ==
    ASSUME IInv,
           NEW t \in Threads,
           NEW class \in PSI_kinds,
           RegisterInstruments(class)
    PROVE  IInv'
<1> USE ThreadAssumption DEF IInv, Objects
<1>t. TypeOK'
  BY DEF TypeOK, vars, setup, recorder, objects, call, RegisterInstruments,
      register, PSI_info, PSI_key, PSI_kinds, Acquiring, Waiting, Functions
<1>o. ObjectInv'
  BY DEF TypeOK, ObjectInv, CallInv, IdleInv, AcquireInv, UnlockInv, CondInv,
      SignalInv, StageInv, vars, setup, recorder, objects, call,
      RegisterInstruments, register, PSI_info, PSI_key, PSI_kinds, Acquiring, Waiting,
      Functions
<1>c. ASSUME NEW u \in Threads PROVE CallInv(u)'
  <2>1. CASE u = t
    BY <2>1
      DEF TypeOK, ObjectInv, CallInv, IdleInv, AcquireInv, UnlockInv,
          CondInv, SignalInv, StageInv, vars, setup, recorder, objects, call,
          RegisterInstruments, register, PSI_info, PSI_key, PSI_kinds, Acquiring,
          Waiting, Functions
  <2>2. CASE u # t
    BY <2>2
      DEF TypeOK, ObjectInv, CallInv, IdleInv, AcquireInv, UnlockInv,
          CondInv, SignalInv, StageInv, vars, setup, recorder, objects, call,
          RegisterInstruments, register, PSI_info, PSI_key, PSI_kinds, Acquiring,
          Waiting, Functions
  <2> QED
    BY <2>1, <2>2
<1> QED
  BY <1>t, <1>o, <1>c
-----------------------------------------------------------------------------
(* The wrappers step by step, as steps of the ledger.                      *)

(* Who is parked changes only when a thread falls asleep or relocks.       *)
LEMMA ParkedUnchanged ==
    ASSUME \A u \in Threads :
              /\ pc'[u] \in {"asleep", "woken"} <=> pc[u] \in {"asleep", "woken"}
              /\ pc[u] \in {"asleep", "woken"} => mtx'[u] = mtx[u]
    PROVE  UNCHANGED ParkedOn
BY DEF ParkedOn, Parked

LedgerStep == Ledger!Next \/ UNCHANGED Ledger!vars

(* An attempt to lock: taking the mutex is the ledger's Take, the end of a *)
(* successful instrumented wait is its Record.                             *)
LEMMA AcquireIsLedgerStep ==
    ASSUME IInv, NEW t \in Threads, NEW m \in Mutexes,
           \/ inline_mysql_mutex_lock(t, m)
           \/ inline_mysql_mutex_trylock(t, m)
    PROVE  LedgerStep
<1> USE ThreadAssumption DEF IInv, TypeOK
<1>1. ASSUME Idle(t), NEW f, NEW l, Enter(t, f, m, NULL, l), UNCHANGED owner
      PROVE  LedgerStep
  <2>1. UNCHANGED ParkedOn
    BY <1>1, ParkedUnchanged DEF Enter, Idle
  <2> QED
    BY <1>1, <2>1 DEF LedgerStep, Ledger!vars, Enter
<1>2. ASSUME NEW f \in Acquiring, At(t, "entered", f, m), holder[m] = NULL,
             holder' = [holder EXCEPT ![m] = t], Done(t, 0)
      PROVE  LedgerStep
  <2>1. UNCHANGED ParkedOn
    BY <1>2, ParkedUnchanged DEF Done, At
  <2>2. [ParkedOn EXCEPT ![m] = @ \ {t}] = ParkedOn
    BY <1>2 DEF ParkedOn, Parked, At
  <2>3. Ledger!Take(t, m)
    BY <1>2, <2>1, <2>2 DEF Ledger!Take, Done, recorder
  <2> QED
    BY <2>3 DEF LedgerStep, Ledger!Next
<1>3. ASSUME NEW f \in Acquiring, At(t, "entered", f, m), NEW r, Done(t, r),
             UNCHANGED holder
      PROVE  LedgerStep
  <2>1. UNCHANGED ParkedOn
    BY <1>3, ParkedUnchanged DEF Done, At
  <2> QED
    BY <1>3, <2>1 DEF LedgerStep, Ledger!vars, Done, recorder
<1>4. ASSUME NEW f \in Acquiring, At(t, "done", f, m), EndMutexWait(t)
      PROVE  LedgerStep
  <2>1. UNCHANGED ParkedOn
    BY <1>4, ParkedUnchanged DEF EndMutexWait, Return, At
  <2>2. CASE locker[t] = NULL \/ rc[t] # 0
    BY <1>4, <2>1, <2>2 DEF LedgerStep, Ledger!vars, EndMutexWait, end_mutex_wait
  <2>3. CASE locker[t] # NULL /\ rc[t] = 0
    <3>1. owner' = [owner EXCEPT ![m] = t] /\ holder[m] = t
      BY <1>4, <2>3 DEF EndMutexWait, end_mutex_wait, CallInv, AcquireInv, At
    <3>2. Ledger!Record(t, m)
      BY <1>4, <2>1, <3>1 DEF Ledger!Record, EndMutexWait
    <3> QED
      BY <3>2 DEF LedgerStep, Ledger!Next
  <2> QED
    BY <2>2, <2>3
<1> QED
  BY <1>1, <1>2, <1>3, <1>4
    DEF inline_mysql_mutex_lock, inline_mysql_mutex_trylock, Acquiring

(* An unlock: the event is the ledger's Erase, the real unlock its Release.*)
LEMMA UnlockIsLedgerStep ==
    ASSUME IInv, NEW t \in Threads, NEW m \in Mutexes,
           inline_mysql_mutex_unlock(t, m)
    PROVE  LedgerStep
<1> USE ThreadAssumption DEF IInv, TypeOK
<1>1. CASE /\ Idle(t) /\ holder[m] = t
           /\ owner' = IF Instrumented(m) THEN unlock_mutex(owner, m_psi[m])
                                          ELSE owner
           /\ Enter(t, "mutex_unlock", m, NULL, NULL)
  <2>1. UNCHANGED ParkedOn
    BY <1>1, ParkedUnchanged DEF Enter, Idle
  <2>2. owner' = [owner EXCEPT ![m] = NULL]
    BY <1>1 DEF Instrumented, unlock_mutex, ObjectInv, Objects
  <2>3. Ledger!Erase(t, m)
    BY <1>1, <2>1, <2>2 DEF Ledger!Erase, Enter
  <2> QED
    BY <2>3 DEF LedgerStep, Ledger!Next
<1>2. CASE /\ At(t, "entered", "mutex_unlock", m)
           /\ holder' = [holder EXCEPT ![m] = NULL]
           /\ UNCHANGED <<owner, wait>>
           /\ Return(t)
  <2>1. UNCHANGED ParkedOn
    BY <1>2, ParkedUnchanged DEF Return, At
  <2>2. holder[m] = t /\ owner[m] # t
    BY <1>2 DEF CallInv, UnlockInv, At
  <2>3. Ledger!Release(t, m)
    BY <1>2, <2>1, <2>2 DEF Ledger!Release
  <2> QED
    BY <2>3 DEF LedgerStep, Ledger!Next
<1> QED
  BY <1>1, <1>2 DEF inline_mysql_mutex_unlock

(* Destroying a mutex nobody holds is the ledger's Destroy.                *)
LEMMA DestroyIsLedgerStep ==
    ASSUME IInv, NEW t \in Threads, NEW m \in Mutexes,
           inline_mysql_mutex_destroy(t, m)
    PROVE  LedgerStep
<1>1. UNCHANGED ParkedOn
  BY ParkedUnchanged DEF inline_mysql_mutex_destroy, call
<1>2. owner' = [owner EXCEPT ![m] = NULL]
  BY DEF IInv, TypeOK, ObjectInv, Objects, inline_mysql_mutex_destroy,
         Instrumented, destroy_mutex
<1>3. Ledger!Destroy(m)
  BY <1>1, <1>2 DEF Ledger!Destroy, inline_mysql_mutex_destroy, Abandoned
<1> QED
  BY <1>3 DEF LedgerStep, Ledger!Next

(* A wait on a condition: falling asleep is the ledger's Park, relocking   *)
(* its Take, and the recorder's entry for the mutex is left alone.         *)
LEMMA WaitIsLedgerStep ==
    ASSUME IInv, NEW t \in Threads, NEW c \in Conds, NEW m \in Mutexes,
           \/ inline_mysql_cond_wait(t, c, m)
           \/ inline_mysql_cond_timedwait(t, c, m)
    PROVE  LedgerStep
<1> USE ThreadAssumption DEF IInv, TypeOK
<1>1. ASSUME Idle(t), NEW f, NEW l, Enter(t, f, c, m, l), UNCHANGED owner
      PROVE  LedgerStep
  <2>1. UNCHANGED ParkedOn
    BY <1>1, ParkedUnchanged DEF Enter, Idle
  <2> QED
    BY <1>1, <2>1 DEF LedgerStep, Ledger!vars, Enter
<1>2. ASSUME NEW f \in Waiting, At(t, "entered", f, c), mtx[t] = m, Sleep(t)
      PROVE  LedgerStep
  <2>1. holder[m] = t
    BY <1>2 DEF CallInv, CondInv, At
  <2>2. ASSUME NEW k \in Mutexes
        PROVE  ParkedOn'[k] = [ParkedOn EXCEPT ![m] = @ \cup {t}][k]
    BY <1>2, <2>2 DEF Sleep, At, ParkedOn, Parked
  <2>3. ParkedOn' = [ParkedOn EXCEPT ![m] = @ \cup {t}]
    BY <2>2 DEF ParkedOn
  <2>4. Ledger!Park(t, m)
    BY <1>2, <2>1, <2>3 DEF Ledger!Park, Sleep, recorder
  <2> QED
    BY <2>4 DEF LedgerStep, Ledger!Next
<1>3. ASSUME NEW f \in Waiting, At(t, "entered", f, c), UNCHANGED holder,
             Done(t, EINVAL)
      PROVE  LedgerStep
  <2>1. UNCHANGED ParkedOn
    BY <1>3, ParkedUnchanged DEF Done, At
  <2> QED
    BY <1>3, <2>1 DEF LedgerStep, Ledger!vars, Done, recorder
<1>4. ASSUME NEW f \in Waiting, At(t, "asleep", f, c), NEW r, Wake(t, r)
      PROVE  LedgerStep
  <2>1. UNCHANGED ParkedOn
    BY <1>4, ParkedUnchanged DEF Wake, At
  <2> QED
    BY <1>4, <2>1 DEF LedgerStep, Ledger!vars, Wake, recorder
<1>5. ASSUME NEW f \in Waiting, At(t, "woken", f, c), mtx[t] = m, Relock(t)
      PROVE  LedgerStep
  <2>1. ASSUME NEW k \in Mutexes
        PROVE  ParkedOn'[k] = [ParkedOn EXCEPT ![m] = @ \ {t}][k]
    BY <1>5, <2>1 DEF Relock, Done, At, ParkedOn, Parked
  <2>2. ParkedOn' = [ParkedOn EXCEPT ![m] = @ \ {t}]
    BY <2>1 DEF ParkedOn
  <2>3. Ledger!Take(t, m)
    BY <1>5, <2>2 DEF Ledger!Take, Relock, Done, recorder
  <2> QED
    BY <2>3 DEF LedgerStep, Ledger!Next
<1>6. ASSUME NEW f \in Waiting, At(t, "done", f, c), EndCondWait(t)
      PROVE  LedgerStep
  <2>1. UNCHANGED ParkedOn
    BY <1>6, ParkedUnchanged DEF EndCondWait, Return, At
  <2> QED
    BY <1>6, <2>1 DEF LedgerStep, Ledger!vars, EndCondWait
<1> QED
  BY <1>1, <1>2, <1>3, <1>4, <1>5, <1>6
    DEF inline_mysql_cond_wait, inline_mysql_cond_timedwait, Waiting

(* A signal or broadcast leaves mutexes, records and the parked alone.     *)
LEMMA SignalIsLedgerStep ==
    ASSUME IInv, NEW t \in Threads, NEW c \in Conds,
           \/ inline_mysql_cond_signal(t, c)
           \/ inline_mysql_cond_broadcast(t, c)
    PROVE  LedgerStep
<1> USE ThreadAssumption DEF IInv, TypeOK
<1>1. ASSUME Idle(t), NEW f, Enter(t, f, c, NULL, NULL), UNCHANGED owner
      PROVE  LedgerStep
  <2>1. UNCHANGED ParkedOn
    BY <1>1, ParkedUnchanged DEF Enter, Idle
  <2> QED
    BY <1>1, <2>1 DEF LedgerStep, Ledger!vars, Enter
<1>2. ASSUME NEW f, At(t, "entered", f, c), NEW S \in SUBSET Sleepers(c),
             WakeAndReturn(t, S)
      PROVE  LedgerStep
  <2>1. UNCHANGED ParkedOn
    BY <1>2, ParkedUnchanged DEF WakeAndReturn, At, Sleepers
  <2> QED
    BY <1>2, <2>1 DEF LedgerStep, Ledger!vars, WakeAndReturn, recorder
<1> QED
  BY <1>1, <1>2 DEF inline_mysql_cond_signal, inline_mysql_cond_broadcast

(* The other operations touch no mutex and no record.                      *)
LEMMA OtherIsLedgerStep ==
    ASSUME UNCHANGED <<owner, holder, call>>
    PROVE  LedgerStep
<1>1. UNCHANGED ParkedOn
  BY ParkedUnchanged DEF call
<1> QED
  BY <1>1 DEF LedgerStep, Ledger!vars
-----------------------------------------------------------------------------
(* Every step keeps the invariant, and is a step of the ledger.            *)
LEMMA MutexCallsStep ==
    ASSUME IInv, NEW t \in Threads, MutexCalls(t)
    PROVE  IInv' /\ LedgerStep
<1>1. ASSUME NEW m \in Mutexes, inline_mysql_mutex_init(t, m)
      PROVE  IInv' /\ LedgerStep
  BY <1>1, MutexInit, OtherIsLedgerStep DEF inline_mysql_mutex_init, recorder
<1>2. ASSUME NEW m \in Mutexes, inline_mysql_mutex_destroy(t, m)
      PROVE  IInv' /\ LedgerStep
  BY <1>2, MutexDestroy, DestroyIsLedgerStep
<1>3. ASSUME NEW m \in Mutexes, inline_mysql_mutex_lock(t, m)
      PROVE  IInv' /\ LedgerStep
  <2>1. "mutex_lock" \in Acquiring /\ "PSI_MUTEX_LOCK" \in PSI_mutex_operation
    BY DEF Acquiring, PSI_mutex_operation
  <2>2. IInv'
    BY <1>3, <2>1, AcquireEnters, AcquireSucceeds, AcquireFails,
       AcquireReturns DEF inline_mysql_mutex_lock
  <2> QED
    BY <1>3, <2>2, AcquireIsLedgerStep
<1>4. ASSUME NEW m \in Mutexes, inline_mysql_mutex_trylock(t, m)
      PROVE  IInv' /\ LedgerStep
  <2>1. /\ "mutex_trylock" \in Acquiring
        /\ "PSI_MUTEX_TRYLOCK" \in PSI_mutex_operation
    BY DEF Acquiring, PSI_mutex_operation
  <2>2. IInv'
    BY <1>4, <2>1, AcquireEnters, AcquireSucceeds, AcquireFails,
       AcquireReturns DEF inline_mysql_mutex_trylock
  <2> QED
    BY <1>4, <2>2, AcquireIsLedgerStep
<1>5. ASSUME NEW m \in Mutexes, inline_mysql_mutex_unlock(t, m)
      PROVE  IInv' /\ LedgerStep
  BY <1>5, UnlockEnters, UnlockReturns, UnlockIsLedgerStep
    DEF inline_mysql_mutex_unlock
<1> QED
  BY <1>1, <1>2, <1>3, <1>4, <1>5 DEF MutexCalls

LEMMA CondCallsStep ==
    ASSUME IInv, NEW t \in Threads, CondCalls(t)
    PROVE  IInv' /\ LedgerStep
<1>1. ASSUME NEW c \in Conds, inline_mysql_cond_init(t, c)
      PROVE  IInv' /\ LedgerStep
  BY <1>1, CondInit, OtherIsLedgerStep DEF inline_mysql_cond_init, recorder
<1>2. ASSUME NEW c \in Conds, inline_mysql_cond_destroy(t, c)
      PROVE  IInv' /\ LedgerStep
  BY <1>2, CondDestroy, OtherIsLedgerStep
    DEF inline_mysql_cond_destroy, recorder
<1>3. ASSUME NEW c \in Conds, NEW m \in Mutexes,
             inline_mysql_cond_wait(t, c, m)
      PROVE  IInv' /\ LedgerStep
  <2>1. "cond_wait" \in Waiting /\ "PSI_COND_WAIT" \in PSI_cond_operation
    BY DEF Waiting, PSI_cond_operation
  <2>2. IInv'
    BY <1>3, <2>1, WaitEnters, WaitFails, WaitSleeps, WaitWakes, WaitRelocks,
       WaitReturns DEF inline_mysql_cond_wait
  <2> QED
    BY <1>3, <2>2, WaitIsLedgerStep
<1>4. ASSUME NEW c \in Conds, NEW m \in Mutexes,
             inline_mysql_cond_timedwait(t, c, m)
      PROVE  IInv' /\ LedgerStep
  <2>1. /\ "cond_timedwait" \in Waiting
        /\ "PSI_COND_TIMEDWAIT" \in PSI_cond_operation
    BY DEF Waiting, PSI_cond_operation
  <2>2. IInv'
    BY <1>4, <2>1, WaitEnters, WaitFails, WaitSleeps, WaitWakes, WaitRelocks,
       WaitReturns DEF inline_mysql_cond_timedwait
  <2> QED
    BY <1>4, <2>2, WaitIsLedgerStep
<1>5. ASSUME NEW c \in Conds, inline_mysql_cond_signal(t, c)
      PROVE  IInv' /\ LedgerStep
  <2>1. IInv'
    BY <1>5, SignalEnters, SignalReturns DEF inline_mysql_cond_signal
  <2> QED
    BY <1>5, <2>1, SignalIsLedgerStep
<1>6. ASSUME NEW c \in Conds, inline_mysql_cond_broadcast(t, c)
      PROVE  IInv' /\ LedgerStep
  <2>1. IInv'
    BY <1>6, SignalEnters, SignalReturns DEF inline_mysql_cond_broadcast
  <2> QED
    BY <1>6, <2>1, SignalIsLedgerStep
<1> QED
  BY <1>1, <1>2, <1>3, <1>4, <1>5, <1>6 DEF CondCalls

LEMMA NextStep == IInv /\ [Next]_vars => IInv' /\ LedgerStep
<1> SUFFICES ASSUME IInv, [Next]_vars PROVE IInv' /\ LedgerStep
  OBVIOUS
<1>1. CASE AttachInterface
  BY <1>1, InterfaceAttached, OtherIsLedgerStep, ThreadAssumption
    DEF AttachInterface, recorder
<1>2. ASSUME NEW class \in {"mutex", "cond", "thread"},
             RegisterInstruments(class)
      PROVE  IInv' /\ LedgerStep
  <2>1. class \in PSI_kinds
    BY DEF PSI_kinds
  <2> QED
    BY <1>2, <2>1, InstrumentRegistered, OtherIsLedgerStep, ThreadAssumption
      DEF RegisterInstruments, recorder
<1>3. ASSUME NEW t \in Threads, ThreadCalls(t) PROVE IInv' /\ LedgerStep
  <2>1. ASSUME NEW u \in Threads, inline_mysql_thread_create(t, u)
        PROVE  IInv' /\ LedgerStep
    BY <2>1, ThreadCreated, OtherIsLedgerStep DEF inline_mysql_thread_create
  <2>2. ASSUME NEW id \in Ids, inline_mysql_thread_set_psi_id(t, id)
        PROVE  IInv' /\ LedgerStep
    BY <2>2, IdAssigned, OtherIsLedgerStep DEF inline_mysql_thread_set_psi_id
  <2> QED
    BY <1>3, <2>1, <2>2 DEF ThreadCalls
<1>4. CASE UNCHANGED vars
  <2>1. LedgerStep
    BY <1>4, OtherIsLedgerStep DEF vars, recorder, call
  <2>2. IInv'
    BY <1>4 DEF vars, setup, recorder, objects, call, IInv, TypeOK, ObjectInv,
           CallInv, IdleInv, AcquireInv, UnlockInv, CondInv, SignalInv,
           StageInv
  <2> QED
    BY <2>1, <2>2
<1> QED
  BY <1>1, <1>2, <1>3, <1>4, MutexCallsStep, CondCallsStep DEF Next

LEMMA InitIInv == Init => IInv /\ Ledger!Init
<1> SUFFICES ASSUME Init PROVE IInv /\ Ledger!Init
  OBVIOUS
<1> USE ThreadAssumption DEF Init
<1>1. TypeOK
  BY DEF TypeOK, Objects, PSI_key, Functions
<1>2. ObjectInv
  BY DEF ObjectInv, Objects
<1>3. \A t \in Threads : CallInv(t)
  BY DEF CallInv, IdleInv, AcquireInv, UnlockInv, CondInv, SignalInv,
         StageInv, Acquiring, Waiting
<1>4. Ledger!Init
  BY DEF Ledger!Init, ParkedOn, Parked
<1> QED
  BY <1>1, <1>2, <1>3, <1>4 DEF IInv

LEMMA IInvHolds == Spec => []IInv
BY InitIInv, NextStep, PTL DEF Spec
-----------------------------------------------------------------------------
(* Every variable keeps its type, for any threads, mutexes, conditions.    *)
THEOREM TypeCorrect == Spec => []TypeOK
<1>1. IInv => TypeOK
  BY DEF IInv
<1> QED
  BY <1>1, IInvHolds, PTL

(* Every wait the recorder sees started is ended by the call that started  *)
(* it, whatever the result and whenever the interface is attached.         *)
THEOREM WaitsMatchCallsHolds == Spec => []WaitsMatchCalls
<1>1. IInv => WaitsMatchCalls
  <2> SUFFICES ASSUME IInv, NEW t \in Threads
               PROVE  /\ wait[t] = locker[t]
                      /\ locker[t] # NULL => /\ pc[t] # "idle"
                                             /\ locker[t].m_thread = t
    BY DEF WaitsMatchCalls
  <2> QED
    BY DEF IInv, TypeOK, CallInv, IdleInv, AcquireInv, UnlockInv, CondInv,
           SignalInv, StageInv, Functions
<1> QED
  BY <1>1, IInvHolds, PTL

(* No wrapper is left with a destroyed mutex or condition to touch.        *)
THEOREM NoUseAfterDestroyHolds == Spec => []NoUseAfterDestroy
<1>1. IInv => NoUseAfterDestroy
  <2> SUFFICES ASSUME IInv, NEW t \in Threads, pc[t] # "idle"
               PROVE  /\ ready[obj[t]]
                      /\ fn[t] \in Waiting => ready[mtx[t]]
    BY DEF NoUseAfterDestroy
  <2> QED
    BY ThreadAssumption
      DEF IInv, TypeOK, ObjectInv, CallInv, AcquireInv, UnlockInv, CondInv,
          SignalInv, StageInv, Functions, Acquiring, Waiting
<1> QED
  BY <1>1, IInvHolds, PTL

(* The wrappers implement the ledger, for any threads and mutexes.         *)
THEOREM LedgerImplemented == Spec => LedgerSpec
<1>1. Spec => Ledger!Init
  BY InitIInv DEF Spec
<1>2. IInv /\ [Next]_vars => [Ledger!Next]_(Ledger!vars)
  BY NextStep DEF LedgerStep
<1> QED
  BY <1>1, <1>2, IInvHolds, PTL DEF Spec, LedgerSpec, Ledger!Spec

(* The recorder names as owner only who has the mutex or sleeps with it.   *)
THEOREM OwnerIsTrueHolds == Spec => []OwnerIsTrue
<1>1. Ledger!OwnerIsTrue => OwnerIsTrue
  BY DEF Ledger!OwnerIsTrue, OwnerIsTrue, ParkedOn
<1>2. LedgerSpec => [](Ledger!TypeOK /\ Ledger!OwnerIsTrue)
  BY Ledger!LedgerIsTrue DEF LedgerSpec
<1> QED
  BY <1>1, <1>2, LedgerImplemented, PTL
=============================================================================
