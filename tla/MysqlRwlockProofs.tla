------------------------- MODULE MysqlRwlockProofs --------------------------
(* Proofs about MysqlRwlock, for any finite set of threads and any locks.  *)
EXTENDS MysqlRwlock, FiniteSetTheorems, TLAPS

(* What holds of a lock between any two steps.                             *)
LockInv ==
    /\ \A o \in Locks :
          /\ m_psi[o] \in {NULL, o}
          /\ m_psi[o] # NULL => PSI_server # NULL
          /\ m_psi[o] = NULL => writer[o] = NULL /\ readers[o] = 0
          /\ ~ready[o] => /\ wr[o] = NULL /\ rd[o] = {}
                          /\ writer[o] = NULL /\ readers[o] = 0
          /\ wr[o] # NULL => rd[o] = {}
          /\ writer[o] # NULL => wr[o] = writer[o]
    /\ \A t \in Threads : attached[t] \in {NULL, t}

(* What holds of a thread at each stage of a wrapper.                      *)
StageInv(t) ==
    /\ pc[t] = "idle" => fn[t] = "none" /\ obj[t] = NULL /\ locker[t] = NULL
    /\ pc[t] # "idle" => /\ fn[t] # "none"
                         /\ obj[t] \in Locks /\ ready[obj[t]]
    /\ wait[t] = locker[t]
AcquireInv(t) ==
    fn[t] \in Reading \cup Writing =>
        /\ pc[t] = "entered" => ~Holds(t, obj[t])
        /\ pc[t] = "done" /\ rc[t] # 0 => ~Holds(t, obj[t])
        /\ pc[t] = "done" /\ rc[t] = 0 =>
              IF fn[t] \in Reading THEN t \in rd[obj[t]] ELSE wr[obj[t]] = t
        /\ locker[t] # NULL => /\ locker[t].m_rwlock = obj[t]
                               /\ locker[t].m_thread = t
                               /\ m_psi[obj[t]] # NULL
UnlockInv(t) ==
    fn[t] = "unlock" => /\ pc[t] = "entered" /\ Holds(t, obj[t])
                        /\ writer[obj[t]] = NULL /\ locker[t] = NULL
CallInv(t) == StageInv(t) /\ AcquireInv(t) /\ UnlockInv(t)

IInv == TypeOK /\ LockInv /\ \A t \in Threads : CallInv(t)

(* The readers the recorder may have counted: those that are not inside a  *)
(* call on the lock.  A reader enters this set when its wait ends and      *)
(* leaves it when it reports its unlock.                                   *)
Counted(o) == {u \in rd[o] : obj[u] # o}
CountInv == \A o \in Locks : readers[o] <= Cardinality(Counted(o))

(* A thread enters the wrapper of a lock or an attempt. *)
LEMMA LockEnters ==
    ASSUME IInv,
           NEW t \in Threads,
           NEW o \in Locks,
           NEW f \in Reading \cup Writing,
           NEW op \in PSI_rwlock_operation,
           EnterLock(t, f, o, op)
    PROVE  IInv'
<1> USE RwlockAssumption DEF IInv
<1>0. PICK l \in RwlockLocker(t, o, op) : Enter(t, f, o, l)
  BY DEF EnterLock
<1>1. wait[t] = NULL /\ locker[t] = NULL
  BY DEF CallInv, StageInv, EnterLock, Idle
<1>2. l = NULL \/ (l \in Lockers /\ l.m_rwlock = o /\ l.m_thread = t)
  <2>1. l = NULL \/ l = PSI_rwlock_locker_state(o, t, op)
    BY DEF LockInv, RwlockLocker, Instrumented, get_thread_rwlock_locker
  <2>2. ASSUME l = PSI_rwlock_locker_state(o, t, op)
        PROVE  l \in Lockers /\ l.m_rwlock = o /\ l.m_thread = t
    BY <2>2 DEF PSI_rwlock_locker_state, Lockers
  <2> QED
    BY <2>1, <2>2
<1>3. l # NULL => m_psi[o] # NULL
  BY DEF RwlockLocker, Instrumented
<1>4. wait' = [wait EXCEPT ![t] = l]
  <2>1. CASE l = NULL
    BY <2>1, <1>0, <1>1 DEF Enter, StartWait, TypeOK
  <2>2. CASE l # NULL
    BY <2>2, <1>0, <1>2 DEF Enter, StartWait, TypeOK
  <2> QED
    BY <2>1, <2>2
<1>t. TypeOK'
  BY <1>0, <1>1, <1>2, <1>3, <1>4
    DEF TypeOK, setup, recorder, objects, real, call, Idle, EnterLock, Enter,
        Reading, Writing
<1>l. LockInv'
  BY <1>0, <1>1, <1>2, <1>3, <1>4
    DEF TypeOK, LockInv, CallInv, StageInv, AcquireInv, UnlockInv, Holds,
        setup, recorder, objects, real, call, Idle, EnterLock, Enter,
        Reading, Writing
<1>c. ASSUME NEW u \in Threads PROVE CallInv(u)'
  <2>1. CASE u = t
    BY <2>1, <1>0, <1>1, <1>2, <1>3, <1>4
      DEF TypeOK, LockInv, CallInv, StageInv, AcquireInv, UnlockInv, Holds,
          setup, recorder, objects, real, call, Idle, EnterLock, Enter,
          Reading, Writing
  <2>2. CASE u # t
    BY <2>2, <1>0, <1>1, <1>2, <1>3, <1>4
      DEF TypeOK, LockInv, CallInv, StageInv, AcquireInv, UnlockInv, Holds,
          setup, recorder, objects, real, call, Idle, EnterLock, Enter,
          Reading, Writing
  <2> QED
    BY <2>1, <2>2
<1> QED
  BY <1>t, <1>l, <1>c

(* The real read lock, or its failure. *)
LEMMA RdlockDone ==
    ASSUME IInv,
           NEW t \in Threads,
           NEW o \in Locks,
           NEW f \in Reading,
           At(t, "entered", f, o),
           NEW r \in {EBUSY, EINVAL},
           RealRdlock(t, o, r)
    PROVE  IInv'
<1> USE RwlockAssumption DEF IInv
<1>t. TypeOK'
  BY DEF TypeOK, setup, recorder, objects, real, call, At, RealRdlock, Done,
      Reading, Writing, EBUSY, EINVAL
<1>l. LockInv'
  BY DEF TypeOK, LockInv, CallInv, StageInv, AcquireInv, UnlockInv, Holds,
      setup, recorder, objects, real, call, At, RealRdlock, Done, Reading,
      Writing, EBUSY, EINVAL
<1>c. ASSUME NEW u \in Threads PROVE CallInv(u)'
  <2>1. CASE u = t
    BY <2>1
      DEF TypeOK, LockInv, CallInv, StageInv, AcquireInv, UnlockInv, Holds,
          setup, recorder, objects, real, call, At, RealRdlock, Done,
          Reading, Writing, EBUSY, EINVAL
  <2>2. CASE u # t
    BY <2>2
      DEF TypeOK, LockInv, CallInv, StageInv, AcquireInv, UnlockInv, Holds,
          setup, recorder, objects, real, call, At, RealRdlock, Done,
          Reading, Writing, EBUSY, EINVAL
  <2> QED
    BY <2>1, <2>2
<1> QED
  BY <1>t, <1>l, <1>c

(* The real write lock, or its failure. *)
LEMMA WrlockDone ==
    ASSUME IInv,
           NEW t \in Threads,
           NEW o \in Locks,
           NEW f \in Writing,
           At(t, "entered", f, o),
           NEW r \in {EBUSY, EINVAL},
           RealWrlock(t, o, r)
    PROVE  IInv'
<1> USE RwlockAssumption DEF IInv
<1>t. TypeOK'
  BY DEF TypeOK, setup, recorder, objects, real, call, At, RealWrlock, Done,
      Reading, Writing, EBUSY, EINVAL
<1>l. LockInv'
  BY DEF TypeOK, LockInv, CallInv, StageInv, AcquireInv, UnlockInv, Holds,
      setup, recorder, objects, real, call, At, RealWrlock, Done, Reading,
      Writing, EBUSY, EINVAL
<1>c. ASSUME NEW u \in Threads PROVE CallInv(u)'
  <2>1. CASE u = t
    BY <2>1
      DEF TypeOK, LockInv, CallInv, StageInv, AcquireInv, UnlockInv, Holds,
          setup, recorder, objects, real, call, At, RealWrlock, Done,
          Reading, Writing, EBUSY, EINVAL
  <2>2. CASE u # t
    BY <2>2
      DEF TypeOK, LockInv, CallInv, StageInv, AcquireInv, UnlockInv, Holds,
          setup, recorder, objects, real, call, At, RealWrlock, Done,
          Reading, Writing, EBUSY, EINVAL
  <2> QED
    BY <2>1, <2>2
<1> QED
  BY <1>t, <1>l, <1>c

(* The wait of a reader ends and the call returns. *)
LEMMA RdwaitEnds ==
    ASSUME IInv,
           NEW t \in Threads,
           NEW o \in Locks,
           NEW f \in Reading,
           At(t, "done", f, o),
           EndRdwait(t)
    PROVE  IInv'
<1> USE RwlockAssumption DEF IInv
<1>1. wait' = [wait EXCEPT ![t] = NULL]
  <2>1. CASE locker[t] = NULL
    BY <2>1 DEF EndRdwait, EndWait, CallInv, StageInv, TypeOK
  <2>2. CASE locker[t] # NULL
    BY <2>2 DEF EndRdwait, EndWait, CallInv, AcquireInv, At
  <2> QED
    BY <2>1, <2>2
<1>2. \/ UNCHANGED readers
      \/ /\ readers' = [readers EXCEPT ![o] = @ + 1]
         /\ t \in rd[o] /\ m_psi[o] # NULL
  BY DEF EndRdwait, end_rwlock_rdwait, CallInv, AcquireInv, At
<1>t. TypeOK'
  BY <1>1, <1>2
    DEF TypeOK, setup, recorder, objects, real, call, At, EndRdwait, Return,
        Reading, Writing, EBUSY, EINVAL
<1>l. LockInv'
  BY <1>1, <1>2
    DEF TypeOK, LockInv, CallInv, StageInv, AcquireInv, UnlockInv, Holds,
        setup, recorder, objects, real, call, At, EndRdwait, Return, Reading,
        Writing, EBUSY, EINVAL
<1>c. ASSUME NEW u \in Threads PROVE CallInv(u)'
  <2>1. CASE u = t
    BY <2>1, <1>1, <1>2
      DEF TypeOK, LockInv, CallInv, StageInv, AcquireInv, UnlockInv, Holds,
          setup, recorder, objects, real, call, At, EndRdwait, Return,
          Reading, Writing, EBUSY, EINVAL
  <2>2. CASE u # t
    BY <2>2, <1>1, <1>2
      DEF TypeOK, LockInv, CallInv, StageInv, AcquireInv, UnlockInv, Holds,
          setup, recorder, objects, real, call, At, EndRdwait, Return,
          Reading, Writing, EBUSY, EINVAL
  <2> QED
    BY <2>1, <2>2
<1> QED
  BY <1>t, <1>l, <1>c

(* The wait of a writer ends and the call returns. *)
LEMMA WrwaitEnds ==
    ASSUME IInv,
           NEW t \in Threads,
           NEW o \in Locks,
           NEW f \in Writing,
           At(t, "done", f, o),
           EndWrwait(t)
    PROVE  IInv'
<1> USE RwlockAssumption DEF IInv
<1>1. wait' = [wait EXCEPT ![t] = NULL]
  <2>1. CASE locker[t] = NULL
    BY <2>1 DEF EndWrwait, EndWait, CallInv, StageInv, TypeOK
  <2>2. CASE locker[t] # NULL
    BY <2>2 DEF EndWrwait, EndWait, CallInv, AcquireInv, At
  <2> QED
    BY <2>1, <2>2
<1>2. \/ UNCHANGED writer
      \/ /\ writer' = [writer EXCEPT ![o] = t]
         /\ wr[o] = t /\ m_psi[o] # NULL
  BY DEF EndWrwait, end_rwlock_wrwait, CallInv, AcquireInv, At, Reading,
         Writing
<1>t. TypeOK'
  BY <1>1, <1>2
    DEF TypeOK, setup, recorder, objects, real, call, At, EndWrwait, Return,
        Reading, Writing, EBUSY, EINVAL
<1>l. LockInv'
  BY <1>1, <1>2
    DEF TypeOK, LockInv, CallInv, StageInv, AcquireInv, UnlockInv, Holds,
        setup, recorder, objects, real, call, At, EndWrwait, Return, Reading,
        Writing, EBUSY, EINVAL
<1>c. ASSUME NEW u \in Threads PROVE CallInv(u)'
  <2>1. CASE u = t
    BY <2>1, <1>1, <1>2
      DEF TypeOK, LockInv, CallInv, StageInv, AcquireInv, UnlockInv, Holds,
          setup, recorder, objects, real, call, At, EndWrwait, Return,
          Reading, Writing, EBUSY, EINVAL
  <2>2. CASE u # t
    BY <2>2, <1>1, <1>2
      DEF TypeOK, LockInv, CallInv, StageInv, AcquireInv, UnlockInv, Holds,
          setup, recorder, objects, real, call, At, EndWrwait, Return,
          Reading, Writing, EBUSY, EINVAL
  <2> QED
    BY <2>1, <2>2
<1> QED
  BY <1>t, <1>l, <1>c

(* The recorder is told of an unlock. *)
LEMMA UnlockEnters ==
    ASSUME IInv,
           NEW t \in Threads,
           NEW o \in Locks,
           Idle(t),
           Holds(t, o),
           IF Instrumented(o)
           THEN /\ writer' = unlock_rwlock_writer(writer, m_psi[o])
                /\ readers' = unlock_rwlock_readers(readers, writer, m_psi[o])
           ELSE UNCHANGED <<writer, readers>>,
           Enter(t, "unlock", o, NULL)
    PROVE  IInv'
<1> USE RwlockAssumption DEF IInv
<1>1. UNCHANGED wait
  BY DEF Enter, StartWait
<1>2. writer' = [writer EXCEPT ![o] = NULL]
  BY DEF Instrumented, unlock_rwlock_writer, LockInv, TypeOK
<1>3. \/ UNCHANGED readers
      \/ /\ readers' = [readers EXCEPT ![o] = @ - 1] /\ readers[o] > 0
  BY DEF Instrumented, unlock_rwlock_readers, LockInv, TypeOK
<1>t. TypeOK'
  BY <1>1, <1>2, <1>3
    DEF TypeOK, setup, recorder, objects, real, call, Idle, Enter, Reading,
        Writing
<1>l. LockInv'
  BY <1>1, <1>2, <1>3
    DEF TypeOK, LockInv, CallInv, StageInv, AcquireInv, UnlockInv, Holds,
        setup, recorder, objects, real, call, Idle, Enter, Reading, Writing
<1>c. ASSUME NEW u \in Threads PROVE CallInv(u)'
  <2>1. CASE u = t
    BY <2>1, <1>1, <1>2, <1>3
      DEF TypeOK, LockInv, CallInv, StageInv, AcquireInv, UnlockInv, Holds,
          setup, recorder, objects, real, call, Idle, Enter, Reading,
          Writing
  <2>2. CASE u # t
    BY <2>2, <1>1, <1>2, <1>3
      DEF TypeOK, LockInv, CallInv, StageInv, AcquireInv, UnlockInv, Holds,
          setup, recorder, objects, real, call, Idle, Enter, Reading,
          Writing
  <2> QED
    BY <2>1, <2>2
<1> QED
  BY <1>t, <1>l, <1>c

(* The real unlock, after which the wrapper touches nothing. *)
LEMMA UnlockReturns ==
    ASSUME IInv,
           NEW t \in Threads,
           NEW o \in Locks,
           At(t, "entered", "unlock", o),
           RealUnlock(t, o),
           UNCHANGED recorder,
           Return(t)
    PROVE  IInv'
<1> USE RwlockAssumption DEF IInv
<1>t. TypeOK'
  BY DEF TypeOK, setup, recorder, objects, real, call, At, RealUnlock,
      Return, Reading, Writing
<1>l. LockInv'
  BY DEF TypeOK, LockInv, CallInv, StageInv, AcquireInv, UnlockInv, Holds,
      setup, recorder, objects, real, call, At, RealUnlock, Return, Reading,
      Writing
<1>c. ASSUME NEW u \in Threads PROVE CallInv(u)'
  <2>1. CASE u = t
    BY <2>1
      DEF TypeOK, LockInv, CallInv, StageInv, AcquireInv, UnlockInv, Holds,
          setup, recorder, objects, real, call, At, RealUnlock, Return,
          Reading, Writing
  <2>2. CASE u # t
    BY <2>2
      DEF TypeOK, LockInv, CallInv, StageInv, AcquireInv, UnlockInv, Holds,
          setup, recorder, objects, real, call, At, RealUnlock, Return,
          Reading, Writing
  <2> QED
    BY <2>1, <2>2
<1> QED
  BY <1>t, <1>l, <1>c

(* A lock is initialised. *)
LEMMA LockInitialised ==
    ASSUME IInv,
           NEW t \in Threads,
           NEW o \in Locks,
           InitLock(t, o)
    PROVE  IInv'
<1> USE RwlockAssumption DEF IInv
<1>1. PICK p \in {NULL, o}, ok \in BOOLEAN :
         /\ p # NULL => PSI_server # NULL
         /\ m_psi' = [m_psi EXCEPT ![o] = p]
         /\ ready' = [ready EXCEPT ![o] = ok]
         /\ ~ready[o]
         /\ UNCHANGED <<setup, recorder, real, call>>
  BY DEF InitLock, init_rwlock
<1>t. TypeOK'
  BY <1>1
    DEF TypeOK, setup, recorder, objects, real, call, Idle, Reading, Writing
<1>l. LockInv'
  BY <1>1
    DEF TypeOK, LockInv, CallInv, StageInv, AcquireInv, UnlockInv, Holds,
        setup, recorder, objects, real, call, Idle, Reading, Writing
<1>c. ASSUME NEW u \in Threads PROVE CallInv(u)'
  <2>1. CASE u = t
    BY <2>1, <1>1
      DEF TypeOK, LockInv, CallInv, StageInv, AcquireInv, UnlockInv, Holds,
          setup, recorder, objects, real, call, Idle, Reading, Writing
  <2>2. CASE u # t
    BY <2>2, <1>1
      DEF TypeOK, LockInv, CallInv, StageInv, AcquireInv, UnlockInv, Holds,
          setup, recorder, objects, real, call, Idle, Reading, Writing
  <2> QED
    BY <2>1, <2>2
<1> QED
  BY <1>t, <1>l, <1>c

(* A lock that its users have left is destroyed. *)
LEMMA LockDestroyed ==
    ASSUME IInv,
           NEW t \in Threads,
           NEW o \in Locks,
           DestroyLock(t, o)
    PROVE  IInv'
<1> USE RwlockAssumption DEF IInv
<1>1. /\ writer' = [writer EXCEPT ![o] = NULL]
      /\ readers' = [readers EXCEPT ![o] = 0]
      /\ m_psi' = [m_psi EXCEPT ![o] = NULL]
  BY DEF DestroyLock, Instrumented, LockInv, TypeOK
<1>t. TypeOK'
  BY <1>1
    DEF TypeOK, setup, recorder, objects, real, call, DestroyLock, Abandoned,
        Idle, Reading, Writing
<1>l. LockInv'
  BY <1>1
    DEF TypeOK, LockInv, CallInv, StageInv, AcquireInv, UnlockInv, Holds,
        setup, recorder, objects, real, call, DestroyLock, Abandoned, Idle,
        Reading, Writing
<1>c. ASSUME NEW u \in Threads PROVE CallInv(u)'
  <2>1. CASE u = t
    BY <2>1, <1>1
      DEF TypeOK, LockInv, CallInv, StageInv, AcquireInv, UnlockInv, Holds,
          setup, recorder, objects, real, call, DestroyLock, Abandoned, Idle,
          Reading, Writing
  <2>2. CASE u # t
    BY <2>2, <1>1
      DEF TypeOK, LockInv, CallInv, StageInv, AcquireInv, UnlockInv, Holds,
          setup, recorder, objects, real, call, DestroyLock, Abandoned, Idle,
          Reading, Writing
  <2> QED
    BY <2>1, <2>2
<1> QED
  BY <1>t, <1>l, <1>c

(* The interface is found. *)
LEMMA InterfaceAttached ==
    ASSUME IInv,
           NEW t \in Threads,
           AttachInterface
    PROVE  IInv'
<1> USE RwlockAssumption DEF IInv
<1>t. TypeOK'
  BY DEF TypeOK, setup, recorder, objects, real, call, AttachInterface,
      get_interface, Reading, Writing
<1>l. LockInv'
  BY DEF TypeOK, LockInv, CallInv, StageInv, AcquireInv, UnlockInv, Holds,
      setup, recorder, objects, real, call, AttachInterface, get_interface,
      Reading, Writing
<1>c. ASSUME NEW u \in Threads PROVE CallInv(u)'
  <2>1. CASE u = t
    BY <2>1
      DEF TypeOK, LockInv, CallInv, StageInv, AcquireInv, UnlockInv, Holds,
          setup, recorder, objects, real, call, AttachInterface,
          get_interface, Reading, Writing
  <2>2. CASE u # t
    BY <2>2
      DEF TypeOK, LockInv, CallInv, StageInv, AcquireInv, UnlockInv, Holds,
          setup, recorder, objects, real, call, AttachInterface,
          get_interface, Reading, Writing
  <2> QED
    BY <2>1, <2>2
<1> QED
  BY <1>t, <1>l, <1>c

(* The class of rwlock instruments is registered. *)
LEMMA InstrumentRegistered ==
    ASSUME IInv,
           NEW t \in Threads,
           RegisterInstruments
    PROVE  IInv'
<1> USE RwlockAssumption DEF IInv
<1>t. TypeOK'
  BY DEF TypeOK, setup, recorder, objects, real, call, RegisterInstruments,
      register, PSI_info, PSI_key, PSI_kinds, Reading, Writing
<1>l. LockInv'
  BY DEF TypeOK, LockInv, CallInv, StageInv, AcquireInv, UnlockInv, Holds,
      setup, recorder, objects, real, call, RegisterInstruments, register, PSI_info,
      PSI_key, PSI_kinds, Reading, Writing
<1>c. ASSUME NEW u \in Threads PROVE CallInv(u)'
  <2>1. CASE u = t
    BY <2>1
      DEF TypeOK, LockInv, CallInv, StageInv, AcquireInv, UnlockInv, Holds,
          setup, recorder, objects, real, call, RegisterInstruments,
          register, PSI_info, PSI_key, PSI_kinds, Reading, Writing
  <2>2. CASE u # t
    BY <2>2
      DEF TypeOK, LockInv, CallInv, StageInv, AcquireInv, UnlockInv, Holds,
          setup, recorder, objects, real, call, RegisterInstruments,
          register, PSI_info, PSI_key, PSI_kinds, Reading, Writing
  <2> QED
    BY <2>1, <2>2
<1> QED
  BY <1>t, <1>l, <1>c
-----------------------------------------------------------------------------
(* The recorder's count of readers.                                        *)
LEMMA CountedFinite ==
    ASSUME IInv, NEW o \in Locks
    PROVE  IsFiniteSet(Counted(o)) /\ Cardinality(Counted(o)) \in Nat
<1>1. Counted(o) \subseteq Threads
  BY DEF Counted, IInv, TypeOK
<1> QED
  BY <1>1, RwlockAssumption, FS_Subset, FS_CardinalityType

(* A step that changes nobody's standing and raises no count.              *)
LEMMA CountKept ==
    ASSUME IInv, IInv', CountInv,
           \A o \in Locks : Counted(o)' = Counted(o),
           \A o \in Locks : readers'[o] <= readers[o]
    PROVE  CountInv'
<1> SUFFICES ASSUME NEW o \in Locks
             PROVE  readers'[o] <= Cardinality(Counted(o)')
  BY DEF CountInv
<1>1. readers[o] <= Cardinality(Counted(o)) /\ Counted(o)' = Counted(o)
  BY DEF CountInv
<1>2. readers[o] \in Nat /\ readers'[o] \in Nat /\ readers'[o] <= readers[o]
  BY DEF IInv, TypeOK
<1>3. Cardinality(Counted(o)) \in Nat
  BY CountedFinite
<1> QED
  BY <1>1, <1>2, <1>3

(* The end of a reader's wait: the reader joins the counted.               *)
LEMMA RdwaitCounts ==
    ASSUME IInv, IInv', CountInv, NEW t \in Threads, NEW o \in Locks,
           NEW f \in Reading, At(t, "done", f, o), EndRdwait(t)
    PROVE  CountInv'
<1> USE RwlockAssumption DEF IInv
<1>1. CASE rc[t] = 0
  <2>1. t \in rd[o] /\ t \notin Counted(o)
    BY <1>1 DEF CallInv, AcquireInv, At, Counted
  <2>2. Counted(o)' = Counted(o) \cup {t}
    BY <2>1 DEF Counted, EndRdwait, real, Return, TypeOK, At
  <2>3. ASSUME NEW k \in Locks, k # o PROVE Counted(k)' = Counted(k)
    BY <2>3 DEF Counted, EndRdwait, real, Return, TypeOK, At
  <2>4. Cardinality(Counted(o)') = Cardinality(Counted(o)) + 1
    BY <2>1, <2>2, CountedFinite, FS_AddElement
  <2>5. \/ UNCHANGED readers
        \/ readers' = [readers EXCEPT ![o] = @ + 1]
    BY <1>1 DEF EndRdwait, end_rwlock_rdwait, CallInv, AcquireInv, At
  <2>6. ASSUME NEW k \in Locks
        PROVE  readers'[k] <= Cardinality(Counted(k)')
    <3>1. readers[k] <= Cardinality(Counted(k)) /\ readers[k] \in Nat
      BY DEF CountInv, TypeOK
    <3>2. Cardinality(Counted(k)) \in Nat
      BY CountedFinite
    <3>3. CASE k = o
      BY <3>1, <3>2, <3>3, <2>4, <2>5 DEF TypeOK
    <3>4. CASE k # o
      BY <3>1, <3>2, <3>4, <2>3, <2>5 DEF TypeOK
    <3> QED
      BY <3>3, <3>4
  <2> QED
    BY <2>6 DEF CountInv
<1>2. CASE rc[t] # 0
  <2>1. t \notin rd[o]
    BY <1>2 DEF CallInv, AcquireInv, Holds, At
  <2>2. ASSUME NEW k \in Locks PROVE Counted(k)' = Counted(k)
    BY <2>1, <2>2 DEF Counted, EndRdwait, real, Return, TypeOK, At
  <2>3. UNCHANGED readers
    BY <1>2 DEF EndRdwait, end_rwlock_rdwait
  <2>4. \A k \in Locks : readers'[k] <= readers[k]
    BY <2>3 DEF TypeOK
  <2> QED
    BY <2>2, <2>4, CountKept
<1> QED
  BY <1>1, <1>2

(* The event of an unlock: a reader leaves the counted, and the recorder   *)
(* counts one less unless it counts none.                                  *)
LEMMA UnlockCounts ==
    ASSUME IInv, IInv', CountInv, NEW t \in Threads, NEW o \in Locks,
           Idle(t), Holds(t, o), Enter(t, "unlock", o, NULL),
           IF Instrumented(o)
           THEN readers' = unlock_rwlock_readers(readers, writer, m_psi[o])
           ELSE UNCHANGED readers
    PROVE  CountInv'
<1> USE RwlockAssumption DEF IInv
<1>1. obj[t] = NULL /\ obj' = [obj EXCEPT ![t] = o] /\ UNCHANGED rd
  BY DEF CallInv, StageInv, Idle, Enter, real
<1>2. Counted(o)' = Counted(o) \ {t}
  BY <1>1 DEF Counted, TypeOK
<1>3. ASSUME NEW k \in Locks, k # o PROVE Counted(k)' = Counted(k)
  BY <1>1, <1>3 DEF Counted, TypeOK
<1>4. readers'[o] = IF readers[o] > 0 /\ m_psi[o] # NULL /\ writer[o] = NULL
                    THEN readers[o] - 1 ELSE readers[o]
  BY DEF Instrumented, unlock_rwlock_readers, LockInv, TypeOK
<1>5. ASSUME NEW k \in Locks, k # o PROVE readers'[k] = readers[k]
  BY <1>5 DEF Instrumented, unlock_rwlock_readers, LockInv, TypeOK
<1>6. readers[o] <= Cardinality(Counted(o)) /\ readers[o] \in Nat
  BY DEF CountInv, TypeOK
<1>7. readers'[o] <= Cardinality(Counted(o)')
  <2>1. CASE t \in rd[o]
    <3>1. t \in Counted(o)
      BY <1>1, <2>1 DEF Counted
    <3>2. Cardinality(Counted(o)') = Cardinality(Counted(o)) - 1
      BY <1>2, <3>1, CountedFinite, FS_RemoveElement
    <3>3. Cardinality(Counted(o)) \in Nat /\ Cardinality(Counted(o)) # 0
      BY <3>1, CountedFinite, FS_EmptySet
    <3>4. writer[o] = NULL /\ (m_psi[o] = NULL => readers[o] = 0)
      BY <2>1 DEF LockInv, TypeOK
    <3> QED
      BY <3>2, <3>3, <3>4, <1>4, <1>6
  <2>2. CASE t \notin rd[o]
    <3>1. Counted(o) = {} /\ Counted(o)' = {}
      BY <1>2, <2>2 DEF Holds, LockInv, Counted
    <3>2. readers[o] = 0
      BY <1>6, <3>1, FS_EmptySet
    <3> QED
      BY <1>4, <3>1, <3>2, FS_EmptySet
  <2> QED
    BY <2>1, <2>2
<1>8. ASSUME NEW k \in Locks PROVE readers'[k] <= Cardinality(Counted(k)')
  <2>1. CASE k # o
    BY <2>1, <1>3, <1>5 DEF CountInv
  <2> QED
    BY <2>1, <1>7
<1> QED
  BY <1>8 DEF CountInv
-----------------------------------------------------------------------------
(* The wrappers as steps of the writer's ledger.                           *)
LedgerStep == WriterLedger!Next \/ UNCHANGED WriterLedger!vars

LEMMA StutterIsLedgerStep ==
    ASSUME UNCHANGED <<wr, writer>> PROVE LedgerStep
BY DEF LedgerStep, WriterLedger!vars

LEMMA WrlockIsLedgerStep ==
    ASSUME IInv, NEW t \in Threads, NEW o \in Locks, NEW r,
           RealWrlock(t, o, r)
    PROVE  LedgerStep
<1>1. CASE /\ wr[o] = NULL /\ wr' = [wr EXCEPT ![o] = t]
           /\ UNCHANGED rd /\ Done(t, 0)
  <2>1. WriterLedger!Take(t, o)
    BY <1>1 DEF WriterLedger!Take, Done, recorder
  <2> QED
    BY <2>1 DEF LedgerStep, WriterLedger!Next
<1>2. CASE UNCHANGED real /\ Done(t, r)
  BY <1>2, StutterIsLedgerStep DEF Done, real, recorder
<1> QED
  BY <1>1, <1>2 DEF RealWrlock

LEMMA WrwaitIsLedgerStep ==
    ASSUME IInv, NEW t \in Threads, NEW o \in Locks, NEW f \in Writing,
           At(t, "done", f, o), EndWrwait(t)
    PROVE  LedgerStep
<1>1. CASE locker[t] = NULL \/ rc[t] # 0
  BY <1>1, StutterIsLedgerStep DEF EndWrwait, end_rwlock_wrwait, real
<1>2. CASE locker[t] # NULL /\ rc[t] = 0
  <2>1. writer' = [writer EXCEPT ![o] = t] /\ wr[o] = t
    BY <1>2 DEF IInv, CallInv, AcquireInv, At, EndWrwait, end_rwlock_wrwait,
                Reading, Writing
  <2>2. WriterLedger!Record(t, o)
    BY <2>1 DEF WriterLedger!Record, EndWrwait, real
  <2> QED
    BY <2>2 DEF LedgerStep, WriterLedger!Next
<1> QED
  BY <1>1, <1>2

LEMMA UnlockIsLedgerStep ==
    ASSUME IInv, NEW t \in Threads, NEW o \in Locks, Unlock(t, o)
    PROVE  LedgerStep
<1> USE RwlockAssumption DEF IInv
<1>1. CASE /\ Idle(t) /\ Holds(t, o)
           /\ IF Instrumented(o)
              THEN writer' = unlock_rwlock_writer(writer, m_psi[o])
              ELSE UNCHANGED writer
           /\ Enter(t, "unlock", o, NULL)
  <2>1. writer' = [writer EXCEPT ![o] = NULL]
    BY <1>1 DEF Instrumented, unlock_rwlock_writer, LockInv, TypeOK
  <2>2. CASE wr[o] = t
    <3>1. WriterLedger!Erase(t, o)
      BY <1>1, <2>1, <2>2 DEF WriterLedger!Erase, Enter, real
    <3> QED
      BY <3>1 DEF LedgerStep, WriterLedger!Next
  <2>3. CASE wr[o] # t
    <3>1. writer[o] = NULL
      BY <1>1, <2>3 DEF Holds, LockInv, TypeOK
    <3>2. UNCHANGED writer
      BY <2>1, <3>1 DEF TypeOK
    <3> QED
      BY <1>1, <3>2, StutterIsLedgerStep DEF Enter, real
  <2> QED
    BY <2>2, <2>3
<1>2. CASE /\ At(t, "entered", "unlock", o)
           /\ RealUnlock(t, o) /\ UNCHANGED recorder /\ Return(t)
  <2>1. CASE wr[o] = t
    <3>1. writer[o] # t
      BY <1>2 DEF CallInv, UnlockInv, At
    <3>2. WriterLedger!Release(t, o)
      BY <1>2, <2>1, <3>1 DEF WriterLedger!Release, RealUnlock, recorder
    <3> QED
      BY <3>2 DEF LedgerStep, WriterLedger!Next
  <2>2. CASE wr[o] # t
    <3>1. UNCHANGED wr
      BY <1>2, <2>2 DEF RealUnlock, TypeOK
    <3> QED
      BY <1>2, <3>1, StutterIsLedgerStep DEF recorder
  <2> QED
    BY <2>1, <2>2
<1> QED
  BY <1>1, <1>2 DEF Unlock

LEMMA DestroyIsLedgerStep ==
    ASSUME IInv, NEW t \in Threads, NEW o \in Locks, DestroyLock(t, o)
    PROVE  LedgerStep
<1>1. writer' = [writer EXCEPT ![o] = NULL]
  BY DEF IInv, TypeOK, LockInv, DestroyLock, Instrumented
<1>2. WriterLedger!Destroy(o)
  BY <1>1 DEF WriterLedger!Destroy, DestroyLock, Abandoned, real
<1> QED
  BY <1>2 DEF LedgerStep, WriterLedger!Next
-----------------------------------------------------------------------------
(* Every step keeps the invariant and is a step of the ledger.  Locking    *)
(* for reading, in its three forms:                                        *)
StepGoal == IInv' /\ (CountInv => CountInv') /\ LedgerStep

LEMMA EnterLockStep ==
    ASSUME IInv, NEW t \in Threads, NEW o \in Locks,
           NEW f \in Reading \cup Writing, NEW op \in PSI_rwlock_operation,
           EnterLock(t, f, o, op)
    PROVE  StepGoal
<1>1. IInv'
  BY LockEnters
<1>2. ASSUME NEW k \in Locks PROVE Counted(k)' = Counted(k)
  BY <1>2, RwlockAssumption
    DEF Counted, EnterLock, Enter, Holds, real, IInv, TypeOK, CallInv,
        StageInv, Idle
<1>3. \A k \in Locks : readers'[k] <= readers[k]
  BY DEF EnterLock, IInv, TypeOK
<1> QED
  BY <1>1, <1>2, <1>3, CountKept, StutterIsLedgerStep
    DEF StepGoal, EnterLock, Enter, real

LEMMA ReadStep ==
    ASSUME IInv, NEW t \in Threads, NEW o \in Locks, NEW f \in Reading,
           NEW r \in {EBUSY, EINVAL},
           \/ At(t, "entered", f, o) /\ RealRdlock(t, o, r)
           \/ At(t, "done", f, o) /\ EndRdwait(t)
    PROVE  StepGoal
<1>1. CASE At(t, "entered", f, o) /\ RealRdlock(t, o, r)
  <2>1. IInv'
    BY <1>1, RdlockDone
  <2>2. ASSUME NEW k \in Locks PROVE Counted(k)' = Counted(k)
    BY <1>1, <2>2 DEF Counted, RealRdlock, Done, real, At, IInv, TypeOK
  <2>3. \A k \in Locks : readers'[k] <= readers[k]
    BY <1>1 DEF RealRdlock, Done, recorder, IInv, TypeOK
  <2>4. UNCHANGED <<wr, writer>>
    BY <1>1 DEF RealRdlock, Done, recorder, real
  <2> QED
    BY <2>1, <2>2, <2>3, <2>4, CountKept, StutterIsLedgerStep DEF StepGoal
<1>2. CASE At(t, "done", f, o) /\ EndRdwait(t)
  <2>1. IInv'
    BY <1>2, RdwaitEnds
  <2> QED
    BY <1>2, <2>1, RdwaitCounts, StutterIsLedgerStep
      DEF StepGoal, EndRdwait, real
<1> QED
  BY <1>1, <1>2

(* Locking for writing, in its three forms:                                *)
LEMMA WriteStep ==
    ASSUME IInv, NEW t \in Threads, NEW o \in Locks, NEW f \in Writing,
           NEW r \in {EBUSY, EINVAL},
           \/ At(t, "entered", f, o) /\ RealWrlock(t, o, r)
           \/ At(t, "done", f, o) /\ EndWrwait(t)
    PROVE  StepGoal
<1>1. CASE At(t, "entered", f, o) /\ RealWrlock(t, o, r)
  <2>1. IInv'
    BY <1>1, WrlockDone
  <2>2. ASSUME NEW k \in Locks PROVE Counted(k)' = Counted(k)
    BY <1>1, <2>2 DEF Counted, RealWrlock, Done, real
  <2>3. \A k \in Locks : readers'[k] <= readers[k]
    BY <1>1 DEF RealWrlock, Done, recorder, IInv, TypeOK
  <2> QED
    BY <1>1, <2>1, <2>2, <2>3, CountKept, WrlockIsLedgerStep DEF StepGoal
<1>2. CASE At(t, "done", f, o) /\ EndWrwait(t)
  <2>1. IInv'
    BY <1>2, WrwaitEnds
  <2>2. t \notin rd[o]
    BY <1>2, RwlockAssumption DEF IInv, TypeOK, CallInv, AcquireInv, Holds, At,
                LockInv, Reading, Writing
  <2>3. ASSUME NEW k \in Locks PROVE Counted(k)' = Counted(k)
    BY <1>2, <2>2, <2>3, RwlockAssumption
      DEF Counted, EndWrwait, real, Return, IInv, TypeOK, At
  <2>4. \A k \in Locks : readers'[k] <= readers[k]
    BY <1>2 DEF EndWrwait, IInv, TypeOK
  <2> QED
    BY <1>2, <2>1, <2>3, <2>4, CountKept, WrwaitIsLedgerStep DEF StepGoal
<1> QED
  BY <1>1, <1>2

LEMMA UnlockStep ==
    ASSUME IInv, NEW t \in Threads, NEW o \in Locks, Unlock(t, o)
    PROVE  StepGoal
<1>1. IInv'
  BY UnlockEnters, UnlockReturns DEF Unlock
<1>2. ASSUME CountInv, /\ At(t, "entered", "unlock", o) /\ RealUnlock(t, o)
                       /\ UNCHANGED recorder /\ Return(t)
      PROVE  CountInv'
  <2>1. ASSUME NEW k \in Locks PROVE Counted(k)' = Counted(k)
    BY <1>2, <2>1, RwlockAssumption DEF Counted, RealUnlock, Return, At, IInv, TypeOK
  <2>2. \A k \in Locks : readers'[k] <= readers[k]
    BY <1>2 DEF recorder, IInv, TypeOK
  <2> QED
    BY <1>1, <1>2, <2>1, <2>2, CountKept
<1> QED
  BY <1>1, <1>2, UnlockCounts, UnlockIsLedgerStep DEF StepGoal, Unlock

(* Steps that leave calls and the real locks alone.                        *)
LEMMA QuietStep ==
    ASSUME IInv, IInv', UNCHANGED <<real, call>>,
           \A o \in Locks : readers'[o] <= readers[o]
    PROVE  CountInv => CountInv'
<1>1. \A k \in Locks : Counted(k)' = Counted(k)
  BY DEF Counted, real, call
<1> QED
  BY <1>1, CountKept

LEMMA InitStep ==
    ASSUME IInv, NEW t \in Threads, NEW o \in Locks, InitLock(t, o)
    PROVE  StepGoal
<1>1. IInv'
  BY LockInitialised
<1>2. \A k \in Locks : readers'[k] <= readers[k]
  BY DEF InitLock, recorder, IInv, TypeOK
<1> QED
  BY <1>1, <1>2, QuietStep, StutterIsLedgerStep
    DEF StepGoal, InitLock, recorder, real

LEMMA DestroyStep ==
    ASSUME IInv, NEW t \in Threads, NEW o \in Locks, DestroyLock(t, o)
    PROVE  StepGoal
<1>1. IInv'
  BY LockDestroyed
<1>2. \A k \in Locks : readers'[k] <= readers[k]
  BY DEF DestroyLock, IInv, TypeOK
<1> QED
  BY <1>1, <1>2, QuietStep, DestroyIsLedgerStep DEF StepGoal, DestroyLock

LEMMA RwlockCallsStep ==
    ASSUME IInv, NEW t \in Threads, RwlockCalls(t)
    PROVE  StepGoal
<1>1. PICK o \in Rwlocks :
        \/ inline_mysql_rwlock_init(t, o)
        \/ inline_mysql_rwlock_destroy(t, o)
        \/ inline_mysql_rwlock_rdlock(t, o)
        \/ inline_mysql_rwlock_wrlock(t, o)
        \/ inline_mysql_rwlock_tryrdlock(t, o)
        \/ inline_mysql_rwlock_trywrlock(t, o)
        \/ inline_mysql_rwlock_unlock(t, o)
  BY DEF RwlockCalls
<1>2. o \in Locks /\ EBUSY \in {EBUSY, EINVAL} /\ EINVAL \in {EBUSY, EINVAL}
  BY DEF Locks
<1>3. CASE inline_mysql_rwlock_init(t, o) \/ inline_mysql_rwlock_destroy(t, o)
  BY <1>2, <1>3, InitStep, DestroyStep
    DEF inline_mysql_rwlock_init, inline_mysql_rwlock_destroy
<1>4. CASE inline_mysql_rwlock_rdlock(t, o)
  <2>1. /\ "rdlock" \in Reading /\ "rdlock" \in Reading \cup Writing
        /\ "PSI_RWLOCK_READLOCK" \in PSI_rwlock_operation
    BY DEF Reading, PSI_rwlock_operation
  <2> QED
    BY <1>2, <1>4, <2>1, EnterLockStep, ReadStep
      DEF inline_mysql_rwlock_rdlock
<1>5. CASE inline_mysql_rwlock_wrlock(t, o)
  <2>1. /\ "wrlock" \in Writing /\ "wrlock" \in Reading \cup Writing
        /\ "PSI_RWLOCK_WRITELOCK" \in PSI_rwlock_operation
    BY DEF Writing, PSI_rwlock_operation
  <2> QED
    BY <1>2, <1>5, <2>1, EnterLockStep, WriteStep
      DEF inline_mysql_rwlock_wrlock
<1>6. CASE inline_mysql_rwlock_tryrdlock(t, o)
  <2>1. /\ "tryrdlock" \in Reading /\ "tryrdlock" \in Reading \cup Writing
        /\ "PSI_RWLOCK_TRYREADLOCK" \in PSI_rwlock_operation
    BY DEF Reading, PSI_rwlock_operation
  <2> QED
    BY <1>2, <1>6, <2>1, EnterLockStep, ReadStep
      DEF inline_mysql_rwlock_tryrdlock
<1>7. CASE inline_mysql_rwlock_trywrlock(t, o)
  <2>1. /\ "trywrlock" \in Writing /\ "trywrlock" \in Reading \cup Writing
        /\ "PSI_RWLOCK_TRYWRITELOCK" \in PSI_rwlock_operation
    BY DEF Writing, PSI_rwlock_operation
  <2> QED
    BY <1>2, <1>7, <2>1, EnterLockStep, WriteStep
      DEF inline_mysql_rwlock_trywrlock
<1>8. CASE inline_mysql_rwlock_unlock(t, o)
  BY <1>2, <1>8, UnlockStep DEF inline_mysql_rwlock_unlock
<1> QED
  BY <1>1, <1>3, <1>4, <1>5, <1>6, <1>7, <1>8

LEMMA PrlockCallsStep ==
    ASSUME IInv, NEW t \in Threads, PrlockCalls(t)
    PROVE  StepGoal
<1>1. PICK o \in Prlocks :
        \/ inline_mysql_prlock_init(t, o)
        \/ inline_mysql_prlock_destroy(t, o)
        \/ inline_mysql_prlock_rdlock(t, o)
        \/ inline_mysql_prlock_wrlock(t, o)
        \/ inline_mysql_prlock_unlock(t, o)
  BY DEF PrlockCalls
<1>2. o \in Locks /\ EINVAL \in {EBUSY, EINVAL}
  BY DEF Locks
<1>3. CASE inline_mysql_prlock_init(t, o) \/ inline_mysql_prlock_destroy(t, o)
  BY <1>2, <1>3, InitStep, DestroyStep
    DEF inline_mysql_prlock_init, inline_mysql_prlock_destroy
<1>4. CASE inline_mysql_prlock_rdlock(t, o)
  <2>1. /\ "pr_rdlock" \in Reading /\ "pr_rdlock" \in Reading \cup Writing
        /\ "PSI_RWLOCK_READLOCK" \in PSI_rwlock_operation
    BY DEF Reading, PSI_rwlock_operation
  <2> QED
    BY <1>2, <1>4, <2>1, EnterLockStep, ReadStep
      DEF inline_mysql_prlock_rdlock
<1>5. CASE inline_mysql_prlock_wrlock(t, o)
  <2>1. /\ "pr_wrlock" \in Writing /\ "pr_wrlock" \in Reading \cup Writing
        /\ "PSI_RWLOCK_WRITELOCK" \in PSI_rwlock_operation
    BY DEF Writing, PSI_rwlock_operation
  <2> QED
    BY <1>2, <1>5, <2>1, EnterLockStep, WriteStep
      DEF inline_mysql_prlock_wrlock
<1>6. CASE inline_mysql_prlock_unlock(t, o)
  BY <1>2, <1>6, UnlockStep DEF inline_mysql_prlock_unlock
<1> QED
  BY <1>1, <1>3, <1>4, <1>5, <1>6

LEMMA NextStep == IInv /\ [Next]_vars => StepGoal
<1> SUFFICES ASSUME IInv, [Next]_vars PROVE StepGoal
  OBVIOUS
<1>1. CASE AttachInterface \/ RegisterInstruments
  <2>1. IInv'
    BY <1>1, InterfaceAttached, InstrumentRegistered, RwlockAssumption
  <2>2. UNCHANGED <<recorder, real, call>>
    BY <1>1 DEF AttachInterface, RegisterInstruments
  <2>3. \A k \in Locks : readers'[k] <= readers[k]
    BY <2>2 DEF recorder, IInv, TypeOK
  <2> QED
    BY <2>1, <2>2, <2>3, QuietStep, StutterIsLedgerStep
      DEF StepGoal, recorder, real
<1>2. CASE UNCHANGED vars
  <2>1. IInv'
    BY <1>2 DEF vars, setup, recorder, objects, real, call, IInv, TypeOK,
           LockInv, CallInv, StageInv, AcquireInv, UnlockInv, Holds
  <2>2. UNCHANGED <<recorder, real, call>>
    BY <1>2 DEF vars
  <2>3. \A k \in Locks : readers'[k] <= readers[k]
    BY <2>2 DEF recorder, IInv, TypeOK
  <2> QED
    BY <2>1, <2>2, <2>3, QuietStep, StutterIsLedgerStep
      DEF StepGoal, recorder, real
<1> QED
  BY <1>1, <1>2, RwlockCallsStep, PrlockCallsStep DEF Next

LEMMA InitIInv == Init => IInv /\ CountInv /\ WriterLedger!Init
<1> SUFFICES ASSUME Init PROVE IInv /\ CountInv /\ WriterLedger!Init
  OBVIOUS
<1> USE RwlockAssumption DEF Init
<1>1. TypeOK
  BY DEF TypeOK, PSI_key
<1>2. LockInv
  BY DEF LockInv
<1>3. \A t \in Threads : CallInv(t)
  BY DEF CallInv, StageInv, AcquireInv, UnlockInv, Reading, Writing
<1>4. CountInv
  <2> SUFFICES ASSUME NEW o \in Locks
               PROVE  readers[o] <= Cardinality(Counted(o))
    BY DEF CountInv
  <2>1. Counted(o) = {}
    BY DEF Counted
  <2> QED
    BY <2>1, FS_EmptySet
<1>5. WriterLedger!Init
  BY DEF WriterLedger!Init
<1> QED
  BY <1>1, <1>2, <1>3, <1>4, <1>5 DEF IInv

LEMMA IInvHolds == Spec => [](IInv /\ CountInv)
<1>1. IInv /\ CountInv /\ [Next]_vars => IInv' /\ CountInv'
  BY NextStep DEF StepGoal
<1> QED
  BY <1>1, InitIInv, PTL DEF Spec
-----------------------------------------------------------------------------
(* Every variable keeps its type, for any finite set of threads.           *)
THEOREM RwlockTypeCorrect == Spec => []TypeOK
<1>1. IInv => TypeOK
  BY DEF IInv
<1> QED
  BY <1>1, IInvHolds, PTL

(* The recorder never counts more readers than there are, however many     *)
(* readers with and without instrumentation come and go.                   *)
THEOREM ReadersNotOvercountedHolds == Spec => []ReadersNotOvercounted
<1>1. IInv /\ CountInv => ReadersNotOvercounted
  <2> SUFFICES ASSUME IInv, CountInv, NEW o \in Locks
               PROVE  readers[o] <= Cardinality(rd[o])
    BY DEF ReadersNotOvercounted
  <2>1. IsFiniteSet(rd[o]) /\ Counted(o) \subseteq rd[o]
    BY RwlockAssumption, FS_Subset DEF IInv, TypeOK, Counted
  <2>2. Cardinality(Counted(o)) <= Cardinality(rd[o])
    BY <2>1, FS_Subset
  <2>3. Cardinality(Counted(o)) \in Nat /\ Cardinality(rd[o]) \in Nat
    BY <2>1, CountedFinite, FS_CardinalityType
  <2> QED
    BY <2>2, <2>3 DEF CountInv, IInv, TypeOK
<1> QED
  BY <1>1, IInvHolds, PTL

(* A recorded writer is the real writer and excludes recorded readers.     *)
THEOREM WriterExcludesReadersHolds == Spec => []WriterExcludesReaders
<1>1. IInv /\ CountInv => WriterExcludesReaders
  <2> SUFFICES ASSUME IInv, CountInv, NEW o \in Locks, writer[o] # NULL
               PROVE  wr[o] = writer[o] /\ readers[o] = 0
    BY DEF WriterExcludesReaders
  <2>1. wr[o] = writer[o] /\ rd[o] = {}
    BY DEF IInv, LockInv
  <2>2. Counted(o) = {}
    BY <2>1 DEF Counted
  <2>3. readers[o] <= 0 /\ readers[o] \in Nat
    BY <2>2, FS_EmptySet DEF CountInv, IInv, TypeOK
  <2> QED
    BY <2>1, <2>3
<1> QED
  BY <1>1, IInvHolds, PTL

(* Every wait the recorder sees started is ended by the same call.         *)
THEOREM RwlockWaitsMatchCalls == Spec => []WaitsMatchCalls
<1>1. IInv => WaitsMatchCalls
  BY DEF WaitsMatchCalls, IInv, TypeOK, CallInv, StageInv, AcquireInv,
         UnlockInv
<1> QED
  BY <1>1, IInvHolds, PTL

(* No wrapper is left with a destroyed lock to touch.                      *)
THEOREM RwlockNoUseAfterDestroy == Spec => []NoUseAfterDestroy
<1>1. IInv => NoUseAfterDestroy
  BY DEF NoUseAfterDestroy, IInv, CallInv, StageInv
<1> QED
  BY <1>1, IInvHolds, PTL

(* The writer's side of the wrappers implements the ledger.                *)
THEOREM WriterLedgerImplemented == Spec => WriterLedgerSpec
<1>1. IInv /\ [Next]_vars => [WriterLedger!Next]_(WriterLedger!vars)
  BY NextStep DEF StepGoal, LedgerStep
<1>2. Init => WriterLedger!Init
  BY InitIInv
<1> QED
  BY <1>1, <1>2, IInvHolds, PTL DEF Spec, WriterLedgerSpec, WriterLedger!Spec
=============================================================================
