---------------------------- MODULE ThreadConfig ----------------------------
(* How my_pthread.h makes one thread interface out of the many there are:  *)
(* the preprocessor reads its blocks from top to bottom, each replacing    *)
(* calls the platform lacks, or wrapping calls that earlier blocks may     *)
(* have replaced already.  A macro is modelled by what its expansion       *)
(* calls; a prototype of a function of the program's own counts as a       *)
(* definition.  Every combination of settings is another program, and few  *)
(* of them are ever built by those who change the header.                  *)
EXTENDS Naturals, FiniteSets, TLC

CONSTANTS
    Platforms,      \* the platforms looked at, among the DOMAIN of Settings
    Topics          \* records of settings: those a topic varies, and those
                    \* that are fixed while it does

VARIABLES
    platform,
    settings,       \* what configure has found, defined by my_config.h
    macros,         \* name -> what its expansion calls
    block           \* the block of the header that is read next, or 0 once
                    \* the compiler has given up

configuration == <<platform, settings, macros, block>>

(* What marks a platform.                                                  *)
Settings == [
    win |-> {"__WIN__"},
    posix |-> {},
    rts |-> {"PTHREAD_SCOPE_GLOBAL"},
    cthreads |-> {"HAVE_CTHREADS_WRAPPER", "HAVE_PTHREAD_CONDATTR_CREATE"},
    darwin5 |-> {"HAVE_DARWIN5_THREADS"},
    dce |-> {"HAVE_PTHREAD_ATTR_CREATE"},
    hpux10 |-> {"HPUX10", "HAVE_PTHREAD_CONDATTR_CREATE"},
    dec |-> {"HAVE_DEC_3_2_THREADS"}]

ASSUME PlatformAssumption == Platforms \subseteq DOMAIN Settings

Defined(name) == name \in DOMAIN macros
Define(names, body) == [n \in names |-> body]
Nothing == Define({}, "")
When(cond, definitions) == IF cond THEN definitions ELSE Nothing

(* A block is read: it undefines names, then defines others.  A name that  *)
(* is defined otherwise already stops some compilers, and is a warning to  *)
(* others, for which the last definition holds.                            *)
Read(n, undefined, definitions) ==
    LET kept == [m \in DOMAIN macros \ undefined |-> macros[m]]
        redefined == {m \in DOMAIN kept \cap DOMAIN definitions :
                        kept[m] # definitions[m]}
    IN /\ block = n
       /\ \/ block' = n + 1 /\ macros' = definitions @@ kept
          \/ redefined # {} /\ block' = 0 /\ UNCHANGED macros
       /\ UNCHANGED <<platform, settings>>

(* Settings no platform has are left out: the spinning mutexes wrap        *)
(* functions the platform must have; Windows has none of the interfaces of *)
(* Unix; DCE threads come without sigwait; and there is some way to yield  *)
(* and to mask signals.                                                    *)
Sound(p, s) ==
    /\ p \in {"win", "cthreads"} => "MY_PTHREAD_FASTMUTEX" \notin s
    /\ p = "win" => s \subseteq {"SAFE_MUTEX"}
    /\ p = "dce" => "HAVE_SIGWAIT" \notin s
    /\ p \in {"posix", "hpux10"} =>
          s \cap {"HAVE_PTHREAD_SIGMASK", "HAVE_SIGTHREADMASK"} # {}
    /\ p # "win" => s \cap {"HAVE_PTHREAD_YIELD_ZERO_ARG",
          "HAVE_PTHREAD_YIELD_ONE_ARG", "HAVE_SCHED_YIELD",
          "HAVE_PTHREAD_YIELD_NP", "HAVE_THR_YIELD"} # {}
ConfigInit ==
    /\ platform \in Platforms
    /\ \E topic \in Topics : \E s \in SUBSET topic.vary :
          settings = s \cup IF platform = "win" THEN {} ELSE topic.fixed
    /\ Sound(platform, settings)
    /\ macros = Define(settings \cup Settings[platform], "1")
    /\ block = 1
-----------------------------------------------------------------------------
Windows == Defined("__WIN__")

(* Of my_global.h: must a handler install itself again?                    *)
signal_handlers == Read(1, {}, When(
    ~Defined("HAVE_BSD_SIGNALS") /\ ~Defined("HAVE_SIGACTION"),
    "SIGNAL_HANDLER_RESET_ON_DELIVERY" :> ""))

WindowsFunctions ==
    Define({"win_pthread_mutex_trylock", "pthread_create",
            "pthread_cond_init", "pthread_cond_wait",
            "pthread_cond_timedwait", "pthread_cond_signal",
            "pthread_cond_broadcast", "pthread_cond_destroy",
            "pthread_attr_init", "pthread_attr_setstacksize",
            "pthread_attr_destroy", "my_pthread_once"}, "own")
WindowsCalls ==
    "pthread_self" :> "GetCurrentThreadId" @@
    "HAVE_PTHREAD_ATTR_SETSTACKSIZE" :> "1" @@
    "pthread_key_create" :> "TlsAlloc" @@
    "pthread_key_delete" :> "TlsFree" @@
    Define({"my_pthread_setspecific_ptr", "pthread_setspecific"},
           "TlsSetValue") @@
    Define({"pthread_getspecific", "my_pthread_getspecific",
            "my_pthread_getspecific_ptr"}, "TlsGetValue") @@
    "pthread_equal" :> "" @@
    "pthread_mutex_init" :> "InitializeCriticalSection" @@
    "pthread_mutex_lock" :> "EnterCriticalSection" @@
    "pthread_mutex_trylock" :> "win_pthread_mutex_trylock" @@
    "pthread_mutex_unlock" :> "LeaveCriticalSection" @@
    "pthread_mutex_destroy" :> "DeleteCriticalSection" @@
    Define({"pthread_kill", "pthread_attr_setdetachstate"}, "pthread_dummy") @@
    Define({"pthread_attr_setscope", "pthread_detach_this_thread",
            "pthread_condattr_init", "pthread_condattr_destroy"}, "") @@
    "pthread_yield" :> "SwitchToThread" @@
    "my_sigset" :> "signal"
windows_threads ==
    /\ Windows
    /\ Read(2, {"SAFE_MUTEX"}, WindowsFunctions @@ WindowsCalls)

normal_threads ==
    /\ ~Windows
    /\ Read(2, {},
         "my_pthread_getspecific_ptr" :> "my_pthread_getspecific" @@
         "my_pthread_setspecific_ptr" :> "pthread_setspecific" @@
         "pthread_detach_this_thread" :> "" @@
         "my_pthread_once" :> "pthread_once")

(* What follows up to attr_create is read on Unix only.                    *)
rts_threads == Read(3, {}, When(
    /\ ~Windows /\ Defined("PTHREAD_SCOPE_GLOBAL")
    /\ ~Defined("PTHREAD_SCOPE_SYSTEM"),
    "HAVE_rts_threads" :> "" @@ "USE_ALARM_THREAD" :> "" @@
    "pthread_sigmask" :> "sigprocmask"))

my_sigwait == Read(4, {}, When(~Windows,
    "my_sigwait" :> IF Defined("HAVE_NONPOSIX_SIGWAIT") THEN "own"
                                                        ELSE "sigwait"))

nonposix_init == Read(5, {},
    When(~Windows /\ Defined("HAVE_NONPOSIX_PTHREAD_MUTEX_INIT"),
         When(~Defined("SAFE_MUTEX"),
              "pthread_mutex_init" :> "my_pthread_mutex_init" @@
              "my_pthread_mutex_init" :> "own") @@
         "pthread_cond_init" :> "my_pthread_cond_init" @@
         "my_pthread_cond_init" :> "own"))

sigthreadmask == Read(6, {}, When(
    ~Windows /\ Defined("HAVE_SIGTHREADMASK") /\ ~Defined("HAVE_PTHREAD_SIGMASK"),
    "pthread_sigmask" :> "sigthreadmask"))

own_sigwait == Read(7, {}, When(
    ~Windows /\ ~(\E n \in {"HAVE_SIGWAIT", "HAVE_rts_threads", "sigwait",
                            "alpha_linux_port", "HAVE_NONPOSIX_SIGWAIT",
                            "HAVE_DEC_3_2_THREADS", "_AIX"} : Defined(n)),
    "sigwait" :> "own"))

my_sigset == Read(8, {}, When(~Windows /\ ~Defined("my_sigset"),
    "my_sigset" :> CASE Defined("HAVE_SIGACTION") -> "sigaction"
                     [] ~Defined("HAVE_SIGACTION") /\ Defined("HAVE_SIGSET")
                            -> "sigset"
                     [] OTHER -> "signal"))

attr_setscope == Read(9, {}, When(
    /\ ~Windows
    /\ \/ ~Defined("HAVE_PTHREAD_ATTR_SETSCOPE")
       \/ Defined("HAVE_DEC_3_2_THREADS"),
    "pthread_attr_setscope" :> ""))

broken_timedwait == Read(10, {}, When(
    /\ ~Windows /\ Defined("HAVE_BROKEN_PTHREAD_COND_TIMEDWAIT")
    /\ ~Defined("SAFE_MUTEX"),
    "pthread_cond_timedwait" :> "my_pthread_cond_timedwait" @@
    "my_pthread_cond_timedwait" :> "own"))

my_pthread_getspecific == Read(11, {}, When(~Windows,
    IF ~Defined("HAVE_NONPOSIX_PTHREAD_GETSPECIFIC")
    THEN "my_pthread_getspecific" :> "pthread_getspecific"
    ELSE "my_pthread_getspecific" :> "my_pthread_getspecific_imp" @@
         "my_pthread_getspecific_imp" :> "own"))

condattr_create == Read(12, {}, When(
    ~Windows /\ Defined("HAVE_PTHREAD_CONDATTR_CREATE"),
    "pthread_condattr_init" :> "pthread_condattr_create" @@
    "pthread_condattr_destroy" :> "pthread_condattr_delete"))

key_delete == Read(13, {}, When(
    /\ ~Windows /\ ~Defined("HAVE_PTHREAD_KEY_DELETE")
    /\ ~Defined("pthread_key_delete"),
    "pthread_key_delete" :> "pthread_dummy"))

(* What a block undefines, if it is read.                                  *)
Undefine(cond, names) == IF cond THEN names ELSE {}

cthreads_wrapper == Read(14,
    Undefine(~Windows /\ Defined("HAVE_CTHREADS_WRAPPER"),
             {"pthread_detach_this_thread"}),
    When(~Windows /\ Defined("HAVE_CTHREADS_WRAPPER"),
         Define({"pthread_cond_destroy", "pthread_mutex_destroy",
                 "pthread_attr_delete", "pthread_condattr_delete",
                 "pthread_attr_setstacksize", "pthread_attr_setdetachstate",
                 "pthread_kill"}, "pthread_dummy") @@
         "pthread_equal" :> "" @@
         "pthread_cond_timedwait" :> "pthread_cond_wait" @@
         "pthread_attr_init" :> "pthread_attr_create" @@
         "pthread_attr_destroy" :> "pthread_attr_delete" @@
         "pthread_create" :> "pthread_create" @@
         "pthread_sigmask" :> "sigprocmask" @@
         "pthread_detach_this_thread" :> "pthread_detach"))

darwin5_threads == Read(15,
    Undefine(~Windows /\ Defined("HAVE_DARWIN5_THREADS"),
             {"pthread_detach_this_thread"}),
    When(~Windows /\ Defined("HAVE_DARWIN5_THREADS"),
    "pthread_sigmask" :> "sigprocmask" @@
    Define({"pthread_kill", "pthread_condattr_init",
            "pthread_condattr_destroy"}, "pthread_dummy") @@
    "pthread_detach_this_thread" :> "pthread_detach"))

AttrCreate ==
    /\ \/ Defined("HAVE_PTHREAD_ATTR_CREATE") /\ ~Defined("HAVE_SIGWAIT")
       \/ Defined("HAVE_DEC_3_2_THREADS")
    /\ ~Defined("HAVE_CTHREADS_WRAPPER")
attr_create == Read(16,
    Undefine(~Windows /\ AttrCreate, {"pthread_detach_this_thread"}),
    When(~Windows,
         IF AttrCreate
         THEN "pthread_key_create" :> "pthread_keycreate" @@
              "pthread_attr_init" :> "pthread_attr_create" @@
              "pthread_attr_destroy" :> "pthread_attr_delete" @@
              "pthread_create" :> "pthread_create" @@
              When(~Defined("pthread_sigmask"),
                   "pthread_sigmask" :> "sigprocmask") @@
              Define({"pthread_kill", "pthread_attr_setdetachstate"},
                     "pthread_dummy") @@
              "pthread_detach_this_thread" :> "pthread_detach"
         ELSE "HAVE_PTHREAD_KILL" :> ""))

Remaps == ~Defined("DONT_REMAP_PTHREAD_FUNCTIONS")
hpux10 == Read(17,
    Undefine(Defined("HPUX10") /\ Remaps, {"pthread_cond_timedwait"}),
    When(Defined("HPUX10"),
         When(Remaps,
              "pthread_cond_timedwait" :> "my_pthread_cond_timedwait" @@
              "my_pthread_cond_timedwait" :> "own") @@
         "pthread_attr_getstacksize" :> "my_pthread_attr_getstacksize" @@
         "my_pthread_attr_getstacksize" :> "own"))

posix4a_trylock ==
    LET remapped == Defined("HAVE_POSIX1003_4a_MUTEX") /\ Remaps
    IN Read(18, Undefine(remapped, {"pthread_mutex_trylock"}), When(remapped,
            "pthread_mutex_trylock" :> "my_pthread_mutex_trylock" @@
            "my_pthread_mutex_trylock" :> "own"))

(* Where pthread_yield takes an argument the header leaves it as it is.    *)
pthread_yield == Read(19, {}, When(
    /\ ~Defined("HAVE_PTHREAD_YIELD_ONE_ARG")
    /\ ~Defined("HAVE_PTHREAD_YIELD_ZERO_ARG"),
    CASE Defined("HAVE_SCHED_YIELD") -> "pthread_yield" :> "sched_yield"
      [] ~Defined("HAVE_SCHED_YIELD") /\ Defined("HAVE_PTHREAD_YIELD_NP") ->
            "pthread_yield" :> "pthread_yield_np"
      [] OTHER -> When(Defined("HAVE_THR_YIELD"),
                       "pthread_yield" :> "thr_yield")))
-----------------------------------------------------------------------------
(* The two layers above the mutexes of the platform change their type, and *)
(* with it every call that takes one.                                      *)
MutexCalls == {"pthread_mutex_init", "pthread_mutex_lock",
    "pthread_mutex_unlock", "pthread_mutex_destroy", "pthread_cond_wait",
    "pthread_cond_timedwait", "pthread_mutex_trylock"}

SafeCalls ==
    "pthread_mutex_init" :> "safe_mutex_init" @@
    Define({"pthread_mutex_lock", "pthread_mutex_trylock"},
           "safe_mutex_lock") @@
    "pthread_mutex_unlock" :> "safe_mutex_unlock" @@
    "pthread_mutex_destroy" :> "safe_mutex_destroy" @@
    "pthread_cond_wait" :> "safe_cond_wait" @@
    "pthread_cond_timedwait" :> "safe_cond_timedwait" @@
    "pthread_mutex_t" :> "safe_mutex_t"
safe_mutexes == Read(20, Undefine(Defined("SAFE_MUTEX"), MutexCalls),
    When(Defined("SAFE_MUTEX"), SafeCalls))

(* A wrapper that passes the mutex inside on calls the platform's function *)
(* of its own name: inside its own expansion the name is no macro.         *)
FastCalls ==
    "pthread_mutex_init" :> "my_pthread_fastmutex_init" @@
    "pthread_mutex_lock" :> "my_pthread_fastmutex_lock" @@
    [c \in {"pthread_mutex_unlock", "pthread_mutex_destroy",
            "pthread_cond_wait", "pthread_cond_timedwait",
            "pthread_mutex_trylock"} |-> c] @@
    "pthread_mutex_t" :> "my_pthread_fastmutex_t"
(* mutant: the timed wait is not wrapped.                                  *)
MY_PTHREAD_FASTMUTEX_NoTimedwait ==
    LET fast == Defined("MY_PTHREAD_FASTMUTEX") /\ ~Defined("SAFE_MUTEX")
    IN Read(21, Undefine(fast, MutexCalls), When(fast,
            [c \in DOMAIN FastCalls \ {"pthread_cond_timedwait"} |->
                FastCalls[c]]))
MY_PTHREAD_FASTMUTEX ==
    LET fast == Defined("MY_PTHREAD_FASTMUTEX") /\ ~Defined("SAFE_MUTEX")
    IN Read(21, Undefine(fast, MutexCalls), When(fast, FastCalls))

RwCalls == {"my_rwlock_init", "rw_rdlock", "rw_wrlock", "rw_tryrdlock",
            "rw_trywrlock", "rw_unlock", "rwlock_destroy"}

broken_rwlock == Read(22,
    Undefine(Defined("HAVE_BROKEN_RWLOCK"),
        {"HAVE_PTHREAD_RWLOCK_RDLOCK", "HAVE_RWLOCK_INIT", "HAVE_RWLOCK_T"}),
    Nothing)

MutexAsRwlock ==
    "rw_lock_t" :> "pthread_mutex_t" @@
    "my_rwlock_init" :> "pthread_mutex_init" @@
    Define({"rw_rdlock", "rw_wrlock"}, "pthread_mutex_lock") @@
    Define({"rw_tryrdlock", "rw_trywrlock"}, "pthread_mutex_trylock") @@
    "rw_unlock" :> "pthread_mutex_unlock" @@
    "rwlock_destroy" :> "pthread_mutex_destroy"
PosixRwlock ==
    "rw_lock_t" :> "pthread_rwlock_t" @@ Define(RwCalls, "pthread_rwlock")
SolarisRwlock ==
    When(Defined("HAVE_RWLOCK_T"), "rw_lock_t" :> "rwlock_t") @@
    "my_rwlock_init" :> "rwlock_init"
OwnRwlock ==
    "NEED_MY_RW_LOCK" :> "1" @@ "rw_lock_t" :> "my_rw_lock_t" @@
    Define(RwCalls, "my_rw_lock") @@
    Define({"rw_lock_assert_write_owner", "rw_lock_assert_not_write_owner"},
           "my_rw_lock")
rw_locks == Read(23, {},
    CASE Defined("USE_MUTEX_INSTEAD_OF_RW_LOCKS") -> MutexAsRwlock
      [] ~Defined("USE_MUTEX_INSTEAD_OF_RW_LOCKS")
         /\ Defined("HAVE_PTHREAD_RWLOCK_RDLOCK") -> PosixRwlock
      [] ~(Defined("USE_MUTEX_INSTEAD_OF_RW_LOCKS")
           \/ Defined("HAVE_PTHREAD_RWLOCK_RDLOCK"))
         /\ Defined("HAVE_RWLOCK_INIT") -> SolarisRwlock
      [] OTHER -> OwnRwlock)

dummies == Read(24, {},
    When(~Defined("HAVE_THR_SETCONCURRENCY"),
         "thr_setconcurrency" :> "pthread_dummy") @@
    When(~Defined("HAVE_PTHREAD_ATTR_SETSTACKSIZE")
         /\ ~Defined("pthread_attr_setstacksize"),
         "pthread_attr_setstacksize" :> "pthread_dummy"))

ConfigNext ==
    \/ signal_handlers \/ windows_threads \/ normal_threads \/ rts_threads
    \/ my_sigwait \/ nonposix_init \/ sigthreadmask \/ own_sigwait
    \/ my_sigset \/ attr_setscope \/ broken_timedwait
    \/ my_pthread_getspecific \/ condattr_create \/ key_delete
    \/ cthreads_wrapper \/ darwin5_threads \/ attr_create \/ hpux10
    \/ posix4a_trylock \/ pthread_yield \/ safe_mutexes
    \/ MY_PTHREAD_FASTMUTEX \/ broken_rwlock \/ rw_locks \/ dummies
-----------------------------------------------------------------------------
HeaderRead == block = 25

(* What a call of a program ends at, once its macros are expanded.         *)
Expand(name) == IF Defined(name) /\ macros[name] \notin {"own", "1"}
                THEN macros[name] ELSE name
Callee(name) == Expand(Expand(Expand(name)))

(* The thread calls a program makes, and what there is to call: functions  *)
(* of the platform, and of the program's own.                              *)
ThreadCalls == MutexCalls \cup
    {"pthread_cond_init", "pthread_cond_destroy", "pthread_create",
     "pthread_key_create", "pthread_key_delete", "my_pthread_getspecific_ptr",
     "my_pthread_setspecific_ptr", "pthread_attr_init",
     "pthread_attr_destroy", "pthread_attr_setstacksize",
     "pthread_attr_setdetachstate", "pthread_attr_setscope",
     "pthread_condattr_init", "pthread_condattr_destroy", "pthread_kill",
     "pthread_equal", "pthread_self", "pthread_detach_this_thread",
     "pthread_yield", "my_pthread_once", "my_sigset", "thr_setconcurrency"}
UnixCalls == {"my_sigwait", "pthread_sigmask"}
Posix == (ThreadCalls \ {"my_sigset", "my_pthread_once", "pthread_yield",
    "pthread_detach_this_thread", "thr_setconcurrency",
    "my_pthread_getspecific_ptr", "my_pthread_setspecific_ptr"}) \cup
    {"pthread_once", "pthread_detach", "pthread_getspecific",
     "pthread_setspecific", "pthread_sigmask", "sigprocmask", "signal"}
Missing == [
    posix |-> {}, rts |-> {"pthread_sigmask"},
    cthreads |-> {"pthread_cond_destroy", "pthread_mutex_destroy",
        "pthread_attr_setstacksize", "pthread_equal",
        "pthread_cond_timedwait", "pthread_attr_init", "pthread_attr_destroy",
        "pthread_attr_setdetachstate", "pthread_sigmask", "pthread_kill",
        "pthread_condattr_init", "pthread_condattr_destroy"},
    darwin5 |-> {"pthread_sigmask", "pthread_kill", "pthread_condattr_init",
        "pthread_condattr_destroy"},
    dce |-> {"pthread_key_create", "pthread_attr_init",
        "pthread_attr_destroy", "pthread_attr_setdetachstate", "pthread_kill"},
    hpux10 |-> {"pthread_condattr_init", "pthread_condattr_destroy"},
    dec |-> {"pthread_key_create", "pthread_attr_init",
        "pthread_attr_destroy", "pthread_attr_setdetachstate",
        "pthread_attr_setscope", "pthread_kill"}]
Special == [
    posix |-> {}, rts |-> {"sigwait"}, darwin5 |-> {},
    cthreads |-> {"pthread_attr_create", "pthread_condattr_create"},
    dce |-> {"pthread_keycreate", "pthread_attr_create",
             "pthread_attr_delete"},
    hpux10 |-> {"pthread_condattr_create", "pthread_condattr_delete"},
    dec |-> {"pthread_keycreate", "pthread_attr_create",
             "pthread_attr_delete", "sigwait"}]
Optional == [
    pthread_key_delete |-> {"HAVE_PTHREAD_KEY_DELETE"},
    pthread_attr_setscope |-> {"HAVE_PTHREAD_ATTR_SETSCOPE"},
    pthread_attr_setstacksize |-> {"HAVE_PTHREAD_ATTR_SETSTACKSIZE"},
    thr_setconcurrency |-> {"HAVE_THR_SETCONCURRENCY"},
    pthread_sigmask |-> {"HAVE_PTHREAD_SIGMASK"},
    sigthreadmask |-> {"HAVE_SIGTHREADMASK"}, sigwait |-> {"HAVE_SIGWAIT"},
    sigaction |-> {"HAVE_SIGACTION"}, sigset |-> {"HAVE_SIGSET"},
    pthread_yield |->
        {"HAVE_PTHREAD_YIELD_ZERO_ARG", "HAVE_PTHREAD_YIELD_ONE_ARG"},
    sched_yield |-> {"HAVE_SCHED_YIELD"}, thr_yield |-> {"HAVE_THR_YIELD"},
    pthread_yield_np |-> {"HAVE_PTHREAD_YIELD_NP"}]
OfUnix ==
    {c \in Posix \cup DOMAIN Optional :
        /\ c \in DOMAIN Optional => Optional[c] \cap settings # {}
        /\ c \notin Missing[platform]} \cup Special[platform]
OfWindows == {"GetCurrentThreadId", "TlsAlloc", "TlsFree", "TlsSetValue",
    "TlsGetValue", "InitializeCriticalSection", "EnterCriticalSection",
    "LeaveCriticalSection", "DeleteCriticalSection", "SwitchToThread",
    "signal"}
OfProgram == {c \in DOMAIN macros : macros[c] = "own"} \cup
    {"", "pthread_dummy", "my_pthread_fastmutex_init",
     "my_pthread_fastmutex_lock"} \cup {SafeCalls[c] : c \in MutexCalls}
-----------------------------------------------------------------------------
(* Every thread call a program makes ends at a function that exists,       *)
(* whatever blocks have replaced, wrapped or undefined it on the way.      *)
CallsResolve == HeaderRead =>
    \A c \in ThreadCalls \cup IF Windows THEN {} ELSE UnixCalls :
        Callee(c) \in OfProgram \cup IF Windows THEN OfWindows ELSE OfUnix

(* The type of mutex a call takes, and the type of lock.                   *)
MutexTaken(call) ==
    CASE Expand(call) \in {SafeCalls[c] : c \in MutexCalls} -> "safe_mutex_t"
      [] Defined(call) /\ macros[call] \in
            {call, "my_pthread_fastmutex_init", "my_pthread_fastmutex_lock"} ->
            "my_pthread_fastmutex_t"
      [] OTHER -> "pthread_mutex_t"
LockTaken(call) ==
    CASE Expand(call) \in MutexCalls -> "pthread_mutex_t"
      [] Expand(call) = "pthread_rwlock" -> "pthread_rwlock_t"
      [] Expand(call) = "my_rw_lock" -> "my_rw_lock_t"
      [] OTHER -> "rwlock_t"
LockType == IF Defined("rw_lock_t") THEN macros["rw_lock_t"] ELSE "rwlock_t"

(* All calls on a mutex, and all on a read-write lock, take the type that  *)
(* the names pthread_mutex_t and rw_lock_t stand for in the same program.  *)
CallsFitTypes == HeaderRead =>
    /\ \A c \in MutexCalls : MutexTaken(c) = Expand("pthread_mutex_t")
    /\ \A c \in RwCalls : LockTaken(c) = LockType
    /\ Defined("NEED_MY_RW_LOCK") <=> LockType = "my_rw_lock_t"

(* A signal handler that is gone after its first signal is one that the    *)
(* program knows it has to install again.                                  *)
HandlersStay == HeaderRead =>
    \/ Callee("my_sigset") \in {"sigaction", "sigset"}
    \/ "HAVE_BSD_SIGNALS" \in settings
    \/ Defined("SIGNAL_HANDLER_RESET_ON_DELIVERY")

(* In every configuration that compiles my_pthread.h leaves a program with *)
(* thread calls that exist and take the types declared, and with signal    *)
(* handlers that stay.                                                     *)
ThreadCallsWork == CallsResolve /\ CallsFitTypes /\ HandlersStay
=============================================================================
