-------------------------------- MODULE PSI --------------------------------
(* The performance schema instrumentation interface, version 1             *)
(* (mysql/psi/psi.h), as the wrappers of mysql_thread.h and mysql_file.h   *)
(* use it.  A pointer to an instrument is the object it instruments, or    *)
(* NULL; a locker is the record of what the locker state structure holds.  *)
(* What the recorder behind the interface keeps is passed in and returned: *)
(*   wait      per thread, the locker whose wait has started, or NULL      *)
(*   owner     per mutex, the thread the recorder takes for its owner      *)
(*   writer    per rwlock, the same for its writer                         *)
(*   readers   per rwlock, the number of readers the recorder counts       *)
(*   bound     per descriptor, the file name the recorder takes it for     *)
(* Every call that returns a pointer may return NULL: the wrappers test    *)
(* for it, and the recorder may be disabled or out of memory at any time.  *)
EXTENDS Naturals

CONSTANTS
    NULL,                   \* the null pointer
    HAVE_PSI_INTERFACE      \* is the interface compiled in?

ASSUME HaveAssumption == HAVE_PSI_INTERFACE \in BOOLEAN

(* Operations, one enumeration per kind of instrument.                     *)
PSI_mutex_operation == {"PSI_MUTEX_LOCK", "PSI_MUTEX_TRYLOCK"}
PSI_rwlock_operation ==
    {"PSI_RWLOCK_READLOCK", "PSI_RWLOCK_WRITELOCK",
     "PSI_RWLOCK_TRYREADLOCK", "PSI_RWLOCK_TRYWRITELOCK"}
PSI_cond_operation == {"PSI_COND_WAIT", "PSI_COND_TIMEDWAIT"}
PSI_file_operation ==
    {"PSI_FILE_CREATE", "PSI_FILE_CREATE_TMP", "PSI_FILE_OPEN",
     "PSI_FILE_STREAM_OPEN", "PSI_FILE_CLOSE", "PSI_FILE_STREAM_CLOSE",
     "PSI_FILE_READ", "PSI_FILE_WRITE", "PSI_FILE_SEEK", "PSI_FILE_TELL",
     "PSI_FILE_FLUSH", "PSI_FILE_STAT", "PSI_FILE_FSTAT",
     "PSI_FILE_CHSIZE", "PSI_FILE_DELETE", "PSI_FILE_RENAME",
     "PSI_FILE_SYNC"}

(* A key is zero until its instrument class is registered, and a zero key  *)
(* always disables the instrumentation.  One class of each kind.           *)
PSI_key == {0, 1}
PSI_kinds == {"mutex", "rwlock", "cond", "thread", "file"}

(* What a class is registered with: its key, by the kind it is of.  The    *)
(* name and the flags of the class only show in reports.                   *)
PSI_info(kind) == [m_key |-> kind]
register(key, info) == [key EXCEPT ![info.m_key] = 1]

(* The interface the server finds at start-up.                             *)
PSI_VERSION_1 == 1
PSI_VERSION_2 == 2
PSI_CURRENT_VERSION == PSI_VERSION_1
PSI_v1 == "PSI_v1"
get_interface(version) ==
    IF HAVE_PSI_INTERFACE /\ version = PSI_VERSION_1 THEN {PSI_v1, NULL}
                                                     ELSE {NULL}
-----------------------------------------------------------------------------
(* Instruments.                                                            *)
init_mutex(key, identity) == IF key = 0 THEN {NULL} ELSE {NULL, identity}
init_rwlock(key, identity) == IF key = 0 THEN {NULL} ELSE {NULL, identity}
init_cond(key, identity) == IF key = 0 THEN {NULL} ELSE {NULL, identity}
destroy_mutex(owner, mutex) == [owner EXCEPT ![mutex] = NULL]

(* spawn_thread creates the thread and, for a registered key, the          *)
(* instrumentation new_thread returns; set_thread attaches it in the new   *)
(* thread, where get_thread finds it.                                      *)
new_thread(key, identity) == IF key = 0 THEN {NULL} ELSE {NULL, identity}
set_thread(attached, running, thread) ==
    [attached EXCEPT ![running] = thread]
spawn_thread(attached, key, thread) ==
    {set_thread(attached, thread, p) : p \in new_thread(key, thread)}
get_thread(attached, running) == attached[running]
set_thread_id(ids, thread, id) == [ids EXCEPT ![thread] = id]
-----------------------------------------------------------------------------
(* Lockers: a locker belongs to the running thread, which must have an     *)
(* instrumentation attached.                                               *)
PSI_mutex_locker_state(mutex, thread, op) ==
    [m_mutex |-> mutex, m_thread |-> thread, m_operation |-> op]
PSI_rwlock_locker_state(rwlock, thread, op) ==
    [m_rwlock |-> rwlock, m_thread |-> thread, m_operation |-> op]
PSI_cond_locker_state(cond, mutex, thread, op) ==
    [m_cond |-> cond, m_mutex |-> mutex, m_thread |-> thread,
     m_operation |-> op]
PSI_file_locker_state(file, thread, op) ==
    [m_file |-> file, m_thread |-> thread, m_operation |-> op]

get_thread_mutex_locker(thread, mutex, op) ==
    {NULL} \cup (IF thread = NULL THEN {}
                 ELSE {PSI_mutex_locker_state(mutex, thread, op)})
get_thread_rwlock_locker(thread, rwlock, op) ==
    {NULL} \cup (IF thread = NULL THEN {}
                 ELSE {PSI_rwlock_locker_state(rwlock, thread, op)})
get_thread_cond_locker(thread, cond, mutex, op) ==
    {NULL} \cup (IF thread = NULL THEN {}
                 ELSE {PSI_cond_locker_state(cond, mutex, thread, op)})
get_thread_file_name_locker(thread, key, name, op) ==
    {NULL} \cup (IF thread = NULL \/ key = 0 THEN {}
                 ELSE {PSI_file_locker_state(name, thread, op)})
get_thread_file_stream_locker(thread, file, op) ==
    {NULL} \cup (IF thread = NULL THEN {}
                 ELSE {PSI_file_locker_state(file, thread, op)})
-----------------------------------------------------------------------------
(* Waits.  A wait is in progress from its start to its end; what the end   *)
(* of a successful wait and an unlock tell the recorder is the ownership.  *)
StartWait(wait, locker) ==
    IF locker = NULL THEN wait ELSE [wait EXCEPT ![locker.m_thread] = locker]
EndWait(wait, locker) ==
    IF locker = NULL THEN wait ELSE [wait EXCEPT ![locker.m_thread] = NULL]

end_mutex_wait(owner, locker, rc) ==
    IF locker = NULL \/ rc # 0 THEN owner
    ELSE [owner EXCEPT ![locker.m_mutex] = locker.m_thread]
unlock_mutex(owner, mutex) == [owner EXCEPT ![mutex] = NULL]

end_rwlock_rdwait(readers, locker, rc) ==
    IF locker = NULL \/ rc # 0 THEN readers
    ELSE [readers EXCEPT ![locker.m_rwlock] = @ + 1]
end_rwlock_wrwait(writer, locker, rc) ==
    IF locker = NULL \/ rc # 0 THEN writer
    ELSE [writer EXCEPT ![locker.m_rwlock] = locker.m_thread]
(* The event does not say who unlocks: the recorder clears the writer if   *)
(* it knows one, and else counts a reader less if it counts any.           *)
unlock_rwlock_writer(writer, rwlock) == [writer EXCEPT ![rwlock] = NULL]
unlock_rwlock_readers(readers, writer, rwlock) ==
    [readers EXCEPT ![rwlock] =
        IF writer[rwlock] = NULL /\ @ > 0 THEN @ - 1 ELSE @]
-----------------------------------------------------------------------------
(* Files.  Asked for the locker of a close, the recorder unbinds the       *)
(* descriptor at once: once the descriptor is closed another thread may    *)
(* be given the same number.                                               *)
get_thread_file_descriptor_locker(thread, bound, file, op) ==
    {NULL} \cup (IF thread = NULL \/ bound[file] = NULL THEN {}
                 ELSE {PSI_file_locker_state(bound[file], thread, op)})
unbind_descriptor(bound, file, op) ==
    IF op = "PSI_FILE_CLOSE" THEN [bound EXCEPT ![file] = NULL] ELSE bound
start_file_wait(wait, locker) == StartWait(wait, locker)
(* A stream gets the instrument of its file, or none.                      *)
start_file_open_wait(locker) ==
    IF locker = NULL THEN {NULL} ELSE {NULL, locker.m_file}
(* A negative file number, of an open that failed, binds nothing.          *)
end_file_open_wait_and_bind_to_descriptor(bound, locker, file) ==
    IF locker = NULL \/ file \notin DOMAIN bound THEN bound
    ELSE [bound EXCEPT ![file] = locker.m_file]
create_file(bound, thread, key, name, file) ==
    {bound} \cup (IF thread = NULL \/ key = 0 \/ file \notin DOMAIN bound
                  THEN {} ELSE {[bound EXCEPT ![file] = name]})
=============================================================================
