----------------------------- MODULE MysqlFile ------------------------------
(* The instrumented file operations of mysql_file.h.  A wrapper asks the   *)
(* recorder (module PSI) for a locker, by stream, by descriptor or by      *)
(* name, starts a wait, performs the real operation and ends the wait with *)
(* a number of bytes.  Each wrapper is an action that enters it; what its  *)
(* real operation may do and which number it reports is given by the kind  *)
(* it enters with, and the stages that follow are RealOperation and        *)
(* ReturnFromCall.                                                         *)
EXTENDS PSI, Integers

CONSTANTS
    Threads,        \* pthread_t
    Names,          \* file names
    Descriptors,    \* File: numbers of open files
    Streams,        \* MYSQL_FILE structures
    Size            \* bytes asked for by a read or write

ASSUME FileAssumption ==
    /\ Size \in Nat \ {0}
    /\ -1 \notin Descriptors
    /\ NULL \notin Threads \cup Names \cup Descriptors \cup Streams

MY_FILE_ERROR == -1     \* (size_t) -1

VARIABLES
    PSI_server,     \* the interface, or NULL
    key,            \* per class of instrument, its key
    attached,       \* per thread, its instrumentation or NULL
    wait,           \* the recorder: waits in progress
    bound,          \*   and the file each descriptor is taken for, or NULL
    opened,         \* per descriptor, the name it was opened by, or NULL
    allocated,      \* the MYSQL_FILE structures in use,
    m_file,         \*   the file each has open, or NULL,
    m_psi,          \*   and its instrument, or NULL
    pc,             \* per thread, the stage of the wrapper it is in,
    kind,           \*   what the wrapper does,
    fd,             \*   its descriptor, -1 or NULL,
    stream,         \*   its stream or NULL,
    name,           \*   its file name or NULL,
    locker,         \*   its local locker
    out             \*   and the outcome of the real operation

setup == <<PSI_server, key, attached>>
files == <<opened, allocated, m_file>>
vars == <<setup, wait, bound, files, m_psi, pc, kind, fd, stream, name,
          locker, out>>

NoOutcome == [result |-> 0, moved |-> 0, failed |-> FALSE]

Init ==
    /\ PSI_server = NULL
    /\ key = [c \in PSI_kinds |-> 0]
    /\ attached \in {a \in [Threads -> Threads \cup {NULL}] :
                        \A t \in Threads : a[t] \in {NULL, t}}
    /\ wait = [t \in Threads |-> NULL]
    /\ bound = [d \in Descriptors |-> NULL]
    /\ opened = [d \in Descriptors |-> NULL]
    /\ allocated = {}
    /\ m_file = [s \in Streams |-> NULL]
    /\ m_psi = [s \in Streams |-> NULL]
    /\ pc = [t \in Threads |-> "idle"]
    /\ kind = [t \in Threads |-> "none"]
    /\ fd = [t \in Threads |-> NULL]
    /\ stream = [t \in Threads |-> NULL]
    /\ name = [t \in Threads |-> NULL]
    /\ locker = [t \in Threads |-> NULL]
    /\ out = [t \in Threads |-> NoOutcome]
-----------------------------------------------------------------------------
(* Entering a wrapper.                                                     *)
Idle(t) == pc[t] = "idle"

Enter(t, k, d, s, n, l) ==
    /\ pc' = [pc EXCEPT ![t] = "entered"]
    /\ kind' = [kind EXCEPT ![t] = k]
    /\ fd' = [fd EXCEPT ![t] = d]
    /\ stream' = [stream EXCEPT ![t] = s]
    /\ name' = [name EXCEPT ![t] = n]
    /\ locker' = [locker EXCEPT ![t] = l]
    /\ wait' = start_file_wait(wait, l)
    /\ UNCHANGED <<setup, opened, m_file, out>>

(* An open stream that no other thread is using.                           *)
StreamCall(t, s, op, k) ==
    /\ Idle(t) /\ m_file[s] # NULL /\ \A u \in Threads : stream[u] # s
    /\ \E l \in IF PSI_server # NULL /\ m_psi[s] # NULL
                THEN get_thread_file_stream_locker(attached[t], m_psi[s], op)
                ELSE {NULL} : Enter(t, k, NULL, s, NULL, l)
    /\ UNCHANGED <<bound, allocated, m_psi>>

(* An open descriptor whose number the application has been given, and     *)
(* that is not being closed.  Only a close needs it for itself.            *)
Usable(d) == /\ opened[d] # NULL
             /\ \A u \in Threads : fd[u] = d => kind[u] \notin {"open", "temp",
                                                                "close"}
DescriptorCall(t, d, op, k) ==
    /\ Idle(t) /\ Usable(d)
    /\ \E l \in IF PSI_server # NULL
                THEN get_thread_file_descriptor_locker(attached[t], bound, d,
                                                       op)
                ELSE {NULL} : Enter(t, k, d, NULL, NULL, l)
    /\ bound' = IF PSI_server # NULL THEN unbind_descriptor(bound, d, op)
                                     ELSE bound
    /\ UNCHANGED <<allocated, m_psi>>

NameLocker(t, n, op) ==
    IF PSI_server # NULL
    THEN get_thread_file_name_locker(attached[t], key["file"], n, op)
    ELSE {NULL}
NameCall(t, n, op, k) ==
    /\ Idle(t)
    /\ \E l \in NameLocker(t, n, op) : Enter(t, k, NULL, NULL, n, l)
    /\ UNCHANGED <<bound, allocated, m_psi>>
-----------------------------------------------------------------------------
(* Streams.                                                                *)
inline_mysql_file_fgets(t, s) == StreamCall(t, s, "PSI_FILE_READ", "line")
inline_mysql_file_fgetc(t, s) == StreamCall(t, s, "PSI_FILE_READ", "char")
inline_mysql_file_fputs(t, s) == StreamCall(t, s, "PSI_FILE_WRITE", "string")
inline_mysql_file_fputc(t, s) == StreamCall(t, s, "PSI_FILE_WRITE", "char")
inline_mysql_file_fprintf(t, s) == StreamCall(t, s, "PSI_FILE_WRITE", "format")
inline_mysql_file_vfprintf(t, s) == StreamCall(t, s, "PSI_FILE_WRITE", "format")
inline_mysql_file_fflush(t, s) == StreamCall(t, s, "PSI_FILE_FLUSH", "other")
inline_mysql_file_fread(t, s, k) == StreamCall(t, s, "PSI_FILE_READ", k)
inline_mysql_file_fwrite(t, s, k) == StreamCall(t, s, "PSI_FILE_WRITE", k)
inline_mysql_file_fseek(t, s) == StreamCall(t, s, "PSI_FILE_SEEK", "other")
inline_mysql_file_ftell(t, s) == StreamCall(t, s, "PSI_FILE_TELL", "other")

(* The structure is allocated first (when that fails, nothing happens),    *)
(* and its instrument is the one the start of the wait returns.            *)
inline_mysql_file_fopen(t, s, n) ==
    /\ Idle(t) /\ s \notin allocated
    /\ allocated' = allocated \cup {s}
    /\ \E l \in NameLocker(t, n, "PSI_FILE_STREAM_OPEN") :
          /\ Enter(t, "fopen", NULL, s, n, l)
          /\ \E p \in start_file_open_wait(l) : m_psi' = [m_psi EXCEPT ![s] = p]
    /\ UNCHANGED bound
inline_mysql_file_fclose(t, s) ==
    StreamCall(t, s, "PSI_FILE_STREAM_CLOSE", "fclose")
-----------------------------------------------------------------------------
(* Descriptors.                                                            *)
inline_mysql_file_fstat(t, d) == DescriptorCall(t, d, "PSI_FILE_FSTAT", "other")
inline_mysql_file_chsize(t, d) == DescriptorCall(t, d, "PSI_FILE_CHSIZE", "chsize")
inline_mysql_file_read(t, d, k) == DescriptorCall(t, d, "PSI_FILE_READ", k)
inline_mysql_file_write(t, d, k) == DescriptorCall(t, d, "PSI_FILE_WRITE", k)
inline_mysql_file_pread(t, d, k) == DescriptorCall(t, d, "PSI_FILE_READ", k)
inline_mysql_file_pwrite(t, d, k) == DescriptorCall(t, d, "PSI_FILE_WRITE", k)
inline_mysql_file_seek(t, d) == DescriptorCall(t, d, "PSI_FILE_SEEK", "other")
inline_mysql_file_tell(t, d) == DescriptorCall(t, d, "PSI_FILE_TELL", "other")
inline_mysql_file_sync(t, d) == DescriptorCall(t, d, "PSI_FILE_SYNC", "other")
(* mutant: a close is not announced as one.                                *)
inline_mysql_file_close_AsSync(t, d) ==
    /\ \A u \in Threads : fd[u] # d
    /\ DescriptorCall(t, d, "PSI_FILE_SYNC", "close")
inline_mysql_file_close(t, d) ==
    /\ \A u \in Threads : fd[u] # d
    /\ DescriptorCall(t, d, "PSI_FILE_CLOSE", "close")

(* Names.                                                                  *)
inline_mysql_file_open(t, n) == NameCall(t, n, "PSI_FILE_OPEN", "open")
inline_mysql_file_create(t, n) == NameCall(t, n, "PSI_FILE_CREATE", "open")
inline_mysql_file_create_with_symlink(t, n) ==
    NameCall(t, n, "PSI_FILE_CREATE", "open")
inline_mysql_file_stat(t, n) == NameCall(t, n, "PSI_FILE_STAT", "other")
inline_mysql_file_delete(t, n) == NameCall(t, n, "PSI_FILE_DELETE", "other")
inline_mysql_file_delete_with_symlink(t, n) ==
    NameCall(t, n, "PSI_FILE_DELETE", "other")
inline_mysql_file_rename(t, to) == NameCall(t, to, "PSI_FILE_RENAME", "other")
inline_mysql_file_rename_with_symlink(t, to) ==
    NameCall(t, to, "PSI_FILE_RENAME", "other")
(* A temporary file has no name before it is created: it is reported, not  *)
(* timed.                                                                  *)
inline_mysql_file_create_temp(t, n) ==
    /\ Idle(t)
    /\ Enter(t, "temp", NULL, NULL, n, NULL)
    /\ UNCHANGED <<bound, allocated, m_psi>>
-----------------------------------------------------------------------------
(* What the real operation of a call may do.  It may move fewer bytes than *)
(* asked for, and may fail after moving some.  my_read and its like return *)
(* the number of bytes, or with MY_NABP or MY_FNABP zero when all of them  *)
(* were moved; a line that contains a NUL is longer than its strlen.       *)
Result(o, failure, success) ==
    o.result = IF o.failed THEN failure ELSE success
Moved(o, success) == ~o.failed => o.moved = success

Outcomes(k) ==
    {o \in [result : -1 .. Size, moved : 0 .. Size, failed : BOOLEAN] :
        CASE k = "block" -> Result(o, MY_FILE_ERROR, o.moved)
          [] k = "block_nabp" -> /\ Result(o, MY_FILE_ERROR, 0)
                                 /\ o.failed <=> o.moved < Size
          [] k = "line" -> /\ Moved(o, Size) /\ o.result >= 0
                           /\ o.failed => o.result = 0 /\ o.moved = 0
          [] k = "char" -> Result(o, -1, 0) /\ o.moved = IF o.failed THEN 0 ELSE 1
          [] k = "string" -> Result(o, -1, 0) /\ Moved(o, Size)
          [] k = "format" -> Result(o, -1, Size) /\ Moved(o, Size)
          [] OTHER -> Result(o, -1, 0) /\ o.moved = 0}

RealOperation(t) ==
    /\ pc[t] = "entered"
    /\ pc' = [pc EXCEPT ![t] = "done"]
    /\ \E o \in Outcomes(kind[t]) :
        /\ out' = [out EXCEPT ![t] = o]
        /\ \/ /\ kind[t] \in {"open", "temp"} /\ ~o.failed
              /\ \E d \in Descriptors :
                    /\ opened[d] = NULL
                    /\ opened' = [opened EXCEPT ![d] = name[t]]
                    /\ fd' = [fd EXCEPT ![t] = d]
              /\ UNCHANGED m_file
           \/ /\ kind[t] \in {"open", "temp"} /\ o.failed
              /\ fd' = [fd EXCEPT ![t] = -1]
              /\ UNCHANGED <<opened, m_file>>
           \/ /\ kind[t] = "close"
              /\ opened' = [opened EXCEPT ![fd[t]] = NULL]
              /\ fd' = [fd EXCEPT ![t] = NULL]
              /\ UNCHANGED m_file
           \/ /\ kind[t] = "fopen"
              /\ m_file' = [m_file EXCEPT ![stream[t]] =
                                IF o.failed THEN NULL ELSE name[t]]
              /\ UNCHANGED <<opened, fd>>
           \/ /\ kind[t] = "fclose"
              /\ m_file' = [m_file EXCEPT ![stream[t]] = NULL]
              /\ UNCHANGED <<opened, fd>>
           \/ /\ kind[t] \notin {"open", "temp", "close", "fopen", "fclose"}
              /\ UNCHANGED <<opened, m_file, fd>>
    /\ UNCHANGED <<setup, wait, bound, allocated, m_psi, kind, stream, name,
                   locker>>

(* mutant: the two conventions for the result are mixed up.                *)
bytes_moved_Swapped(nabp, result) ==
    IF ~nabp THEN IF result = 0 THEN Size ELSE 0
             ELSE IF result # MY_FILE_ERROR THEN result ELSE 0
(* The bytes a read or a write reports.                                    *)
bytes_moved(nabp, result) ==
    IF nabp THEN IF result = 0 THEN Size ELSE 0
            ELSE IF result # MY_FILE_ERROR THEN result ELSE 0

(* The count that ends the wait, per kind of call.                         *)
EndCount(k, o) ==
    CASE k = "block" -> bytes_moved(FALSE, o.result)
      [] k = "block_nabp" -> bytes_moved(TRUE, o.result)
      [] k = "line" -> IF o.failed THEN 0 ELSE o.result
      [] k = "char" -> 1
      [] k = "string" -> Size
      [] k = "format" -> o.result
      [] k = "chsize" -> Size
      [] OTHER -> 0

(* mutant: a failed operation returns without ending its wait.             *)
end_file_wait_OnSuccess(t) ==
    wait' = IF out[t].failed THEN wait ELSE EndWait(wait, locker[t])
end_file_wait(t) == wait' = EndWait(wait, locker[t])

(* The wait ends; an opened descriptor is bound to its file, a structure   *)
(* whose stream failed to open or is closed is freed.                      *)
Leave(t) ==
    /\ pc' = [pc EXCEPT ![t] = "idle"]
    /\ kind' = [kind EXCEPT ![t] = "none"]
    /\ fd' = [fd EXCEPT ![t] = NULL]
    /\ stream' = [stream EXCEPT ![t] = NULL]
    /\ name' = [name EXCEPT ![t] = NULL]
    /\ locker' = [locker EXCEPT ![t] = NULL]
    /\ out' = [out EXCEPT ![t] = NoOutcome]

(* mutant: the structure is not freed when the stream cannot be opened.    *)
Freed_OnCloseOnly(t) == IF kind[t] = "fclose" THEN {stream[t]} ELSE {}
Freed(t) ==
    IF kind[t] = "fclose" \/ (kind[t] = "fopen" /\ m_file[stream[t]] = NULL)
    THEN {stream[t]} ELSE {}

Bindings(t) ==
    CASE kind[t] = "open" ->
            {end_file_open_wait_and_bind_to_descriptor(bound, locker[t], fd[t])}
      [] kind[t] = "temp" /\ PSI_server # NULL ->
            create_file(bound, attached[t], key["file"], name[t], fd[t])
      [] OTHER -> {bound}

ReturnFromCall(t) ==
    /\ pc[t] = "done"
    /\ end_file_wait(t)
    /\ bound' \in Bindings(t)
    /\ allocated' = allocated \ Freed(t)
    /\ m_psi' = [s \in Streams |-> IF s \in Freed(t) THEN NULL ELSE m_psi[s]]
    /\ Leave(t)
    /\ UNCHANGED <<setup, opened, m_file>>
-----------------------------------------------------------------------------
AttachInterface ==
    /\ PSI_server = NULL
    /\ PSI_server' \in get_interface(PSI_CURRENT_VERSION) \ {NULL}
    /\ UNCHANGED <<key, attached, wait, bound, files, m_psi, pc, kind, fd,
                   stream, name, locker, out>>
RegisterInstruments ==
    /\ PSI_server # NULL /\ key["file"] = 0
    /\ key' = register(key, PSI_info("file"))
    /\ UNCHANGED <<PSI_server, attached, wait, bound, files, m_psi, pc, kind,
                   fd, stream, name, locker, out>>

(* The macros of mysql_file.h, in its order: what a thread may call.       *)
TextCalls(t) == \E s \in Streams :
    \/ inline_mysql_file_fgets(t, s)
    \/ inline_mysql_file_fgetc(t, s)
    \/ inline_mysql_file_fputs(t, s)
    \/ inline_mysql_file_fputc(t, s)
    \/ inline_mysql_file_fprintf(t, s)
    \/ inline_mysql_file_vfprintf(t, s)
    \/ inline_mysql_file_fflush(t, s)
SizeCalls(t) ==
    \/ \E d \in Descriptors : inline_mysql_file_fstat(t, d)
    \/ \E n \in Names : inline_mysql_file_stat(t, n)
    \/ \E d \in Descriptors : inline_mysql_file_chsize(t, d)
StreamCalls(t) == \E s \in Streams :
    \/ \E n \in Names : inline_mysql_file_fopen(t, s, n)
    \/ inline_mysql_file_fclose(t, s)
    \/ \E k \in {"block", "block_nabp"} :
          inline_mysql_file_fread(t, s, k) \/ inline_mysql_file_fwrite(t, s, k)
    \/ inline_mysql_file_fseek(t, s)
    \/ inline_mysql_file_ftell(t, s)
OpenCalls(t) == \E n \in Names :
    \/ inline_mysql_file_create(t, n)
    \/ inline_mysql_file_create_temp(t, n)
    \/ inline_mysql_file_open(t, n)
DescriptorCalls(t) == \E d \in Descriptors :
    \/ inline_mysql_file_close(t, d)
    \/ \E k \in {"block", "block_nabp"} :
          \/ inline_mysql_file_read(t, d, k)
          \/ inline_mysql_file_write(t, d, k)
          \/ inline_mysql_file_pread(t, d, k)
          \/ inline_mysql_file_pwrite(t, d, k)
    \/ inline_mysql_file_seek(t, d)
    \/ inline_mysql_file_tell(t, d)
NameCalls(t) == \E n \in Names :
    \/ inline_mysql_file_delete(t, n)
    \/ inline_mysql_file_rename(t, n)
    \/ inline_mysql_file_create_with_symlink(t, n)
    \/ inline_mysql_file_delete_with_symlink(t, n)
    \/ inline_mysql_file_rename_with_symlink(t, n)
SyncCalls(t) == \E d \in Descriptors : inline_mysql_file_sync(t, d)

Next ==
    \/ AttachInterface
    \/ RegisterInstruments
    \/ \E t \in Threads : \/ TextCalls(t) \/ SizeCalls(t) \/ StreamCalls(t)
                          \/ OpenCalls(t) \/ DescriptorCalls(t)
                          \/ NameCalls(t) \/ SyncCalls(t)
                          \/ RealOperation(t) \/ ReturnFromCall(t)

Spec == Init /\ [][Next]_vars
-----------------------------------------------------------------------------
(* Properties.                                                             *)
Lockers == [m_file : Names, m_thread : Threads, m_operation : PSI_file_operation]
Blocks == {"block", "block_nabp"}
Kinds == Blocks \cup {"none", "line", "char", "string", "format", "chsize",
                      "other", "open", "temp", "close", "fopen", "fclose"}
Reports == [result : Int, moved : Int, failed : BOOLEAN]

(* Every variable stays in its type.                                       *)
TypeOK ==
    /\ PSI_server \in {NULL, PSI_v1}
    /\ key \in [PSI_kinds -> PSI_key]
    /\ attached \in [Threads -> Threads \cup {NULL}]
    /\ wait \in [Threads -> Lockers \cup {NULL}]
    /\ bound \in [Descriptors -> Names \cup {NULL}]
    /\ opened \in [Descriptors -> Names \cup {NULL}]
    /\ allocated \in SUBSET Streams
    /\ m_file \in [Streams -> Names \cup {NULL}]
    /\ m_psi \in [Streams -> Names \cup {NULL}]
    /\ pc \in [Threads -> {"idle", "entered", "done"}]
    /\ kind \in [Threads -> Kinds]
    /\ fd \in [Threads -> Descriptors \cup {-1, NULL}]
    /\ stream \in [Threads -> Streams \cup {NULL}]
    /\ name \in [Threads -> Names \cup {NULL}]
    /\ locker \in [Threads -> Lockers \cup {NULL}]
    /\ out \in [Threads -> Reports]

(* The file the real operation of t is performed on.                       *)
Operand(t) == IF name[t] # NULL THEN name[t]
              ELSE IF stream[t] # NULL THEN m_file[stream[t]]
              ELSE opened[fd[t]]

(* Time and bytes are put down to the file they are spent on: a descriptor *)
(* is never bound to a file it was not opened by, although the system may  *)
(* give a number to another thread before the close that freed it has      *)
(* ended its wait, and every locker names the file operated on.            *)
AttributionIsTrue ==
    /\ \A d \in Descriptors : bound[d] \in {NULL, opened[d]}
    /\ \A t \in Threads : pc[t] = "entered" /\ locker[t] # NULL =>
                              locker[t].m_file = Operand(t)

(* Every wait that is started is ended by the same call, whether or not    *)
(* the real operation failed and whenever the interface was attached.      *)
WaitsMatchCalls ==
    \A t \in Threads : /\ wait[t] = locker[t]
                       /\ locker[t] # NULL => /\ pc[t] # "idle"
                                              /\ locker[t].m_thread = t

(* A MYSQL_FILE is in use exactly while it has an open file or a call that *)
(* opens or closes it is under way: one whose open failed is freed, and    *)
(* none is freed under a call.                                             *)
StreamsNotLeaked ==
    \A s \in Streams :
        s \in allocated <=> \/ m_file[s] # NULL
                            \/ \E t \in Threads : stream[t] = s

(* A read or write of a block never reports a byte it did not move, and    *)
(* reports all of them when it succeeds, with and without MY_NABP.         *)
BlockCountsTrue ==
    \A t \in Threads : pc[t] = "done" /\ kind[t] \in Blocks =>
        LET count == EndCount(kind[t], out[t])
        IN /\ count \in 0 .. out[t].moved
           /\ ~out[t].failed => count = out[t].moved

(* What psi.h says of the count that ends a wait: the number of bytes      *)
(* used, 0 if not applicable, -1 if the operation failed.                  *)
CountsAsDocumented ==
    \A t \in Threads : pc[t] = "done" /\ locker[t] # NULL =>
        EndCount(kind[t], out[t]) \in IF out[t].failed THEN {-1}
                                      ELSE {out[t].moved, 0}
=============================================================================
