-------------------------- MODULE MysqlFileProofs ---------------------------
(* Proofs about MysqlFile, for any threads, names, descriptors and streams *)
(* and any size of a transfer.                                             *)
EXTENDS MysqlFile, TLAPS

(* What holds of a descriptor or a stream between any two steps.           *)
FileInv ==
    /\ \A d \in Descriptors : /\ bound[d] \in {NULL, opened[d]}
                              /\ bound[d] # NULL => PSI_server # NULL
    /\ \A s \in Streams : m_file[s] # NULL => m_psi[s] \in {NULL, m_file[s]}
    /\ StreamsNotLeaked

(* What holds of a call: its locker, what it works on, and its result.     *)
LockerInv(t) ==
    /\ attached[t] \in {NULL, t}
    /\ wait[t] = locker[t]
    /\ locker[t] # NULL => /\ pc[t] # "idle" /\ locker[t].m_thread = t
                          /\ PSI_server # NULL
    /\ pc[t] = "entered" /\ locker[t] # NULL => locker[t].m_file = Operand(t)
    /\ kind[t] = "open" /\ locker[t] # NULL => locker[t].m_file = name[t]
DescriptorInv(t) ==
    /\ fd[t] \in Descriptors => opened[fd[t]] # NULL
    /\ kind[t] \in {"open", "temp"} =>
          /\ name[t] # NULL /\ stream[t] = NULL
          /\ pc[t] = "entered" => fd[t] = NULL
          /\ fd[t] \in Descriptors => /\ opened[fd[t]] = name[t]
                                      /\ bound[fd[t]] = NULL
    /\ kind[t] = "close" =>
          /\ name[t] = NULL /\ stream[t] = NULL
          /\ pc[t] = "entered" => bound[fd[t]] = NULL
          /\ pc[t] = "done" => fd[t] = NULL
    /\ pc[t] = "entered" /\ name[t] = NULL /\ stream[t] = NULL =>
          fd[t] \in Descriptors
StreamInv(t) ==
    /\ stream[t] # NULL =>
          /\ stream[t] \in allocated
          /\ kind[t] \notin {"fopen", "fclose"} => /\ m_file[stream[t]] # NULL
                                                   /\ name[t] = NULL
    /\ kind[t] = "fopen" =>
          /\ stream[t] # NULL /\ name[t] # NULL
          /\ m_psi[stream[t]] \in {NULL, name[t]}
          /\ m_file[stream[t]] \in {NULL, name[t]}
    /\ kind[t] = "fclose" =>
          /\ stream[t] # NULL /\ name[t] = NULL
          /\ pc[t] = "done" => m_file[stream[t]] = NULL
StageInv(t) ==
    /\ pc[t] = "idle" => /\ kind[t] = "none" /\ fd[t] = NULL
                         /\ stream[t] = NULL /\ name[t] = NULL
    /\ pc[t] = "done" /\ kind[t] \in Blocks => out[t] \in Outcomes(kind[t])
CallInv(t) == LockerInv(t) /\ DescriptorInv(t) /\ StreamInv(t) /\ StageInv(t)

(* Two calls share no stream, and no descriptor that is being opened or    *)
(* closed.                                                                 *)
Exclusive(t, u) ==
    /\ stream[t] = stream[u] => stream[t] = NULL
    /\ fd[t] = fd[u] /\ fd[t] \in Descriptors =>
          kind[t] \notin {"open", "temp", "close"}

IInv == /\ TypeOK
        /\ FileInv
        /\ \A t \in Threads : CallInv(t)
        /\ \A t, u \in Threads : t # u => Exclusive(t, u)

(* The outcome of a real operation has its type.                           *)
LEMMA OutcomeType ==
    ASSUME NEW k \in Kinds, NEW o \in Outcomes(k)
    PROVE  o \in Reports
BY FileAssumption DEF Outcomes, Reports

(* A call on an open stream. *)
LEMMA StreamCallEnters ==
    ASSUME IInv,
           NEW t \in Threads,
           NEW s \in Streams,
           NEW op \in PSI_file_operation,
           NEW k \in Blocks \cup {"line", "char", "string", "format", "other", "fclose"},
           StreamCall(t, s, op, k)
    PROVE  IInv'
<1> USE FileAssumption DEF IInv
<1>0. PICK l \in IF PSI_server # NULL /\ m_psi[s] # NULL
             THEN get_thread_file_stream_locker(attached[t], m_psi[s], op)
             ELSE {NULL} : Enter(t, k, NULL, s, NULL, l)
  BY DEF StreamCall
<1>1. wait[t] = NULL /\ locker[t] = NULL
  BY DEF CallInv, LockerInv, Idle, StreamCall
<1>2. l = NULL \/ (/\ l \in Lockers /\ l.m_file = m_file[s] /\ l.m_thread = t
                  /\ PSI_server # NULL)
  <2>1. l = NULL \/ l = PSI_file_locker_state(m_file[s], t, op)
    BY <1>0 DEF StreamCall, get_thread_file_stream_locker, FileInv, CallInv, LockerInv
  <2>2. ASSUME l = PSI_file_locker_state(m_file[s], t, op)
        PROVE  l \in Lockers /\ l.m_file = m_file[s] /\ l.m_thread = t
    BY <2>2 DEF PSI_file_locker_state, Lockers, TypeOK, StreamCall
  <2>3. l # NULL => PSI_server # NULL
    BY <1>0
  <2> QED
    BY <2>1, <2>2, <2>3
<1>3. wait' = [wait EXCEPT ![t] = l]
  <2>1. CASE l = NULL
    BY <2>1, <1>0, <1>1 DEF Enter, start_file_wait, StartWait, TypeOK
  <2>2. CASE l # NULL
    BY <2>2, <1>0, <1>2 DEF Enter, start_file_wait, StartWait, TypeOK
  <2> QED
    BY <2>1, <2>2
<1>t. TypeOK'
  BY <1>0, <1>1, <1>2, <1>3
    DEF TypeOK, Kinds, Blocks, setup, files, Idle, Enter, StreamCall
<1>f. FileInv'
  BY <1>0, <1>1, <1>2, <1>3
    DEF TypeOK, CallInv, LockerInv, DescriptorInv, StreamInv, StageInv,
        Operand, Exclusive, FileInv, StreamsNotLeaked, Blocks, setup, files,
        Idle, Enter, StreamCall
<1>c. ASSUME NEW u \in Threads PROVE CallInv(u)'
  <2>1. CASE u = t
    BY <2>1, <1>0, <1>1, <1>2, <1>3
      DEF TypeOK, CallInv, LockerInv, DescriptorInv, StreamInv, StageInv,
          Operand, Exclusive, FileInv, StreamsNotLeaked, Blocks, setup,
          files, Idle, Enter, StreamCall
  <2>2. CASE u # t
    BY <2>2, <1>0, <1>1, <1>2, <1>3
      DEF TypeOK, CallInv, LockerInv, DescriptorInv, StreamInv, StageInv,
          Operand, Exclusive, FileInv, StreamsNotLeaked, Blocks, setup,
          files, Idle, Enter, StreamCall
  <2> QED
    BY <2>1, <2>2
<1>e. ASSUME NEW u \in Threads, NEW v \in Threads, u # v
      PROVE  Exclusive(u, v)'
  BY <1>e, <1>0, <1>1, <1>2, <1>3
    DEF TypeOK, CallInv, LockerInv, DescriptorInv, StreamInv, StageInv,
        Operand, Exclusive, FileInv, StreamsNotLeaked, Blocks, setup, files,
        Idle, Enter, StreamCall
<1> QED
  BY <1>t, <1>f, <1>c, <1>e

(* A call on an open descriptor that does not close it. *)
LEMMA DescriptorCallEnters ==
    ASSUME IInv,
           NEW t \in Threads,
           NEW d \in Descriptors,
           NEW op \in PSI_file_operation,
           op # "PSI_FILE_CLOSE",
           NEW k \in Blocks \cup {"chsize", "other"},
           DescriptorCall(t, d, op, k)
    PROVE  IInv'
<1> USE FileAssumption DEF IInv
<1>0. PICK l \in IF PSI_server # NULL
             THEN get_thread_file_descriptor_locker(attached[t], bound, d, op)
             ELSE {NULL} : Enter(t, k, d, NULL, NULL, l)
  BY DEF DescriptorCall
<1>1. wait[t] = NULL /\ locker[t] = NULL
  BY DEF CallInv, LockerInv, Idle, DescriptorCall
<1>2. l = NULL \/ (/\ l \in Lockers /\ l.m_file = opened[d] /\ l.m_thread = t
                  /\ PSI_server # NULL)
  <2>1. l = NULL \/ l = PSI_file_locker_state(opened[d], t, op)
    BY <1>0 DEF DescriptorCall, get_thread_file_descriptor_locker, FileInv, CallInv, LockerInv
  <2>2. ASSUME l = PSI_file_locker_state(opened[d], t, op)
        PROVE  l \in Lockers /\ l.m_file = opened[d] /\ l.m_thread = t
    BY <2>2 DEF PSI_file_locker_state, Lockers, TypeOK, DescriptorCall, Usable
  <2>3. l # NULL => PSI_server # NULL
    BY <1>0
  <2> QED
    BY <2>1, <2>2, <2>3
<1>3. wait' = [wait EXCEPT ![t] = l]
  <2>1. CASE l = NULL
    BY <2>1, <1>0, <1>1 DEF Enter, start_file_wait, StartWait, TypeOK
  <2>2. CASE l # NULL
    BY <2>2, <1>0, <1>2 DEF Enter, start_file_wait, StartWait, TypeOK
  <2> QED
    BY <2>1, <2>2
<1>t. TypeOK'
  BY <1>0, <1>1, <1>2, <1>3
    DEF TypeOK, Kinds, Blocks, setup, files, Idle, Enter, DescriptorCall,
        Usable, unbind_descriptor
<1>f. FileInv'
  BY <1>0, <1>1, <1>2, <1>3
    DEF TypeOK, CallInv, LockerInv, DescriptorInv, StreamInv, StageInv,
        Operand, Exclusive, FileInv, StreamsNotLeaked, Blocks, setup, files,
        Idle, Enter, DescriptorCall, Usable, unbind_descriptor
<1>c. ASSUME NEW u \in Threads PROVE CallInv(u)'
  <2>1. CASE u = t
    BY <2>1, <1>0, <1>1, <1>2, <1>3
      DEF TypeOK, CallInv, LockerInv, DescriptorInv, StreamInv, StageInv,
          Operand, Exclusive, FileInv, StreamsNotLeaked, Blocks, setup,
          files, Idle, Enter, DescriptorCall, Usable, unbind_descriptor
  <2>2. CASE u # t
    BY <2>2, <1>0, <1>1, <1>2, <1>3
      DEF TypeOK, CallInv, LockerInv, DescriptorInv, StreamInv, StageInv,
          Operand, Exclusive, FileInv, StreamsNotLeaked, Blocks, setup,
          files, Idle, Enter, DescriptorCall, Usable, unbind_descriptor
  <2> QED
    BY <2>1, <2>2
<1>e. ASSUME NEW u \in Threads, NEW v \in Threads, u # v
      PROVE  Exclusive(u, v)'
  BY <1>e, <1>0, <1>1, <1>2, <1>3
    DEF TypeOK, CallInv, LockerInv, DescriptorInv, StreamInv, StageInv,
        Operand, Exclusive, FileInv, StreamsNotLeaked, Blocks, setup, files,
        Idle, Enter, DescriptorCall, Usable, unbind_descriptor
<1> QED
  BY <1>t, <1>f, <1>c, <1>e

(* A call that closes a descriptor: the recorder forgets the file at once. *)
LEMMA CloseEnters ==
    ASSUME IInv,
           NEW t \in Threads,
           NEW d \in Descriptors,
           inline_mysql_file_close(t, d)
    PROVE  IInv'
<1> USE FileAssumption DEF IInv
<1> DEFINE op == "PSI_FILE_CLOSE"
<1>d. DescriptorCall(t, d, op, "close") /\ \A u \in Threads : fd[u] # d
  BY DEF inline_mysql_file_close
<1>0. PICK l \in IF PSI_server # NULL
             THEN get_thread_file_descriptor_locker(attached[t], bound, d, op)
             ELSE {NULL} : Enter(t, "close", d, NULL, NULL, l)
  BY <1>d DEF DescriptorCall
<1>1. wait[t] = NULL /\ locker[t] = NULL
  BY <1>d DEF CallInv, LockerInv, Idle, DescriptorCall
<1>2. l = NULL \/ (/\ l \in Lockers /\ l.m_file = opened[d] /\ l.m_thread = t
                  /\ PSI_server # NULL)
  <2>1. l = NULL \/ l = PSI_file_locker_state(opened[d], t, op)
    BY <1>0 DEF get_thread_file_descriptor_locker, FileInv, CallInv, LockerInv
  <2>2. ASSUME l = PSI_file_locker_state(opened[d], t, op)
        PROVE  l \in Lockers /\ l.m_file = opened[d] /\ l.m_thread = t
    BY <2>2, <1>d DEF PSI_file_locker_state, Lockers, TypeOK, DescriptorCall, Usable, PSI_file_operation
  <2>3. l # NULL => PSI_server # NULL
    BY <1>0
  <2> QED
    BY <2>1, <2>2, <2>3
<1>3. wait' = [wait EXCEPT ![t] = l]
  <2>1. CASE l = NULL
    BY <2>1, <1>0, <1>1 DEF Enter, start_file_wait, StartWait, TypeOK
  <2>2. CASE l # NULL
    BY <2>2, <1>0, <1>2 DEF Enter, start_file_wait, StartWait, TypeOK
  <2> QED
    BY <2>1, <2>2
<1>t. TypeOK'
  BY <1>d, <1>0, <1>1, <1>2, <1>3
    DEF TypeOK, Kinds, Blocks, setup, files, Idle, Enter, DescriptorCall,
        Usable, unbind_descriptor
<1>f. FileInv'
  BY <1>d, <1>0, <1>1, <1>2, <1>3
    DEF TypeOK, CallInv, LockerInv, DescriptorInv, StreamInv, StageInv,
        Operand, Exclusive, FileInv, StreamsNotLeaked, Blocks, setup, files,
        Idle, Enter, DescriptorCall, Usable, unbind_descriptor
<1>c. ASSUME NEW u \in Threads PROVE CallInv(u)'
  <2>1. CASE u = t
    BY <2>1, <1>d, <1>0, <1>1, <1>2, <1>3
      DEF TypeOK, CallInv, LockerInv, DescriptorInv, StreamInv, StageInv,
          Operand, Exclusive, FileInv, StreamsNotLeaked, Blocks, setup,
          files, Idle, Enter, DescriptorCall, Usable, unbind_descriptor
  <2>2. CASE u # t
    BY <2>2, <1>d, <1>0, <1>1, <1>2, <1>3
      DEF TypeOK, CallInv, LockerInv, DescriptorInv, StreamInv, StageInv,
          Operand, Exclusive, FileInv, StreamsNotLeaked, Blocks, setup,
          files, Idle, Enter, DescriptorCall, Usable, unbind_descriptor
  <2> QED
    BY <2>1, <2>2
<1>e. ASSUME NEW u \in Threads, NEW v \in Threads, u # v
      PROVE  Exclusive(u, v)'
  BY <1>e, <1>d, <1>0, <1>1, <1>2, <1>3
    DEF TypeOK, CallInv, LockerInv, DescriptorInv, StreamInv, StageInv,
        Operand, Exclusive, FileInv, StreamsNotLeaked, Blocks, setup, files,
        Idle, Enter, DescriptorCall, Usable, unbind_descriptor
<1> QED
  BY <1>t, <1>f, <1>c, <1>e

(* A call on a file name. *)
LEMMA NameCallEnters ==
    ASSUME IInv,
           NEW t \in Threads,
           NEW n \in Names,
           NEW op \in PSI_file_operation,
           NEW k \in {"open", "other"},
           NameCall(t, n, op, k)
    PROVE  IInv'
<1> USE FileAssumption DEF IInv
<1>0. PICK l \in NameLocker(t, n, op) : Enter(t, k, NULL, NULL, n, l)
  BY DEF NameCall
<1>1. wait[t] = NULL /\ locker[t] = NULL
  BY DEF CallInv, LockerInv, Idle, NameCall
<1>2. l = NULL \/ (/\ l \in Lockers /\ l.m_file = n /\ l.m_thread = t
                  /\ PSI_server # NULL)
  <2>1. l = NULL \/ l = PSI_file_locker_state(n, t, op)
    BY <1>0 DEF NameLocker, get_thread_file_name_locker, CallInv, LockerInv
  <2>2. ASSUME l = PSI_file_locker_state(n, t, op)
        PROVE  l \in Lockers /\ l.m_file = n /\ l.m_thread = t
    BY <2>2 DEF PSI_file_locker_state, Lockers
  <2>3. l # NULL => PSI_server # NULL
    BY <1>0 DEF NameLocker
  <2> QED
    BY <2>1, <2>2, <2>3
<1>3. wait' = [wait EXCEPT ![t] = l]
  <2>1. CASE l = NULL
    BY <2>1, <1>0, <1>1 DEF Enter, start_file_wait, StartWait, TypeOK
  <2>2. CASE l # NULL
    BY <2>2, <1>0, <1>2 DEF Enter, start_file_wait, StartWait, TypeOK
  <2> QED
    BY <2>1, <2>2
<1>t. TypeOK'
  BY <1>0, <1>1, <1>2, <1>3
    DEF TypeOK, Kinds, Blocks, setup, files, Idle, Enter, NameCall
<1>f. FileInv'
  BY <1>0, <1>1, <1>2, <1>3
    DEF TypeOK, CallInv, LockerInv, DescriptorInv, StreamInv, StageInv,
        Operand, Exclusive, FileInv, StreamsNotLeaked, Blocks, setup, files,
        Idle, Enter, NameCall
<1>c. ASSUME NEW u \in Threads PROVE CallInv(u)'
  <2>1. CASE u = t
    BY <2>1, <1>0, <1>1, <1>2, <1>3
      DEF TypeOK, CallInv, LockerInv, DescriptorInv, StreamInv, StageInv,
          Operand, Exclusive, FileInv, StreamsNotLeaked, Blocks, setup,
          files, Idle, Enter, NameCall
  <2>2. CASE u # t
    BY <2>2, <1>0, <1>1, <1>2, <1>3
      DEF TypeOK, CallInv, LockerInv, DescriptorInv, StreamInv, StageInv,
          Operand, Exclusive, FileInv, StreamsNotLeaked, Blocks, setup,
          files, Idle, Enter, NameCall
  <2> QED
    BY <2>1, <2>2
<1>e. ASSUME NEW u \in Threads, NEW v \in Threads, u # v
      PROVE  Exclusive(u, v)'
  BY <1>e, <1>0, <1>1, <1>2, <1>3
    DEF TypeOK, CallInv, LockerInv, DescriptorInv, StreamInv, StageInv,
        Operand, Exclusive, FileInv, StreamsNotLeaked, Blocks, setup, files,
        Idle, Enter, NameCall
<1> QED
  BY <1>t, <1>f, <1>c, <1>e

(* A call that creates a temporary file. *)
LEMMA TempEnters ==
    ASSUME IInv,
           NEW t \in Threads,
           NEW n \in Names,
           inline_mysql_file_create_temp(t, n)
    PROVE  IInv'
<1> USE FileAssumption DEF IInv
<1>t. TypeOK'
  BY DEF TypeOK, Kinds, Blocks, setup, files, Idle, Enter,
      inline_mysql_file_create_temp, start_file_wait, StartWait
<1>f. FileInv'
  BY DEF TypeOK, CallInv, LockerInv, DescriptorInv, StreamInv, StageInv,
      Operand, Exclusive, FileInv, StreamsNotLeaked, Blocks, setup, files,
      Idle, Enter, inline_mysql_file_create_temp, start_file_wait, StartWait
<1>c. ASSUME NEW u \in Threads PROVE CallInv(u)'
  <2>1. CASE u = t
    BY <2>1
      DEF TypeOK, CallInv, LockerInv, DescriptorInv, StreamInv, StageInv,
          Operand, Exclusive, FileInv, StreamsNotLeaked, Blocks, setup,
          files, Idle, Enter, inline_mysql_file_create_temp, start_file_wait, StartWait
  <2>2. CASE u # t
    BY <2>2
      DEF TypeOK, CallInv, LockerInv, DescriptorInv, StreamInv, StageInv,
          Operand, Exclusive, FileInv, StreamsNotLeaked, Blocks, setup,
          files, Idle, Enter, inline_mysql_file_create_temp, start_file_wait, StartWait
  <2> QED
    BY <2>1, <2>2
<1>e. ASSUME NEW u \in Threads, NEW v \in Threads, u # v
      PROVE  Exclusive(u, v)'
  BY <1>e
    DEF TypeOK, CallInv, LockerInv, DescriptorInv, StreamInv, StageInv,
        Operand, Exclusive, FileInv, StreamsNotLeaked, Blocks, setup, files,
        Idle, Enter, inline_mysql_file_create_temp, start_file_wait, StartWait
<1> QED
  BY <1>t, <1>f, <1>c, <1>e

(* A call that opens a stream. *)
LEMMA FopenEnters ==
    ASSUME IInv,
           NEW t \in Threads,
           NEW s \in Streams,
           NEW n \in Names,
           inline_mysql_file_fopen(t, s, n)
    PROVE  IInv'
<1> USE FileAssumption DEF IInv
<1> DEFINE op == "PSI_FILE_STREAM_OPEN"
<1>0. PICK l \in NameLocker(t, n, op), p \in Names \cup {NULL} :
          /\ Enter(t, "fopen", NULL, s, n, l)
          /\ m_psi' = [m_psi EXCEPT ![s] = p]
          /\ p \in {NULL, n}
  <2>1. PICK l \in NameLocker(t, n, op) :
            /\ Enter(t, "fopen", NULL, s, n, l)
            /\ \E p \in start_file_open_wait(l) :
                  m_psi' = [m_psi EXCEPT ![s] = p]
    BY DEF inline_mysql_file_fopen
  <2>2. l # NULL => l.m_file = n
    BY <2>1 DEF NameLocker, get_thread_file_name_locker,
        PSI_file_locker_state
  <2>3. start_file_open_wait(l) \subseteq {NULL, n}
    BY <2>2 DEF start_file_open_wait
  <2> QED
    BY <2>1, <2>3
<1>1. wait[t] = NULL /\ locker[t] = NULL
  BY DEF CallInv, LockerInv, Idle, inline_mysql_file_fopen
<1>2. l = NULL \/ (/\ l \in Lockers /\ l.m_file = n /\ l.m_thread = t
                  /\ PSI_server # NULL)
  <2>1. l = NULL \/ l = PSI_file_locker_state(n, t, op)
    BY <1>0 DEF NameLocker, get_thread_file_name_locker, CallInv, LockerInv
  <2>2. ASSUME l = PSI_file_locker_state(n, t, op)
        PROVE  l \in Lockers /\ l.m_file = n /\ l.m_thread = t
    BY <2>2 DEF PSI_file_locker_state, Lockers, PSI_file_operation
  <2>3. l # NULL => PSI_server # NULL
    BY <1>0 DEF NameLocker
  <2> QED
    BY <2>1, <2>2, <2>3
<1>3. wait' = [wait EXCEPT ![t] = l]
  <2>1. CASE l = NULL
    BY <2>1, <1>0, <1>1 DEF Enter, start_file_wait, StartWait, TypeOK
  <2>2. CASE l # NULL
    BY <2>2, <1>0, <1>2 DEF Enter, start_file_wait, StartWait, TypeOK
  <2> QED
    BY <2>1, <2>2
<1>t. TypeOK'
  BY <1>0, <1>1, <1>2, <1>3
    DEF TypeOK, Kinds, Blocks, setup, files, Idle, Enter,
        inline_mysql_file_fopen
<1>f. FileInv'
  BY <1>0, <1>1, <1>2, <1>3
    DEF TypeOK, CallInv, LockerInv, DescriptorInv, StreamInv, StageInv,
        Operand, Exclusive, FileInv, StreamsNotLeaked, Blocks, setup, files,
        Idle, Enter, inline_mysql_file_fopen
<1>c. ASSUME NEW u \in Threads PROVE CallInv(u)'
  <2>1. CASE u = t
    BY <2>1, <1>0, <1>1, <1>2, <1>3
      DEF TypeOK, CallInv, LockerInv, DescriptorInv, StreamInv, StageInv,
          Operand, Exclusive, FileInv, StreamsNotLeaked, Blocks, setup,
          files, Idle, Enter, inline_mysql_file_fopen
  <2>2. CASE u # t
    BY <2>2, <1>0, <1>1, <1>2, <1>3
      DEF TypeOK, CallInv, LockerInv, DescriptorInv, StreamInv, StageInv,
          Operand, Exclusive, FileInv, StreamsNotLeaked, Blocks, setup,
          files, Idle, Enter, inline_mysql_file_fopen
  <2> QED
    BY <2>1, <2>2
<1>e. ASSUME NEW u \in Threads, NEW v \in Threads, u # v
      PROVE  Exclusive(u, v)'
  BY <1>e, <1>0, <1>1, <1>2, <1>3
    DEF TypeOK, CallInv, LockerInv, DescriptorInv, StreamInv, StageInv,
        Operand, Exclusive, FileInv, StreamsNotLeaked, Blocks, setup, files,
        Idle, Enter, inline_mysql_file_fopen
<1> QED
  BY <1>t, <1>f, <1>c, <1>e

(* The real operation of t is over, whatever it did to the files.          *)
OutcomeKnown(t) ==
    /\ pc[t] = "entered"
    /\ pc' = [pc EXCEPT ![t] = "done"]
    /\ \E o \in Outcomes(kind[t]) : out' = [out EXCEPT ![t] = o]
    /\ UNCHANGED <<setup, wait, bound, allocated, m_psi, kind, stream, name,
                   locker>>

(* A file is opened under a free descriptor. *)
LEMMA OpenDone ==
    ASSUME IInv,
           NEW t \in Threads,
           OutcomeKnown(t),
           kind[t] \in {"open", "temp"},
           NEW d \in Descriptors,
           opened[d] = NULL,
           opened' = [opened EXCEPT ![d] = name[t]],
           fd' = [fd EXCEPT ![t] = d],
           UNCHANGED m_file
    PROVE  IInv'
<1> USE FileAssumption DEF IInv
<1>0. PICK o \in Outcomes(kind[t]) : out' = [out EXCEPT ![t] = o]
  BY DEF OutcomeKnown
<1>1. o \in Reports
  BY OutcomeType DEF TypeOK
<1>2. name[t] \in Names
  BY DEF OutcomeKnown, CallInv, DescriptorInv, StreamInv, TypeOK
<1>t. TypeOK'
  BY <1>0, <1>1, <1>2
    DEF TypeOK, Kinds, Blocks, setup, files, OutcomeKnown
<1>f. FileInv'
  BY <1>0, <1>1, <1>2
    DEF TypeOK, CallInv, LockerInv, DescriptorInv, StreamInv, StageInv,
        Operand, Exclusive, FileInv, StreamsNotLeaked, Blocks, setup, files,
        OutcomeKnown
<1>c. ASSUME NEW u \in Threads PROVE CallInv(u)'
  <2>1. CASE u = t
    BY <2>1, <1>0, <1>1, <1>2
      DEF TypeOK, CallInv, LockerInv, DescriptorInv, StreamInv, StageInv,
          Operand, Exclusive, FileInv, StreamsNotLeaked, Blocks, setup,
          files, OutcomeKnown
  <2>2. CASE u # t
    BY <2>2, <1>0, <1>1, <1>2
      DEF TypeOK, CallInv, LockerInv, DescriptorInv, StreamInv, StageInv,
          Operand, Exclusive, FileInv, StreamsNotLeaked, Blocks, setup,
          files, OutcomeKnown
  <2> QED
    BY <2>1, <2>2
<1>e. ASSUME NEW u \in Threads, NEW v \in Threads, u # v
      PROVE  Exclusive(u, v)'
  BY <1>e, <1>0, <1>1, <1>2
    DEF TypeOK, CallInv, LockerInv, DescriptorInv, StreamInv, StageInv,
        Operand, Exclusive, FileInv, StreamsNotLeaked, Blocks, setup, files,
        OutcomeKnown
<1> QED
  BY <1>t, <1>f, <1>c, <1>e

(* A file cannot be opened. *)
LEMMA OpenFailed ==
    ASSUME IInv,
           NEW t \in Threads,
           OutcomeKnown(t),
           kind[t] \in {"open", "temp"},
           fd' = [fd EXCEPT ![t] = -1],
           UNCHANGED <<opened, m_file>>
    PROVE  IInv'
<1> USE FileAssumption DEF IInv
<1>0. PICK o \in Outcomes(kind[t]) : out' = [out EXCEPT ![t] = o]
  BY DEF OutcomeKnown
<1>1. o \in Reports
  BY OutcomeType DEF TypeOK
<1>t. TypeOK'
  BY <1>0, <1>1
    DEF TypeOK, Kinds, Blocks, setup, files, OutcomeKnown
<1>f. FileInv'
  BY <1>0, <1>1
    DEF TypeOK, CallInv, LockerInv, DescriptorInv, StreamInv, StageInv,
        Operand, Exclusive, FileInv, StreamsNotLeaked, Blocks, setup, files,
        OutcomeKnown
<1>c. ASSUME NEW u \in Threads PROVE CallInv(u)'
  <2>1. CASE u = t
    BY <2>1, <1>0, <1>1
      DEF TypeOK, CallInv, LockerInv, DescriptorInv, StreamInv, StageInv,
          Operand, Exclusive, FileInv, StreamsNotLeaked, Blocks, setup,
          files, OutcomeKnown
  <2>2. CASE u # t
    BY <2>2, <1>0, <1>1
      DEF TypeOK, CallInv, LockerInv, DescriptorInv, StreamInv, StageInv,
          Operand, Exclusive, FileInv, StreamsNotLeaked, Blocks, setup,
          files, OutcomeKnown
  <2> QED
    BY <2>1, <2>2
<1>e. ASSUME NEW u \in Threads, NEW v \in Threads, u # v
      PROVE  Exclusive(u, v)'
  BY <1>e, <1>0, <1>1
    DEF TypeOK, CallInv, LockerInv, DescriptorInv, StreamInv, StageInv,
        Operand, Exclusive, FileInv, StreamsNotLeaked, Blocks, setup, files,
        OutcomeKnown
<1> QED
  BY <1>t, <1>f, <1>c, <1>e

(* A descriptor is closed. *)
LEMMA CloseDone ==
    ASSUME IInv,
           NEW t \in Threads,
           OutcomeKnown(t),
           kind[t] = "close",
           opened' = [opened EXCEPT ![fd[t]] = NULL],
           fd' = [fd EXCEPT ![t] = NULL],
           UNCHANGED m_file
    PROVE  IInv'
<1> USE FileAssumption DEF IInv
<1>0. PICK o \in Outcomes(kind[t]) : out' = [out EXCEPT ![t] = o]
  BY DEF OutcomeKnown
<1>1. o \in Reports
  BY OutcomeType DEF TypeOK
<1>2. fd[t] \in Descriptors
  BY DEF OutcomeKnown, CallInv, DescriptorInv, StreamInv, TypeOK
<1>t. TypeOK'
  BY <1>0, <1>1, <1>2
    DEF TypeOK, Kinds, Blocks, setup, files, OutcomeKnown
<1>f. FileInv'
  BY <1>0, <1>1, <1>2
    DEF TypeOK, CallInv, LockerInv, DescriptorInv, StreamInv, StageInv,
        Operand, Exclusive, FileInv, StreamsNotLeaked, Blocks, setup, files,
        OutcomeKnown
<1>c. ASSUME NEW u \in Threads PROVE CallInv(u)'
  <2>1. CASE u = t
    BY <2>1, <1>0, <1>1, <1>2
      DEF TypeOK, CallInv, LockerInv, DescriptorInv, StreamInv, StageInv,
          Operand, Exclusive, FileInv, StreamsNotLeaked, Blocks, setup,
          files, OutcomeKnown
  <2>2. CASE u # t
    BY <2>2, <1>0, <1>1, <1>2
      DEF TypeOK, CallInv, LockerInv, DescriptorInv, StreamInv, StageInv,
          Operand, Exclusive, FileInv, StreamsNotLeaked, Blocks, setup,
          files, OutcomeKnown
  <2> QED
    BY <2>1, <2>2
<1>e. ASSUME NEW u \in Threads, NEW v \in Threads, u # v
      PROVE  Exclusive(u, v)'
  BY <1>e, <1>0, <1>1, <1>2
    DEF TypeOK, CallInv, LockerInv, DescriptorInv, StreamInv, StageInv,
        Operand, Exclusive, FileInv, StreamsNotLeaked, Blocks, setup, files,
        OutcomeKnown
<1> QED
  BY <1>t, <1>f, <1>c, <1>e

(* A stream is opened, or cannot be. *)
LEMMA FopenDone ==
    ASSUME IInv,
           NEW t \in Threads,
           OutcomeKnown(t),
           kind[t] = "fopen",
           NEW f \in {NULL, name[t]},
           m_file' = [m_file EXCEPT ![stream[t]] = f],
           UNCHANGED <<opened, fd>>
    PROVE  IInv'
<1> USE FileAssumption DEF IInv
<1>0. PICK o \in Outcomes(kind[t]) : out' = [out EXCEPT ![t] = o]
  BY DEF OutcomeKnown
<1>1. o \in Reports
  BY OutcomeType DEF TypeOK
<1>2. stream[t] \in Streams /\ name[t] \in Names
  BY DEF OutcomeKnown, CallInv, DescriptorInv, StreamInv, TypeOK
<1>t. TypeOK'
  BY <1>0, <1>1, <1>2
    DEF TypeOK, Kinds, Blocks, setup, files, OutcomeKnown
<1>f. FileInv'
  BY <1>0, <1>1, <1>2
    DEF TypeOK, CallInv, LockerInv, DescriptorInv, StreamInv, StageInv,
        Operand, Exclusive, FileInv, StreamsNotLeaked, Blocks, setup, files,
        OutcomeKnown
<1>c. ASSUME NEW u \in Threads PROVE CallInv(u)'
  <2>1. CASE u = t
    BY <2>1, <1>0, <1>1, <1>2
      DEF TypeOK, CallInv, LockerInv, DescriptorInv, StreamInv, StageInv,
          Operand, Exclusive, FileInv, StreamsNotLeaked, Blocks, setup,
          files, OutcomeKnown
  <2>2. CASE u # t
    BY <2>2, <1>0, <1>1, <1>2
      DEF TypeOK, CallInv, LockerInv, DescriptorInv, StreamInv, StageInv,
          Operand, Exclusive, FileInv, StreamsNotLeaked, Blocks, setup,
          files, OutcomeKnown
  <2> QED
    BY <2>1, <2>2
<1>e. ASSUME NEW u \in Threads, NEW v \in Threads, u # v
      PROVE  Exclusive(u, v)'
  BY <1>e, <1>0, <1>1, <1>2
    DEF TypeOK, CallInv, LockerInv, DescriptorInv, StreamInv, StageInv,
        Operand, Exclusive, FileInv, StreamsNotLeaked, Blocks, setup, files,
        OutcomeKnown
<1> QED
  BY <1>t, <1>f, <1>c, <1>e

(* A stream is closed. *)
LEMMA FcloseDone ==
    ASSUME IInv,
           NEW t \in Threads,
           OutcomeKnown(t),
           kind[t] = "fclose",
           m_file' = [m_file EXCEPT ![stream[t]] = NULL],
           UNCHANGED <<opened, fd>>
    PROVE  IInv'
<1> USE FileAssumption DEF IInv
<1>0. PICK o \in Outcomes(kind[t]) : out' = [out EXCEPT ![t] = o]
  BY DEF OutcomeKnown
<1>1. o \in Reports
  BY OutcomeType DEF TypeOK
<1>2. stream[t] \in Streams
  BY DEF OutcomeKnown, CallInv, DescriptorInv, StreamInv, TypeOK
<1>t. TypeOK'
  BY <1>0, <1>1, <1>2
    DEF TypeOK, Kinds, Blocks, setup, files, OutcomeKnown
<1>f. FileInv'
  BY <1>0, <1>1, <1>2
    DEF TypeOK, CallInv, LockerInv, DescriptorInv, StreamInv, StageInv,
        Operand, Exclusive, FileInv, StreamsNotLeaked, Blocks, setup, files,
        OutcomeKnown
<1>c. ASSUME NEW u \in Threads PROVE CallInv(u)'
  <2>1. CASE u = t
    BY <2>1, <1>0, <1>1, <1>2
      DEF TypeOK, CallInv, LockerInv, DescriptorInv, StreamInv, StageInv,
          Operand, Exclusive, FileInv, StreamsNotLeaked, Blocks, setup,
          files, OutcomeKnown
  <2>2. CASE u # t
    BY <2>2, <1>0, <1>1, <1>2
      DEF TypeOK, CallInv, LockerInv, DescriptorInv, StreamInv, StageInv,
          Operand, Exclusive, FileInv, StreamsNotLeaked, Blocks, setup,
          files, OutcomeKnown
  <2> QED
    BY <2>1, <2>2
<1>e. ASSUME NEW u \in Threads, NEW v \in Threads, u # v
      PROVE  Exclusive(u, v)'
  BY <1>e, <1>0, <1>1, <1>2
    DEF TypeOK, CallInv, LockerInv, DescriptorInv, StreamInv, StageInv,
        Operand, Exclusive, FileInv, StreamsNotLeaked, Blocks, setup, files,
        OutcomeKnown
<1> QED
  BY <1>t, <1>f, <1>c, <1>e

(* An operation that opens or closes nothing. *)
LEMMA OtherDone ==
    ASSUME IInv,
           NEW t \in Threads,
           OutcomeKnown(t),
           kind[t] \notin {"open", "temp", "close", "fopen", "fclose"},
           UNCHANGED <<opened, m_file, fd>>
    PROVE  IInv'
<1> USE FileAssumption DEF IInv
<1>0. PICK o \in Outcomes(kind[t]) : out' = [out EXCEPT ![t] = o]
  BY DEF OutcomeKnown
<1>1. o \in Reports
  BY OutcomeType DEF TypeOK
<1>t. TypeOK'
  BY <1>0, <1>1
    DEF TypeOK, Kinds, Blocks, setup, files, OutcomeKnown
<1>f. FileInv'
  BY <1>0, <1>1
    DEF TypeOK, CallInv, LockerInv, DescriptorInv, StreamInv, StageInv,
        Operand, Exclusive, FileInv, StreamsNotLeaked, Blocks, setup, files,
        OutcomeKnown
<1>c. ASSUME NEW u \in Threads PROVE CallInv(u)'
  <2>1. CASE u = t
    BY <2>1, <1>0, <1>1
      DEF TypeOK, CallInv, LockerInv, DescriptorInv, StreamInv, StageInv,
          Operand, Exclusive, FileInv, StreamsNotLeaked, Blocks, setup,
          files, OutcomeKnown
  <2>2. CASE u # t
    BY <2>2, <1>0, <1>1
      DEF TypeOK, CallInv, LockerInv, DescriptorInv, StreamInv, StageInv,
          Operand, Exclusive, FileInv, StreamsNotLeaked, Blocks, setup,
          files, OutcomeKnown
  <2> QED
    BY <2>1, <2>2
<1>e. ASSUME NEW u \in Threads, NEW v \in Threads, u # v
      PROVE  Exclusive(u, v)'
  BY <1>e, <1>0, <1>1
    DEF TypeOK, CallInv, LockerInv, DescriptorInv, StreamInv, StageInv,
        Operand, Exclusive, FileInv, StreamsNotLeaked, Blocks, setup, files,
        OutcomeKnown
<1> QED
  BY <1>t, <1>f, <1>c, <1>e

(* The real operation.                                                     *)
LEMMA OperationDone ==
    ASSUME IInv, NEW t \in Threads, RealOperation(t)
    PROVE  IInv'
<1>0. OutcomeKnown(t)
  BY DEF RealOperation, OutcomeKnown
<1>1. CASE kind[t] \in {"open", "temp"}
  <2>1. \/ \E d \in Descriptors : /\ opened[d] = NULL
                                  /\ opened' = [opened EXCEPT ![d] = name[t]]
                                  /\ fd' = [fd EXCEPT ![t] = d]
                                  /\ UNCHANGED m_file
        \/ fd' = [fd EXCEPT ![t] = -1] /\ UNCHANGED <<opened, m_file>>
    BY <1>1 DEF RealOperation
  <2> QED
    BY <2>1, <1>0, <1>1, OpenDone, OpenFailed
<1>2. CASE kind[t] = "close"
  <2>1. /\ opened' = [opened EXCEPT ![fd[t]] = NULL]
        /\ fd' = [fd EXCEPT ![t] = NULL]
        /\ UNCHANGED m_file
    BY <1>2 DEF RealOperation
  <2> QED
    BY <2>1, <1>0, <1>2, CloseDone
<1>3. CASE kind[t] = "fopen"
  <2>1. /\ \E f \in {NULL, name[t]} :
              m_file' = [m_file EXCEPT ![stream[t]] = f]
        /\ UNCHANGED <<opened, fd>>
    BY <1>3 DEF RealOperation
  <2> QED
    BY <2>1, <1>0, <1>3, FopenDone
<1>4. CASE kind[t] = "fclose"
  <2>1. /\ m_file' = [m_file EXCEPT ![stream[t]] = NULL]
        /\ UNCHANGED <<opened, fd>>
    BY <1>4 DEF RealOperation
  <2> QED
    BY <2>1, <1>0, <1>4, FcloseDone
<1>5. CASE kind[t] \notin {"open", "temp", "close", "fopen", "fclose"}
  BY <1>0, <1>5, OtherDone DEF RealOperation
<1> QED
  BY <1>1, <1>2, <1>3, <1>4, <1>5

(* The wait ends and the call returns. *)
LEMMA CallReturns ==
    ASSUME IInv,
           NEW t \in Threads,
           ReturnFromCall(t)
    PROVE  IInv'
<1> USE FileAssumption DEF IInv
<1>1. wait' = [wait EXCEPT ![t] = NULL]
  BY DEF ReturnFromCall, end_file_wait, EndWait, CallInv, LockerInv, TypeOK
<1>2. \/ bound' = bound
      \/ /\ kind[t] \in {"open", "temp"} /\ fd[t] \in Descriptors
         /\ PSI_server # NULL /\ name[t] \in Names
         /\ bound' = [bound EXCEPT ![fd[t]] = name[t]]
  <2>1. CASE kind[t] = "open"
    BY <2>1 DEF ReturnFromCall, Bindings, CallInv, LockerInv, DescriptorInv, TypeOK,
        end_file_open_wait_and_bind_to_descriptor
  <2>2. CASE kind[t] = "temp"
    BY <2>2 DEF ReturnFromCall, Bindings, CallInv, DescriptorInv, create_file,
        TypeOK
  <2>3. CASE kind[t] \notin {"open", "temp"}
    BY <2>3 DEF ReturnFromCall, Bindings
  <2> QED
    BY <2>1, <2>2, <2>3
<1>3. NoOutcome \in Reports
  BY DEF NoOutcome, Reports
<1>t. TypeOK'
  BY <1>1, <1>2, <1>3
    DEF TypeOK, Kinds, Blocks, setup, files, ReturnFromCall, Leave, Freed
<1>f. FileInv'
  BY <1>1, <1>2, <1>3
    DEF TypeOK, CallInv, LockerInv, DescriptorInv, StreamInv, StageInv,
        Operand, Exclusive, FileInv, StreamsNotLeaked, Blocks, setup, files,
        ReturnFromCall, Leave, Freed
<1>c. ASSUME NEW u \in Threads PROVE CallInv(u)'
  <2>1. CASE u = t
    BY <2>1, <1>1, <1>2, <1>3
      DEF TypeOK, CallInv, LockerInv, DescriptorInv, StreamInv, StageInv,
          Operand, Exclusive, FileInv, StreamsNotLeaked, Blocks, setup,
          files, ReturnFromCall, Leave, Freed
  <2>2. CASE u # t
    BY <2>2, <1>1, <1>2, <1>3
      DEF TypeOK, CallInv, LockerInv, DescriptorInv, StreamInv, StageInv,
          Operand, Exclusive, FileInv, StreamsNotLeaked, Blocks, setup,
          files, ReturnFromCall, Leave, Freed
  <2> QED
    BY <2>1, <2>2
<1>e. ASSUME NEW u \in Threads, NEW v \in Threads, u # v
      PROVE  Exclusive(u, v)'
  BY <1>e, <1>1, <1>2, <1>3
    DEF TypeOK, CallInv, LockerInv, DescriptorInv, StreamInv, StageInv,
        Operand, Exclusive, FileInv, StreamsNotLeaked, Blocks, setup, files,
        ReturnFromCall, Leave, Freed
<1> QED
  BY <1>t, <1>f, <1>c, <1>e

(* The interface is attached, or the instruments registered. *)
LEMMA InterfaceAttached ==
    ASSUME IInv,
           AttachInterface \/ RegisterInstruments
    PROVE  IInv'
<1> USE FileAssumption DEF IInv
<1>1. PSI_server' \in {NULL, PSI_v1}
  BY DEF AttachInterface, RegisterInstruments, get_interface,
      PSI_CURRENT_VERSION, PSI_VERSION_1, TypeOK
<1>2. key' \in [PSI_kinds -> PSI_key]
  BY DEF AttachInterface, RegisterInstruments, register, PSI_info, TypeOK, PSI_kinds,
      PSI_key
<1>3. PSI_server # NULL => PSI_server' # NULL
  BY DEF AttachInterface, RegisterInstruments
<1>t. TypeOK'
  BY <1>1, <1>2, <1>3
    DEF TypeOK, Kinds, Blocks, setup, files, AttachInterface,
        RegisterInstruments
<1>f. FileInv'
  BY <1>1, <1>2, <1>3
    DEF TypeOK, CallInv, LockerInv, DescriptorInv, StreamInv, StageInv,
        Operand, Exclusive, FileInv, StreamsNotLeaked, Blocks, setup, files,
        AttachInterface, RegisterInstruments
<1>c. ASSUME NEW u \in Threads PROVE CallInv(u)'
  BY <1>1, <1>2, <1>3
    DEF TypeOK, CallInv, LockerInv, DescriptorInv, StreamInv, StageInv,
        Operand, Exclusive, FileInv, StreamsNotLeaked, Blocks, setup, files,
        AttachInterface, RegisterInstruments
<1>e. ASSUME NEW u \in Threads, NEW v \in Threads, u # v
      PROVE  Exclusive(u, v)'
  BY <1>e, <1>1, <1>2, <1>3
    DEF TypeOK, CallInv, LockerInv, DescriptorInv, StreamInv, StageInv,
        Operand, Exclusive, FileInv, StreamsNotLeaked, Blocks, setup, files,
        AttachInterface, RegisterInstruments
<1> QED
  BY <1>t, <1>f, <1>c, <1>e
-----------------------------------------------------------------------------
(* Each wrapper keeps the invariant.                                       *)
LEMMA StreamCallsKeep ==
    ASSUME IInv, NEW t \in Threads, TextCalls(t) \/ StreamCalls(t)
    PROVE  IInv'
<1>1. PICK s \in Streams :
         \/ \E op \in PSI_file_operation,
               k \in Blocks \cup {"line", "char", "string", "format",
                                  "other", "fclose"} : StreamCall(t, s, op, k)
         \/ \E n \in Names : inline_mysql_file_fopen(t, s, n)
  BY DEF TextCalls, StreamCalls, inline_mysql_file_fgets,
      inline_mysql_file_fgetc,
      inline_mysql_file_fputs, inline_mysql_file_fputc,
      inline_mysql_file_fprintf, inline_mysql_file_vfprintf,
      inline_mysql_file_fflush, inline_mysql_file_fseek,
      inline_mysql_file_ftell, inline_mysql_file_fclose,
      inline_mysql_file_fread, inline_mysql_file_fwrite, Blocks,
      PSI_file_operation
<1> QED
  BY <1>1, StreamCallEnters, FopenEnters

LEMMA SizeCallsKeep ==
    ASSUME IInv, NEW t \in Threads, SizeCalls(t) \/ SyncCalls(t)
    PROVE  IInv'
<1>1. \/ \E d \in Descriptors,
            op \in PSI_file_operation \ {"PSI_FILE_CLOSE"},
            k \in Blocks \cup {"chsize", "other"} :
                DescriptorCall(t, d, op, k)
      \/ \E n \in Names, op \in PSI_file_operation, k \in {"open", "other"} :
            NameCall(t, n, op, k)
  BY DEF SizeCalls, SyncCalls, inline_mysql_file_fstat,
      inline_mysql_file_chsize, inline_mysql_file_stat,
      inline_mysql_file_sync, PSI_file_operation
<1> QED
  BY <1>1, DescriptorCallEnters, NameCallEnters

LEMMA DescriptorCallsKeep ==
    ASSUME IInv, NEW t \in Threads, DescriptorCalls(t)
    PROVE  IInv'
<1>1. PICK d \in Descriptors :
         \/ \E op \in PSI_file_operation \ {"PSI_FILE_CLOSE"},
               k \in Blocks \cup {"chsize", "other"} :
                  DescriptorCall(t, d, op, k)
         \/ inline_mysql_file_close(t, d)
  BY DEF DescriptorCalls, inline_mysql_file_seek, inline_mysql_file_tell,
      inline_mysql_file_read, inline_mysql_file_write,
      inline_mysql_file_pread, inline_mysql_file_pwrite, Blocks,
      PSI_file_operation
<1> QED
  BY <1>1, DescriptorCallEnters, CloseEnters

LEMMA NameCallsKeep ==
    ASSUME IInv, NEW t \in Threads, OpenCalls(t) \/ NameCalls(t)
    PROVE  IInv'
<1>1. PICK n \in Names :
         \/ \E op \in PSI_file_operation, k \in {"open", "other"} :
               NameCall(t, n, op, k)
         \/ inline_mysql_file_create_temp(t, n)
  BY DEF OpenCalls, NameCalls, inline_mysql_file_open,
      inline_mysql_file_create, inline_mysql_file_create_with_symlink,
      inline_mysql_file_delete, inline_mysql_file_rename,
      inline_mysql_file_delete_with_symlink,
      inline_mysql_file_rename_with_symlink, PSI_file_operation
<1> QED
  BY <1>1, NameCallEnters, TempEnters

LEMMA StutterKeeps ==
    ASSUME IInv, UNCHANGED vars
    PROVE  IInv'
BY DEF IInv, TypeOK, FileInv, StreamsNotLeaked, CallInv, LockerInv,
    DescriptorInv, StreamInv, StageInv, Operand, Exclusive, vars, setup, files

LEMMA InitHolds == Init => IInv
<1> SUFFICES ASSUME Init PROVE IInv
  OBVIOUS
<1> USE FileAssumption DEF Init
<1>1. NoOutcome \in Reports
  BY DEF NoOutcome, Reports
<1>2. TypeOK
  BY <1>1 DEF TypeOK, PSI_kinds, PSI_key, Kinds
<1>3. FileInv
  BY DEF FileInv, StreamsNotLeaked
<1>4. ASSUME NEW t \in Threads PROVE CallInv(t)
  BY DEF CallInv, LockerInv, DescriptorInv, StreamInv, StageInv, Blocks
<1>5. ASSUME NEW t \in Threads, NEW u \in Threads PROVE Exclusive(t, u)
  BY DEF Exclusive
<1> QED
  BY <1>2, <1>3, <1>4, <1>5 DEF IInv

(* The inductive invariant holds in every reachable state.                 *)
THEOREM FileInvariance == Spec => []IInv
<1>1. IInv /\ [Next]_vars => IInv'
  <2> SUFFICES ASSUME IInv, [Next]_vars PROVE IInv'
    OBVIOUS
  <2>0. ASSUME NEW t \in Threads, SizeCalls(t) \/ SyncCalls(t) PROVE IInv'
    BY <2>0, SizeCallsKeep
  <2>1. ASSUME NEW t \in Threads, TextCalls(t) \/ StreamCalls(t) PROVE IInv'
    BY <2>1, StreamCallsKeep
  <2>2. ASSUME NEW t \in Threads, DescriptorCalls(t) PROVE IInv'
    BY <2>2, DescriptorCallsKeep
  <2>3. ASSUME NEW t \in Threads, OpenCalls(t) \/ NameCalls(t) PROVE IInv'
    BY <2>3, NameCallsKeep
  <2>4. ASSUME NEW t \in Threads, RealOperation(t) PROVE IInv'
    BY <2>4, OperationDone
  <2>5. ASSUME NEW t \in Threads, ReturnFromCall(t) PROVE IInv'
    BY <2>5, CallReturns
  <2>6. ASSUME AttachInterface \/ RegisterInstruments PROVE IInv'
    BY <2>6, InterfaceAttached
  <2>7. CASE UNCHANGED vars
    BY <2>7, StutterKeeps
  <2> QED
    BY <2>0, <2>1, <2>2, <2>3, <2>4, <2>5, <2>6, <2>7 DEF Next
<1> QED
  BY <1>1, InitHolds, PTL DEF Spec

(* Every variable of the file wrappers stays in its type.                  *)
THEOREM FileTypeCorrect == Spec => []TypeOK
<1>1. IInv => TypeOK
  BY DEF IInv
<1> QED
  BY <1>1, FileInvariance, PTL

(* A descriptor is bound only to the file it was opened by and a locker    *)
(* names the file operated on, for any threads and any reuse of            *)
(* descriptor numbers by mysql_file_open and mysql_file_close.             *)
THEOREM AttributionHolds == Spec => []AttributionIsTrue
<1>1. IInv => AttributionIsTrue
  BY DEF IInv, AttributionIsTrue, FileInv, CallInv, LockerInv
<1> QED
  BY <1>1, FileInvariance, PTL

(* Every file wrapper ends the wait it started, on every path.             *)
THEOREM FileWaitsMatchCalls == Spec => []WaitsMatchCalls
<1>1. IInv => WaitsMatchCalls
  BY DEF IInv, WaitsMatchCalls, CallInv, LockerInv
<1> QED
  BY <1>1, FileInvariance, PTL

(* mysql_file_fopen and mysql_file_fclose leak no MYSQL_FILE and free none *)
(* that is in use.                                                         *)
THEOREM StreamsNotLeakedHolds == Spec => []StreamsNotLeaked
<1>1. IInv => StreamsNotLeaked
  BY DEF IInv, FileInv
<1> QED
  BY <1>1, FileInvariance, PTL

(* The byte counts reported for reads and writes of blocks, with or        *)
(* without MY_NABP, never exceed what was moved and are exact on success.  *)
THEOREM BlockCountsHold == Spec => []BlockCountsTrue
<1>1. ASSUME IInv, NEW t \in Threads, pc[t] = "done", kind[t] \in Blocks
      PROVE  /\ EndCount(kind[t], out[t]) \in 0 .. out[t].moved
             /\ ~out[t].failed => EndCount(kind[t], out[t]) = out[t].moved
  <2>0. out[t] \in Outcomes(kind[t])
    BY <1>1 DEF IInv, CallInv, StageInv
  <2>1. CASE kind[t] = "block"
    <3>1. /\ out[t].result \in -1 .. Size /\ out[t].moved \in 0 .. Size
          /\ out[t].failed \in BOOLEAN
          /\ out[t].result = IF out[t].failed THEN -1 ELSE out[t].moved
      BY <2>0, <2>1, FileAssumption DEF Outcomes, Result, MY_FILE_ERROR
    <3>2. EndCount(kind[t], out[t])
             = IF out[t].result # -1 THEN out[t].result ELSE 0
      BY <2>1 DEF EndCount, bytes_moved, MY_FILE_ERROR
    <3> QED
      BY <3>1, <3>2, FileAssumption
  <2>2. CASE kind[t] = "block_nabp"
    <3>1. /\ out[t].result \in -1 .. Size /\ out[t].moved \in 0 .. Size
          /\ out[t].failed \in BOOLEAN
          /\ out[t].result = IF out[t].failed THEN -1 ELSE 0
          /\ out[t].failed <=> out[t].moved < Size
      BY <2>0, <2>2, FileAssumption DEF Outcomes, Result, MY_FILE_ERROR
    <3>2. EndCount(kind[t], out[t]) = IF out[t].result = 0 THEN Size ELSE 0
      BY <2>2 DEF EndCount, bytes_moved, MY_FILE_ERROR
    <3> QED
      BY <3>1, <3>2, FileAssumption
  <2> QED
    BY <2>1, <2>2, <1>1 DEF Blocks
<1>2. IInv => BlockCountsTrue
  BY <1>1 DEF BlockCountsTrue
<1> QED
  BY <1>2, FileInvariance, PTL
=============================================================================
