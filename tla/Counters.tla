------------------------------ MODULE Counters ------------------------------
(* The counters of my_pthread.h: thread_safe_increment/decrement/add/sub,  *)
(* statistic_* and status_var_*.  An operation that is one expression in C *)
(* is a load and a store here, unless it is an Interlocked function of     *)
(* Windows.  Increment and decrement are add and sub of 1; sub adds the    *)
(* negative amount.  The counters are unsigned words and wrap around.      *)
EXTENDS Integers

CONSTANTS
    Threads,
    Amounts,    \* what is counted: 1 for an increment, the argument of an add
    Word,       \* the number of values of a counter
    NULL        \* no thread

ASSUME CounterAssumption ==
    /\ Amounts \subseteq Nat /\ Word \in Nat \ {0} /\ NULL \notin Threads

Build == [_WIN32 : BOOLEAN, SAFE_STATISTICS : BOOLEAN]
Counter == {"safe", "statistic", "status"}
Values == 0 .. Word - 1
Adds == Amounts \union {-a : a \in Amounts}

VARIABLES
    build,      \* how the program is compiled
    V,          \* the two shared counters
    own,        \* the counter each thread has for itself
    L,          \* the mutex that is given with a shared counter: its owner
    pc,         \* where a thread is in an operation
    op,         \* the counter the operation is on
    C,          \* its amount
    reg,        \* the value it has loaded
    exact,      \* what the shared counters should be
    ownExact,   \* and the counters of the threads
    raced       \* two unprotected operations have overlapped

vars == <<build, V, own, L, pc, op, C, reg, exact, ownExact, raced>>

Init ==
    /\ build \in Build
    /\ V = [c \in {"safe", "statistic"} |-> 0] /\ exact = V
    /\ own = [t \in Threads |-> 0] /\ ownExact = own
    /\ L = NULL
    /\ pc = [t \in Threads |-> "idle"]
    /\ op = [t \in Threads |-> "status"]
    /\ C = [t \in Threads |-> 0]
    /\ reg = [t \in Threads |-> 0]
    /\ raced = FALSE
-----------------------------------------------------------------------------
(* Which operations are thread_safe_* operations.                          *)
Locked(c) == c = "safe" \/ (c = "statistic" /\ build.SAFE_STATISTICS)

Begin(t, c, a) ==
    /\ pc[t] = "idle"
    /\ op' = [op EXCEPT ![t] = c] /\ C' = [C EXCEPT ![t] = a]
    /\ pc' = [pc EXCEPT ![t] = IF ~Locked(c) THEN "load"
                               ELSE IF build._WIN32 THEN "interlocked"
                               ELSE "lock"]
    /\ UNCHANGED <<build, V, own, L, reg, exact, ownExact, raced>>

Interlocked(t) ==
    /\ pc[t] = "interlocked"
    /\ V' = [V EXCEPT ![op[t]] = (@ + C[t]) % Word]
    /\ exact' = [exact EXCEPT ![op[t]] = (@ + C[t]) % Word]
    /\ pc' = [pc EXCEPT ![t] = "return"]
    /\ UNCHANGED <<build, own, L, op, C, reg, ownExact, raced>>

(* mutant: the mutex is taken whoever has it.                              *)
Lock_Anyway(t) ==
    /\ pc[t] = "lock"
    /\ L' = t
    /\ pc' = [pc EXCEPT ![t] = "load"]
    /\ UNCHANGED <<build, V, own, op, C, reg, exact, ownExact, raced>>
Lock(t) ==
    /\ pc[t] = "lock" /\ L = NULL
    /\ L' = t
    /\ pc' = [pc EXCEPT ![t] = "load"]
    /\ UNCHANGED <<build, V, own, op, C, reg, exact, ownExact, raced>>

(* mutant: a counter of its own is looked for in the shared ones.          *)
Current_Shared(t) == IF op[t] = "status" THEN V["statistic"] ELSE V[op[t]]
Current(t) == IF op[t] = "status" THEN own[t] ELSE V[op[t]]

Load(t) ==
    /\ pc[t] = "load"
    /\ reg' = [reg EXCEPT ![t] = Current(t)]
    /\ raced' = (raced \/ \E u \in Threads \ {t} :
                    /\ pc[u] = "store"
                    /\ op[u] = "statistic" /\ op[t] = "statistic")
    /\ pc' = [pc EXCEPT ![t] = "store"]
    /\ UNCHANGED <<build, V, own, L, op, C, exact, ownExact>>

(* Under the mutex it is still to be released, otherwise this is all.      *)
Store(t) ==
    /\ pc[t] = "store"
    /\ IF op[t] = "status"
       THEN /\ own' = [own EXCEPT ![t] = (reg[t] + C[t]) % Word]
            /\ ownExact' = [ownExact EXCEPT ![t] = (@ + C[t]) % Word]
            /\ UNCHANGED <<V, exact>>
       ELSE /\ V' = [V EXCEPT ![op[t]] = (reg[t] + C[t]) % Word]
            /\ exact' = [exact EXCEPT ![op[t]] = (@ + C[t]) % Word]
            /\ UNCHANGED <<own, ownExact>>
    /\ pc' = [pc EXCEPT ![t] = IF Locked(op[t]) THEN "unlock" ELSE "return"]
    /\ UNCHANGED <<build, L, op, C, reg, raced>>

(* mutant: the mutex is kept until somebody asks for it.                   *)
Unlock_WhenAsked(t) ==
    /\ pc[t] = "unlock" /\ \E u \in Threads : pc[u] = "lock"
    /\ L' = NULL
    /\ pc' = [pc EXCEPT ![t] = "return"]
    /\ UNCHANGED <<build, V, own, op, C, reg, exact, ownExact, raced>>
Unlock(t) ==
    /\ pc[t] = "unlock"
    /\ L' = NULL
    /\ pc' = [pc EXCEPT ![t] = "return"]
    /\ UNCHANGED <<build, V, own, op, C, reg, exact, ownExact, raced>>

Return(t) ==
    /\ pc[t] = "return"
    /\ pc' = [pc EXCEPT ![t] = "idle"]
    /\ op' = [op EXCEPT ![t] = "status"]
    /\ C' = [C EXCEPT ![t] = 0] /\ reg' = [reg EXCEPT ![t] = 0]
    /\ UNCHANGED <<build, V, own, L, exact, ownExact, raced>>

Step(t) == Interlocked(t) \/ Lock(t) \/ Load(t) \/ Store(t) \/ Unlock(t)
           \/ Return(t)
Next == \E t \in Threads :
    \/ \E c \in Counter, a \in Adds : Begin(t, c, a)
    \/ Step(t)

Spec == Init /\ [][Next]_vars
(* A thread that is in an operation and can go on does.                    *)
FairSpec == Spec /\ \A t \in Threads : WF_vars(Step(t))
-----------------------------------------------------------------------------
(* Every variable stays in its type.                                       *)
TypeOK ==
    /\ build \in Build
    /\ V \in [{"safe", "statistic"} -> Values]
    /\ exact \in [{"safe", "statistic"} -> Values]
    /\ own \in [Threads -> Values] /\ ownExact \in [Threads -> Values]
    /\ L \in Threads \union {NULL}
    /\ pc \in [Threads -> {"idle", "interlocked", "lock", "load", "store",
                           "unlock", "return"}]
    /\ op \in [Threads -> Counter]
    /\ C \in [Threads -> Adds \union {0}]
    /\ reg \in [Threads -> Values]
    /\ raced \in BOOLEAN

(* "thread_safe_xxx functions ... guaranteed to be thread safe, on all     *)
(* platforms": no update of such a counter is lost, nor of a statistic     *)
(* when compiled with SAFE_STATISTICS.                                     *)
NothingLost == \A c \in {"safe", "statistic"} :
    c = "safe" \/ build.SAFE_STATISTICS => V[c] = exact[c]

(* "No locking needed, the counter is owned by the thread", whatever the   *)
(* other threads do; and a statistic without SAFE_STATISTICS is inaccurate *)
(* only where race conditions have occurred.                               *)
InaccurateOnlyByRace ==
    /\ \A t \in Threads : own[t] = ownExact[t]
    /\ ~raced => V["statistic"] = exact["statistic"]

(* The refinement mapping: how far a call on a thread safe counter is.     *)
CallPhase(t) == IF op[t] # "safe" \/ pc[t] = "idle" THEN "idle"
                ELSE IF pc[t] \in {"unlock", "return"} THEN "applied"
                ELSE "invoked"
CallAmount(t) == IF op[t] = "safe" THEN C[t] ELSE 0
Atomic == INSTANCE AtomicCounter WITH
    Amounts <- Adds,
    value <- V["safe"],
    phase <- [t \in Threads |-> CallPhase(t)],
    amount <- [t \in Threads |-> CallAmount(t)]
(* A thread safe counter is an atomic counter: every thread_safe_xxx       *)
(* operation takes effect at one moment between its call and its return.   *)
AtomicSpec == Atomic!ASpec

(* The mutex is given back, whatever the threads count.                    *)
MutexGivenBack == \A t \in Threads : L = t ~> L # t
=============================================================================
