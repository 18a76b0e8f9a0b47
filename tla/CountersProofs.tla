--------------------------- MODULE CountersProofs ---------------------------
(* Proofs about Counters, for any threads, amounts and width of a counter. *)
EXTENDS Counters, TLAPS

Shared == {"safe", "statistic"}

(* The mutex excludes: who is between Lock and Unlock has it, and what     *)
(* such a thread has loaded is still the value of the counter.             *)
Holding(t) == pc[t] \in {"load", "store", "unlock"} /\ Locked(op[t])
ThreadInv(t) ==
    /\ Holding(t) => L = t
    /\ pc[t] \in {"lock", "interlocked", "unlock"} => Locked(op[t])
    /\ pc[t] = "idle" => op[t] = "status" /\ C[t] = 0
    /\ pc[t] = "store" /\ Locked(op[t]) => reg[t] = V[op[t]]
    /\ pc[t] \in {"lock", "load", "store", "unlock"} /\ Locked(op[t]) =>
          ~build._WIN32
    /\ pc[t] = "interlocked" => build._WIN32
    /\ pc[t] = "store" /\ op[t] = "status" => reg[t] = own[t]
    /\ own[t] = ownExact[t]

IInv == TypeOK /\ NothingLost /\ \A t \in Threads : ThreadInv(t)

LEMMA AddsAreInt == \A a \in Adds \union {0} : a \in Int
<1>1. \A a \in Amounts : a \in Int /\ -a \in Int
  BY CounterAssumption
<1> QED
  BY <1>1 DEF Adds

LEMMA Wraps == ASSUME NEW v \in Int PROVE v % Word \in Values
BY CounterAssumption DEF Values

LEMMA InitIInv == Init => IInv
<1> SUFFICES ASSUME Init PROVE IInv
  OBVIOUS
<1>1. 0 \in Values
  BY CounterAssumption DEF Values
<1>2. TypeOK
  BY <1>1 DEF Init, TypeOK, Counter
<1>3. NothingLost
  BY DEF Init, NothingLost
<1>4. ASSUME NEW t \in Threads PROVE ThreadInv(t)
  BY DEF Init, ThreadInv, Holding
<1> QED
  BY <1>2, <1>3, <1>4 DEF IInv

LEMMA BeginKeeps ==
    ASSUME IInv, NEW t \in Threads, NEW c \in Counter, NEW a \in Adds,
           Begin(t, c, a)
    PROVE  IInv'
<1>1. TypeOK'
  BY DEF IInv, TypeOK, Begin, Values
<1>2. NothingLost'
  BY DEF IInv, NothingLost, Begin
<1>3. ASSUME NEW u \in Threads PROVE ThreadInv(u)'
  BY DEF IInv, TypeOK, ThreadInv, Holding, Locked, Begin, Build
<1> QED
  BY <1>1, <1>2, <1>3 DEF IInv

LEMMA InterlockedKeeps ==
    ASSUME IInv, NEW t \in Threads, Interlocked(t)
    PROVE  IInv'
<1>1. op[t] \in Shared /\ Locked(op[t]) /\ build._WIN32
  BY DEF IInv, ThreadInv, Interlocked, Locked, Shared
<1>2. /\ V[op[t]] \in Int /\ exact[op[t]] \in Int /\ C[t] \in Int
      /\ V[op[t]] + C[t] \in Int /\ exact[op[t]] + C[t] \in Int
  BY <1>1, AddsAreInt DEF IInv, TypeOK, Values, Shared
<1>3. TypeOK'
  BY <1>1, <1>2, Wraps DEF IInv, TypeOK, Interlocked, Shared
<1>4. NothingLost'
  BY <1>1, <1>2 DEF IInv, TypeOK, NothingLost, Interlocked, Shared, Locked
<1>5. ASSUME NEW u \in Threads PROVE ThreadInv(u)'
  BY <1>1 DEF IInv, TypeOK, ThreadInv, Holding, Locked, Interlocked
<1> QED
  BY <1>3, <1>4, <1>5 DEF IInv

LEMMA LockKeeps ==
    ASSUME IInv, NEW t \in Threads, Lock(t)
    PROVE  IInv'
<1>1. TypeOK'
  BY DEF IInv, TypeOK, Lock
<1>2. NothingLost'
  BY DEF IInv, NothingLost, Lock
<1>3. ASSUME NEW u \in Threads PROVE ThreadInv(u)'
  BY CounterAssumption DEF IInv, TypeOK, ThreadInv, Holding, Locked, Lock
<1> QED
  BY <1>1, <1>2, <1>3 DEF IInv

LEMMA LoadKeeps ==
    ASSUME IInv, NEW t \in Threads, Load(t)
    PROVE  IInv'
<1>1. Current(t) \in Values
  BY DEF IInv, TypeOK, Current, Counter
<1>2. TypeOK'
  BY <1>1 DEF IInv, TypeOK, Load
<1>3. NothingLost'
  BY DEF IInv, NothingLost, Load
<1>4. ASSUME NEW u \in Threads PROVE ThreadInv(u)'
  BY DEF IInv, TypeOK, ThreadInv, Holding, Locked, Load, Current
<1> QED
  BY <1>2, <1>3, <1>4 DEF IInv

LEMMA StoreKeeps ==
    ASSUME IInv, NEW t \in Threads, Store(t)
    PROVE  IInv'
<1>1. /\ C[t] \in Int /\ reg[t] \in Int /\ ownExact[t] \in Int
      /\ reg[t] + C[t] \in Int /\ ownExact[t] + C[t] \in Int
  BY AddsAreInt DEF IInv, TypeOK, Values
<1>2. ASSUME op[t] # "status"
      PROVE  /\ op[t] \in Shared /\ exact[op[t]] \in Int
             /\ exact[op[t]] + C[t] \in Int
  BY <1>1, <1>2 DEF IInv, TypeOK, Counter, Shared, Values
<1>3. TypeOK'
  <2>1. CASE op[t] = "status"
    BY <1>1, <2>1, Wraps DEF IInv, TypeOK, Store
  <2>2. CASE op[t] # "status"
    BY <1>1, <1>2, <2>2, Wraps DEF IInv, TypeOK, Store, Shared
  <2> QED
    BY <2>1, <2>2
<1>4. NothingLost'
  <2>1. CASE op[t] = "status"
    BY <2>1 DEF IInv, NothingLost, Store
  <2>2. CASE op[t] # "status"
    BY <1>2, <2>2 DEF IInv, TypeOK, NothingLost, ThreadInv, Locked, Store,
        Shared
  <2> QED
    BY <2>1, <2>2
<1>5. ASSUME NEW u \in Threads PROVE ThreadInv(u)'
  <2>1. CASE u = t
    BY <1>1, <2>1 DEF IInv, TypeOK, ThreadInv, Holding, Locked, Store
  <2>2. CASE u # t
    <3>1. ~(pc[u] = "store" /\ Locked(op[u]) /\ Locked(op[t]))
      BY <2>2 DEF IInv, ThreadInv, Holding, Store
    <3>2. pc[u] = "store" /\ Locked(op[u]) /\ op[t] # "status"
            => op[u] # op[t]
      BY <3>1
    <3>3. /\ pc'[u] = pc[u] /\ UNCHANGED <<L, op, C, reg, build>>
          /\ own'[u] = own[u] /\ ownExact'[u] = ownExact[u]
      BY <2>2 DEF IInv, TypeOK, Store
    <3>4. pc[u] = "store" /\ Locked(op[u]) => V'[op[u]] = V[op[u]]
      BY <3>2 DEF IInv, TypeOK, Store, Locked
    <3> QED
      BY <3>3, <3>4 DEF IInv, ThreadInv, Holding, Locked
  <2> QED
    BY <2>1, <2>2
<1> QED
  BY <1>3, <1>4, <1>5 DEF IInv

LEMMA UnlockKeeps ==
    ASSUME IInv, NEW t \in Threads, Unlock(t)
    PROVE  IInv'
<1>1. TypeOK'
  BY DEF IInv, TypeOK, Unlock
<1>2. NothingLost'
  BY DEF IInv, NothingLost, Unlock
<1>3. ASSUME NEW u \in Threads PROVE ThreadInv(u)'
  BY DEF IInv, TypeOK, ThreadInv, Holding, Locked, Unlock
<1> QED
  BY <1>1, <1>2, <1>3 DEF IInv

LEMMA ReturnKeeps ==
    ASSUME IInv, NEW t \in Threads, Return(t)
    PROVE  IInv'
<1>1. 0 \in Values
  BY CounterAssumption DEF Values
<1>2. TypeOK'
  BY <1>1 DEF IInv, TypeOK, Return, Counter
<1>3. NothingLost'
  BY DEF IInv, NothingLost, Return
<1>4. ASSUME NEW u \in Threads PROVE ThreadInv(u)'
  BY DEF IInv, TypeOK, ThreadInv, Holding, Locked, Return
<1> QED
  BY <1>2, <1>3, <1>4 DEF IInv

(* The inductive invariant holds throughout. *)
THEOREM CounterInvariance == Spec => []IInv
<1>1. IInv /\ [Next]_vars => IInv'
  <2> SUFFICES ASSUME IInv, [Next]_vars PROVE IInv'
    OBVIOUS
  <2>1. CASE UNCHANGED vars
    BY <2>1 DEF IInv, TypeOK, NothingLost, ThreadInv, Holding, Locked, vars
  <2>2. CASE Next
    BY <2>2, BeginKeeps, InterlockedKeeps, LockKeeps, LoadKeeps, StoreKeeps,
        UnlockKeeps, ReturnKeeps DEF Next, Step
  <2> QED
    BY <2>1, <2>2
<1> QED
  BY <1>1, InitIInv, PTL DEF Spec

(* Every variable of the counters stays in its type. *)
THEOREM CountersTypeCorrect == Spec => []TypeOK
<1>1. IInv => TypeOK
  BY DEF IInv
<1> QED
  BY <1>1, CounterInvariance, PTL

(* No update of a thread safe counter is ever lost, on either platform,    *)
(* nor of a statistic compiled with SAFE_STATISTICS.                       *)
THEOREM NothingLostHolds == Spec => []NothingLost
<1>1. IInv => NothingLost
  BY DEF IInv
<1> QED
  BY <1>1, CounterInvariance, PTL

(* thread_safe_add() and its kin implement an atomic counter: the whole    *)
(* operation takes effect at one moment between its call and its return.   *)
THEOREM AtomicImplemented == Spec => AtomicSpec
<1>1. Init => Atomic!AInit
  BY DEF Init, Atomic!AInit, CallPhase, CallAmount
<1>2. IInv /\ [Next]_vars => [Atomic!ANext]_(Atomic!avars)
  <2> SUFFICES ASSUME IInv, [Next]_vars
               PROVE  [Atomic!ANext]_(Atomic!avars)
    OBVIOUS
  <2>1. CASE UNCHANGED vars
    BY <2>1 DEF vars, Atomic!avars, CallPhase, CallAmount
  <2>2. ASSUME NEW t \in Threads, NEW c \in Counter, NEW a \in Adds,
               Begin(t, c, a)
        PROVE  [Atomic!ANext]_(Atomic!avars)
    <3>1. \A u \in Threads \ {t} : /\ CallPhase(u)' = CallPhase(u)
                                   /\ CallAmount(u)' = CallAmount(u)
      BY <2>2 DEF IInv, TypeOK, Begin, CallPhase, CallAmount
    <3>2. CallPhase(t) = "idle" /\ CallAmount(t) = 0 /\ UNCHANGED V
      BY <2>2 DEF IInv, ThreadInv, Begin, CallPhase, CallAmount
    <3>3. CASE c = "safe"
      <4>1. CallPhase(t)' = "invoked" /\ CallAmount(t)' = a
        BY <2>2, <3>3 DEF IInv, TypeOK, Begin, CallPhase, CallAmount, Locked
      <4>2. Atomic!Invoke(t)
        BY <3>1, <3>2, <4>1 DEF Atomic!Invoke
      <4> QED
        BY <4>2 DEF Atomic!ANext
    <3>4. CASE c # "safe"
      <4>1. CallPhase(t)' = "idle" /\ CallAmount(t)' = 0
        BY <2>2, <3>4 DEF IInv, TypeOK, Begin, CallPhase, CallAmount
      <4> QED
        BY <3>1, <3>2, <4>1 DEF Atomic!avars
    <3> QED
      BY <3>3, <3>4
  <2>3. ASSUME NEW t \in Threads, Interlocked(t) \/ Store(t)
        PROVE  [Atomic!ANext]_(Atomic!avars)
    <3>1. \A u \in Threads \ {t} : /\ CallPhase(u)' = CallPhase(u)
                                   /\ CallAmount(u)' = CallAmount(u)
      BY <2>3 DEF IInv, TypeOK, Interlocked, Store, CallPhase, CallAmount
    <3>2. CallAmount(t)' = CallAmount(t)
      BY <2>3 DEF IInv, TypeOK, Interlocked, Store, CallAmount
    <3>3. CASE op[t] = "safe"
      <4>1. V'["safe"] = (V["safe"] + C[t]) % Word
        BY <2>3, <3>3 DEF IInv, TypeOK, ThreadInv, Interlocked, Store, Locked
      <4>2. CallPhase(t) = "invoked" /\ CallPhase(t)' = "applied"
        BY <2>3, <3>3 DEF IInv, TypeOK, Interlocked, Store, Locked, CallPhase
      <4>3. CallAmount(t) = C[t]
        BY <3>3 DEF CallAmount
      <4>4. Atomic!Apply(t)
        BY <3>1, <3>2, <4>1, <4>2, <4>3 DEF Atomic!Apply
      <4> QED
        BY <4>4 DEF Atomic!ANext
    <3>4. CASE op[t] # "safe"
      <4>1. CallPhase(t) = "idle" /\ CallPhase(t)' = "idle"
        BY <2>3, <3>4 DEF Interlocked, Store, CallPhase
      <4>2. V'["safe"] = V["safe"]
        BY <2>3, <3>4 DEF IInv, TypeOK, Interlocked, Store
      <4> QED
        BY <3>1, <3>2, <4>1, <4>2 DEF Atomic!avars
    <3> QED
      BY <3>3, <3>4
  <2>4. ASSUME NEW t \in Threads, Lock(t) \/ Load(t) \/ Unlock(t)
        PROVE  [Atomic!ANext]_(Atomic!avars)
    <3>1. \A u \in Threads : /\ CallPhase(u)' = CallPhase(u)
                             /\ CallAmount(u)' = CallAmount(u)
      BY <2>4 DEF IInv, TypeOK, Lock, Load, Unlock, CallPhase, CallAmount
    <3>2. UNCHANGED V
      BY <2>4 DEF Lock, Load, Unlock
    <3> QED
      BY <3>1, <3>2 DEF Atomic!avars
  <2>5. ASSUME NEW t \in Threads, Return(t)
        PROVE  [Atomic!ANext]_(Atomic!avars)
    <3>1. \A u \in Threads \ {t} : /\ CallPhase(u)' = CallPhase(u)
                                   /\ CallAmount(u)' = CallAmount(u)
      BY <2>5 DEF IInv, TypeOK, Return, CallPhase, CallAmount
    <3>2. CallPhase(t)' = "idle" /\ CallAmount(t)' = 0 /\ UNCHANGED V
      BY <2>5 DEF IInv, TypeOK, Return, CallPhase, CallAmount
    <3>3. CASE op[t] = "safe"
      <4>1. CallPhase(t) = "applied"
        BY <2>5, <3>3 DEF Return, CallPhase
      <4>2. Atomic!Respond(t)
        BY <3>1, <3>2, <4>1 DEF Atomic!Respond
      <4> QED
        BY <4>2 DEF Atomic!ANext
    <3>4. CASE op[t] # "safe"
      <4>1. CallPhase(t) = "idle" /\ CallAmount(t) = 0
        BY <3>4 DEF CallPhase, CallAmount
      <4> QED
        BY <3>1, <3>2, <4>1 DEF Atomic!avars
    <3> QED
      BY <3>3, <3>4
  <2> QED
    BY <2>1, <2>2, <2>3, <2>4, <2>5 DEF Next, Step
<1> QED
  BY <1>1, <1>2, CounterInvariance, PTL DEF Spec, AtomicSpec, Atomic!ASpec

(* Without a race, one thread at most is between the load and the store of *)
(* the statistic, and what it has loaded is still there.                   *)
InStore(t) == pc[t] = "store" /\ op[t] = "statistic"
RaceInv == ~raced =>
    /\ V["statistic"] = exact["statistic"]
    /\ \A t \in Threads : InStore(t) => reg[t] = V["statistic"]
    /\ \A t, u \in Threads : InStore(t) /\ InStore(u) => t = u

LEMMA RaceInvKept == IInv /\ RaceInv /\ [Next]_vars => RaceInv'
<1> SUFFICES ASSUME IInv, RaceInv, [Next]_vars, ~raced' PROVE RaceInv'
  BY DEF RaceInv
<1>1. CASE UNCHANGED vars
  BY <1>1 DEF RaceInv, InStore, vars
<1>2. ASSUME NEW t \in Threads, NEW c \in Counter, NEW a \in Adds,
             Begin(t, c, a)
      PROVE  RaceInv'
  <2>1. \A u \in Threads : InStore(u)' => InStore(u)
    BY <1>2 DEF IInv, TypeOK, Begin, InStore
  <2> QED
    BY <1>2, <2>1 DEF RaceInv, Begin
<1>3. ASSUME NEW t \in Threads, Lock(t) \/ Unlock(t) \/ Return(t)
      PROVE  RaceInv'
  <2>1. \A u \in Threads : InStore(u)' => InStore(u) /\ reg'[u] = reg[u]
    BY <1>3 DEF IInv, TypeOK, Lock, Unlock, Return, InStore
  <2> QED
    BY <1>3, <2>1 DEF RaceInv, Lock, Unlock, Return
<1>4. ASSUME NEW t \in Threads, Load(t)
      PROVE  RaceInv'
  <2>1. \A u \in Threads \ {t} : InStore(u)' =>
            InStore(u) /\ reg'[u] = reg[u] /\ op[t] # "statistic"
    BY <1>4 DEF IInv, TypeOK, Load, InStore
  <2>2. InStore(t)' => op[t] = "statistic" /\ reg'[t] = V["statistic"]
    BY <1>4 DEF IInv, TypeOK, Load, InStore, Current
  <2> QED
    BY <1>4, <2>1, <2>2 DEF RaceInv, Load
<1>5. ASSUME NEW t \in Threads, Interlocked(t)
      PROVE  RaceInv'
  <2>1. \A u \in Threads : InStore(u)' => InStore(u) /\ reg'[u] = reg[u]
    BY <1>5 DEF IInv, TypeOK, Interlocked, InStore
  <2>2. CASE op[t] = "statistic"
    <3>1. \A u \in Threads : ~InStore(u)
      BY <1>5, <2>2 DEF IInv, ThreadInv, Interlocked, InStore
    <3>2. V'["statistic"] = exact'["statistic"]
      BY <1>5, <2>2 DEF IInv, TypeOK, RaceInv, Interlocked
    <3> QED
      BY <2>1, <3>1, <3>2 DEF RaceInv
  <2>3. CASE op[t] # "statistic"
    <3>1. /\ V'["statistic"] = V["statistic"]
          /\ exact'["statistic"] = exact["statistic"]
      BY <1>5, <2>3 DEF IInv, TypeOK, Interlocked
    <3> QED
      BY <1>5, <2>1, <3>1 DEF RaceInv, Interlocked
  <2> QED
    BY <2>2, <2>3
<1>6. ASSUME NEW t \in Threads, Store(t)
      PROVE  RaceInv'
  <2>1. \A u \in Threads : InStore(u)' =>
            InStore(u) /\ reg'[u] = reg[u] /\ u # t
    BY <1>6 DEF IInv, TypeOK, Store, InStore
  <2>2. CASE op[t] = "statistic"
    <3>1. \A u \in Threads : ~InStore(u)'
      BY <1>6, <2>1, <2>2 DEF RaceInv, Store, InStore
    <3>2. V'["statistic"] = exact'["statistic"]
      BY <1>6, <2>2 DEF IInv, TypeOK, RaceInv, Store, InStore
    <3> QED
      BY <3>1, <3>2 DEF RaceInv
  <2>3. CASE op[t] # "statistic"
    <3>1. /\ V'["statistic"] = V["statistic"]
          /\ exact'["statistic"] = exact["statistic"]
      BY <1>6, <2>3 DEF IInv, TypeOK, Store
    <3> QED
      BY <1>6, <2>1, <3>1 DEF RaceInv, Store
  <2> QED
    BY <2>2, <2>3
<1> QED
  BY <1>1, <1>2, <1>3, <1>4, <1>5, <1>6 DEF Next, Step

(* A counter of a thread's own is exact, and a statistic without           *)
(* SAFE_STATISTICS is inaccurate only after a race.                        *)
THEOREM InaccurateOnlyByRaceHolds == Spec => []InaccurateOnlyByRace
<1>1. Init => RaceInv
  BY DEF Init, RaceInv, InStore
<1>2. IInv /\ RaceInv => InaccurateOnlyByRace
  BY DEF IInv, RaceInv, ThreadInv, InaccurateOnlyByRace
<1> QED
  BY <1>1, <1>2, RaceInvKept, CounterInvariance, PTL DEF Spec
=============================================================================
