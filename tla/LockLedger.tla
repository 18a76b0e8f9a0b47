----------------------------- MODULE LockLedger -----------------------------
(* What the mutex and condition wrappers promise a recorder of lock        *)
(* ownership: the recorder's entry for a lock is written only while the    *)
(* writer holds that lock, and is erased before the lock is released, so   *)
(* the lock itself protects the entry.  A thread that sleeps on a          *)
(* condition gives the lock up without telling the recorder (parked).      *)
EXTENDS TLAPS

CONSTANTS Threads, Locks, NULL

VARIABLES
    holder,     \* per lock, the thread that holds it, or NULL
    owner,      \* per lock, the thread the recorder names, or NULL
    parked      \* per lock, the threads that sleep on a condition with it

vars == <<holder, owner, parked>>

Init == /\ holder = [l \in Locks |-> NULL]
        /\ owner = [l \in Locks |-> NULL]
        /\ parked = [l \in Locks |-> {}]

(* A thread takes a free lock, on waking up too.                           *)
Take(t, l) == /\ holder[l] = NULL
              /\ holder' = [holder EXCEPT ![l] = t]
              /\ parked' = [parked EXCEPT ![l] = @ \ {t}]
              /\ UNCHANGED owner
(* The holder writes itself into the record, or erases the record.         *)
Record(t, l) == /\ holder[l] = t
                /\ owner' = [owner EXCEPT ![l] = t]
                /\ UNCHANGED <<holder, parked>>
Erase(t, l) == /\ holder[l] = t
               /\ owner' = [owner EXCEPT ![l] = NULL]
               /\ UNCHANGED <<holder, parked>>
(* The holder releases the lock once the record no longer names it.        *)
Release(t, l) == /\ holder[l] = t
                 /\ owner[l] # t
                 /\ holder' = [holder EXCEPT ![l] = NULL]
                 /\ UNCHANGED <<owner, parked>>
(* The holder goes to sleep on a condition.                                *)
Park(t, l) == /\ holder[l] = t
              /\ holder' = [holder EXCEPT ![l] = NULL]
              /\ parked' = [parked EXCEPT ![l] = @ \cup {t}]
              /\ UNCHANGED owner
(* A free lock is destroyed with its record.                               *)
Destroy(l) == /\ holder[l] = NULL
              /\ owner' = [owner EXCEPT ![l] = NULL]
              /\ UNCHANGED <<holder, parked>>

Next == \E l \in Locks :
            \/ Destroy(l)
            \/ \E t \in Threads : \/ Take(t, l) \/ Record(t, l)
                                  \/ Erase(t, l) \/ Release(t, l)
                                  \/ Park(t, l)

Spec == Init /\ [][Next]_vars
-----------------------------------------------------------------------------
TypeOK == /\ holder \in [Locks -> Threads \cup {NULL}]
          /\ owner \in [Locks -> Threads \cup {NULL}]
          /\ parked \in [Locks -> SUBSET Threads]

(* The recorder never names a thread that neither holds the lock nor       *)
(* sleeps on a condition with it.                                          *)
OwnerIsTrue ==
    \A l \in Locks : \/ owner[l] = NULL
                     \/ owner[l] = holder[l]
                     \/ owner[l] \in parked[l]

(* The ledger keeps its record true, for any threads and any locks.        *)
THEOREM LedgerIsTrue == Spec => [](TypeOK /\ OwnerIsTrue)
<1>1. Init => TypeOK /\ OwnerIsTrue
  BY DEF Init, TypeOK, OwnerIsTrue
<1>2. TypeOK /\ OwnerIsTrue /\ [Next]_vars => (TypeOK /\ OwnerIsTrue)'
  <2> SUFFICES ASSUME TypeOK, OwnerIsTrue, [Next]_vars
               PROVE  (TypeOK /\ OwnerIsTrue)'
    OBVIOUS
  <2> USE DEF TypeOK, OwnerIsTrue
  <2>1. ASSUME NEW l \in Locks, Destroy(l) PROVE (TypeOK /\ OwnerIsTrue)'
    BY <2>1 DEF Destroy
  <2>2. ASSUME NEW l \in Locks, NEW t \in Threads, Take(t, l)
        PROVE  (TypeOK /\ OwnerIsTrue)'
    BY <2>2 DEF Take
  <2>3. ASSUME NEW l \in Locks, NEW t \in Threads, Record(t, l)
        PROVE  (TypeOK /\ OwnerIsTrue)'
    BY <2>3 DEF Record
  <2>4. ASSUME NEW l \in Locks, NEW t \in Threads, Erase(t, l)
        PROVE  (TypeOK /\ OwnerIsTrue)'
    BY <2>4 DEF Erase
  <2>5. ASSUME NEW l \in Locks, NEW t \in Threads, Release(t, l)
        PROVE  (TypeOK /\ OwnerIsTrue)'
    BY <2>5 DEF Release
  <2>6. ASSUME NEW l \in Locks, NEW t \in Threads, Park(t, l)
        PROVE  (TypeOK /\ OwnerIsTrue)'
    BY <2>6 DEF Park
  <2>7. CASE UNCHANGED vars
    BY <2>7 DEF vars
  <2> QED
    BY <2>1, <2>2, <2>3, <2>4, <2>5, <2>6, <2>7 DEF Next
<1> QED
  BY <1>1, <1>2, PTL DEF Spec
=============================================================================
