------------------------- MODULE PrimitivesProofs ---------------------------
(* Proofs about the primitives of the headers: SkipTrailingSpace, for      *)
(* strings of every length at every address and both sizes of a word;      *)
(* OwnerAsserts, for any threads; Timespec, for any units of time;         *)
(* ByteOrder, for every number of every width; Dbug, for any depth of      *)
(* calls; Ctype, for every byte and two-byte code; Plugins, for any        *)
(* libraries of any number of plugins; Numbers, for every size of doubles  *)
(* and integers.                                                           *)
EXTENDS SkipTrailingSpace, OwnerAsserts, Timespec, ByteOrder, Dbug, Ctype,
        Plugins, Numbers, WellFoundedInduction, TLAPS

-----------------------------------------------------------------------------
(* skip_trailing_space().                                                  *)

(* Where the words of a string are: at or behind its start, and never more *)
(* than it holds.                                                          *)
LEMMA WordBounds ==
    ASSUME NEW p \in Nat, NEW l \in Nat
    PROVE  LET e == ((p + l) \div SIZEOF_INT) * SIZEOF_INT
               s == ((p + SIZEOF_INT - 1) \div SIZEOF_INT) * SIZEOF_INT
           IN /\ e \in Nat /\ s \in Nat
              /\ e <= p + l /\ p <= s
              /\ e % SIZEOF_INT = 0 /\ s % SIZEOF_INT = 0
<1>1. CASE SIZEOF_INT = 4
  BY <1>1
<1>2. CASE SIZEOF_INT = 8
  BY <1>2
<1> QED
  BY <1>1, <1>2, WordAssumption

(* From one aligned address above another there is a word to read.         *)
LEMMA WholeWord ==
    ASSUME NEW a \in Nat, NEW b \in Nat, a > b,
           a % SIZEOF_INT = 0, b % SIZEOF_INT = 0
    PROVE  a - SIZEOF_INT >= b /\ (a - SIZEOF_INT) % SIZEOF_INT = 0
<1>1. CASE SIZEOF_INT = 4
  BY <1>1
<1>2. CASE SIZEOF_INT = 8
  BY <1>2
<1> QED
  BY <1>1, <1>2, WordAssumption

(* The inductive invariant: what has been passed is spaces, and each loop  *)
(* stays in its zone.                                                      *)
Zones ==
    /\ loop = "tail" => end_words > ptr /\ end >= end_words
    /\ loop = "words" => end >= start_words /\ end % SIZEOF_INT = 0
Passed == end .. ptr + len - 1 \subseteq spaces
Stopped == loop = "done" => end = ptr \/ end - 1 \notin spaces
TrimInv == TrimTypeOK /\ Zones /\ Passed /\ Stopped

(* The invariant holds before the first call.                              *)
LEMMA TrimInitInv == TrimInit => TrimInv
BY WordAssumption DEF TrimInit, TrimInv, TrimTypeOK, Zones, Passed, Stopped,
    String

(* The call.                                                             *)
LEMMA EnterKeeps ==
    ASSUME TrimInv, loop = "idle",
           NEW p \in SIZEOF_INT .. 2 * SIZEOF_INT - 1, NEW l \in 0 .. MaxLen,
           NEW s \in SUBSET (p .. p + l - 1), Enter(p, l, s)
    PROVE  TrimInv'
<1>1. p \in Nat /\ l \in Nat
  BY WordAssumption
<1>2. TrimTypeOK'
  BY <1>1 DEF Enter, TrimTypeOK, String
<1>3. Zones'
  BY <1>1, WordBounds DEF Enter, Zones, end_words
<1>4. Passed' /\ Stopped'
  BY <1>1 DEF Enter, Passed, Stopped
<1> QED
  BY <1>2, <1>3, <1>4 DEF TrimInv

(* The bytes behind the last word.                                         *)
LEMMA TailKeeps == ASSUME TrimInv, TailBytes PROVE TrimInv'
<1>1. /\ ptr \in Nat /\ len \in Nat /\ end \in Nat /\ end \in ptr .. ptr + len
      /\ UNCHANGED <<ptr, len, spaces>>
  BY WordAssumption DEF TrimInv, TrimTypeOK, TailBytes
<1>2. /\ end_words \in Nat /\ start_words \in Nat
      /\ end_words % SIZEOF_INT = 0 /\ ptr <= start_words
  BY <1>1, WordBounds DEF end_words, start_words
<1>3. end_words > ptr /\ end >= end_words
  BY DEF TrimInv, Zones, TailBytes
<1>4. UNCHANGED <<end_words, start_words, String>>
  BY <1>1 DEF end_words, start_words, String
<1>5. CASE end > end_words /\ end - 1 \in spaces
  <2>1. end' = end - 1 /\ loop' = "tail"
    BY <1>5 DEF TailBytes
  <2>2. TrimTypeOK'
    BY <1>1, <1>2, <1>3, <1>4, <1>5, <2>1 DEF TrimInv, TrimTypeOK
  <2>3. Zones'
    BY <1>1, <1>2, <1>3, <1>4, <1>5, <2>1 DEF Zones
  <2>4. Passed' /\ Stopped'
    BY <1>1, <1>5, <2>1 DEF TrimInv, Passed, Stopped
  <2> QED
    BY <2>2, <2>3, <2>4 DEF TrimInv
<1>6. CASE ~(end > end_words /\ end - 1 \in spaces)
  <2>1. /\ end' = end /\ loop' \in {"words", "bytes"}
        /\ loop' = "words" => end = end_words /\ start_words < end_words
    BY <1>1, <1>2, <1>3, <1>6 DEF TailBytes
  <2>2. TrimTypeOK'
    BY <1>1, <1>4, <2>1 DEF TrimInv, TrimTypeOK
  <2>3. Zones'
    BY <1>1, <1>2, <1>4, <2>1 DEF Zones
  <2>4. Passed' /\ Stopped'
    BY <1>1, <2>1 DEF TrimInv, Passed, Stopped
  <2> QED
    BY <2>2, <2>3, <2>4 DEF TrimInv
<1> QED
  BY <1>5, <1>6

(* The words.                                                              *)
LEMMA WordsKeeps == ASSUME TrimInv, WholeWords PROVE TrimInv'
<1>1. /\ ptr \in Nat /\ len \in Nat /\ end \in Nat /\ end \in ptr .. ptr + len
      /\ UNCHANGED <<ptr, len, spaces>>
  BY WordAssumption DEF TrimInv, TrimTypeOK, WholeWords
<1>2. /\ start_words \in Nat /\ ptr <= start_words
      /\ start_words % SIZEOF_INT = 0
  BY <1>1, WordBounds DEF start_words
<1>3. end >= start_words /\ end % SIZEOF_INT = 0
  BY DEF TrimInv, Zones, WholeWords
<1>4. UNCHANGED <<start_words, String>>
  BY <1>1 DEF start_words, String
<1>5. CASE end > start_words /\ IsSpaceInt(end - SIZEOF_INT)
  <2>1. end' = end - SIZEOF_INT /\ loop' = "words"
    BY <1>5 DEF WholeWords
  <2>2. end - SIZEOF_INT >= start_words
        /\ (end - SIZEOF_INT) % SIZEOF_INT = 0
    BY <1>1, <1>2, <1>3, <1>5, WholeWord
  <2>3. SIZEOF_INT \in Nat /\ end' \in ptr .. ptr + len
    BY <1>1, <1>2, <2>1, <2>2, WordAssumption
  <2>4. TrimTypeOK'
    BY <1>1, <1>4, <2>1, <2>3 DEF TrimInv, TrimTypeOK
  <2>5. Zones'
    BY <1>4, <2>1, <2>2 DEF Zones
  <2>6. end - SIZEOF_INT .. end - 1 \subseteq spaces
    BY <1>1, <1>5, <2>3 DEF IsSpaceInt
  <2>7. Passed' /\ Stopped'
    BY <1>1, <2>1, <2>3, <2>6 DEF TrimInv, Passed, Stopped
  <2> QED
    BY <2>4, <2>5, <2>7 DEF TrimInv
<1>6. CASE ~(end > start_words /\ IsSpaceInt(end - SIZEOF_INT))
  <2>1. end' = end /\ loop' = "bytes"
    BY <1>6 DEF WholeWords
  <2> QED
    BY <1>1, <1>4, <2>1 DEF TrimInv, TrimTypeOK, Zones, Passed, Stopped
<1> QED
  BY <1>5, <1>6

(* The bytes before the first word, or of a string read by bytes.          *)
LEMMA BytesKeeps == ASSUME TrimInv, LeadBytes PROVE TrimInv'
<1>1. /\ ptr \in Nat /\ len \in Nat /\ end \in Nat /\ end \in ptr .. ptr + len
      /\ UNCHANGED <<ptr, len, spaces>>
  BY WordAssumption DEF TrimInv, TrimTypeOK, LeadBytes
<1>2. CASE end > ptr /\ end - 1 \in spaces
  <2>1. end' = end - 1 /\ loop' = "bytes"
    BY <1>2 DEF LeadBytes
  <2> QED
    BY <1>1, <1>2, <2>1 DEF TrimInv, TrimTypeOK, Zones, Passed, Stopped,
        String
<1>3. CASE ~(end > ptr /\ end - 1 \in spaces)
  <2>1. end' = end /\ loop' = "done"
    BY <1>3 DEF LeadBytes
  <2> QED
    BY <1>1, <1>3, <2>1 DEF TrimInv, TrimTypeOK, Zones, Passed, Stopped,
        String
<1> QED
  BY <1>2, <1>3

(* The return.                                                             *)
LEMMA TrimReturnKeeps == ASSUME TrimInv, TrimReturn PROVE TrimInv'
BY WordAssumption DEF TrimReturn, TrimInv, TrimTypeOK, Zones, Passed, Stopped,
    String

(* The inductive invariant holds throughout. *)
THEOREM TrimInvariance == TrimSpec => []TrimInv
<1>1. TrimInv /\ [TrimNext]_trim => TrimInv'
  <2> SUFFICES ASSUME TrimInv, [TrimNext]_trim PROVE TrimInv'
    OBVIOUS
  <2>1. CASE UNCHANGED trim
    BY <2>1 DEF trim, TrimInv, TrimTypeOK, Zones, Passed, Stopped, String,
        end_words, start_words
  <2>2. CASE TrimNext
    BY <2>2, EnterKeeps, TailKeeps, WordsKeeps, BytesKeeps, TrimReturnKeeps
      DEF TrimNext
  <2> QED
    BY <2>1, <2>2
<1> QED
  BY <1>1, TrimInitInv, PTL DEF TrimSpec

(* skip_trailing_space() never reads outside its string, nor a word that   *)
(* is not aligned, whatever the string and wherever it lies.               *)
THEOREM ReadsInsideHolds == TrimSpec => []ReadsInside
<1>1. TrimInv => ReadsInside
  <2> SUFFICES ASSUME TrimInv PROVE ReadsInside
    OBVIOUS
  <2>1. /\ ptr \in Nat /\ len \in Nat /\ end \in Nat
        /\ end \in ptr .. ptr + len /\ SIZEOF_INT \in Nat \ {0}
    BY WordAssumption DEF TrimInv, TrimTypeOK
  <2>2. /\ start_words \in Nat /\ ptr <= start_words
        /\ start_words % SIZEOF_INT = 0 /\ end_words \in Nat
    BY <2>1, WordBounds DEF start_words, end_words
  <2>3. loop = "tail" => end - 1 \in String
    BY <2>1, <2>2 DEF TrimInv, Zones, String
  <2>4. ASSUME loop = "words", end > start_words
        PROVE  /\ end - SIZEOF_INT \in String /\ end - 1 \in String
               /\ end % SIZEOF_INT = 0
    <3>1. end % SIZEOF_INT = 0
      BY <2>4 DEF TrimInv, Zones
    <3>2. end - SIZEOF_INT >= start_words
      BY <2>1, <2>2, <2>4, <3>1, WholeWord
    <3> QED
      BY <2>1, <2>2, <2>4, <3>1, <3>2 DEF String
  <2> QED
    BY <2>3, <2>4 DEF ReadsInside
<1> QED
  BY <1>1, TrimInvariance, PTL

(* skip_trailing_space() returns the end of the string without its         *)
(* trailing spaces, for every string.                                      *)
THEOREM TrimmedExactlyHolds == TrimSpec => []TrimmedExactly
<1>1. TrimInv => TrimmedExactly
  BY DEF TrimInv, Passed, Stopped, TrimmedExactly
<1> QED
  BY <1>1, TrimInvariance, PTL

-----------------------------------------------------------------------------
(* The assertions about the owner of a lock.                               *)

(* The steps of a thread in the middle of locking or unlocking.            *)
Changing == {"locking", "unlocking"}

(* The values the variables take.                                          *)
OwnerTypeOK ==
    /\ SAFE_MUTEX \in BOOLEAN /\ lockKind \in lock_types /\ flag \in Int
    /\ inside \in Askers \cup {NoThread} /\ sharing \subseteq Askers
    /\ at \in [Askers -> Changing \cup {"idle", "comparing", "judged"}]
    /\ claim \in [Askers -> {"none", "owner", "not_owner"}]
    /\ verdict \in [Askers -> {"none", "passed", "aborted"}]

(* Only the thread inside the lock changes its fields, and nobody shares a *)
(* lock that is locked for writing.                                        *)
OneInside ==
    /\ \A t \in Askers : at[t] \in Changing => inside = t
    /\ inside # NoThread => sharing = {}

(* The field thread names no other thread than the one inside, and while   *)
(* that one changes nothing both fields tell of it.                        *)
FieldsTell ==
    /\ lockedBy \in {inside, NoThread} /\ (~SAFE_MUTEX => lockedBy = NoThread)
    /\ inside # NoThread /\ at[inside] \notin Changing =>
          flag = WriteLocked /\ (SAFE_MUTEX => lockedBy = inside)

(* What an assertion under way has read, and what a decided one is worth.  *)
Asked(t) ==
    /\ at[t] = "comparing" => SAFE_MUTEX /\ verdict[t] = "none" /\ claim[t] # "none"
    /\ at[t] = "judged" <=> verdict[t] # "none"
    /\ at[t] = "judged" =>
          (verdict[t] = "passed" <=> (inside = t) = (claim[t] = "owner"))

(* The inductive invariant.  AssertionsExact alone is not inductive: what  *)
(* the second read of an assertion finds depends on who may write the      *)
(* fields between the two reads.                                           *)
OwnerInv == OwnerTypeOK /\ OneInside /\ FieldsTell /\ \A t \in Askers : Asked(t)

(* It holds before any thread locks.                                       *)
LEMMA OwnerInitInv == OwnerInit => OwnerInv
BY AskerAssumption DEF OwnerInit, OwnerInv, OwnerTypeOK, OneInside, FieldsTell, Asked, Changing

(* The two halves of locking for writing, and of unlocking: only the       *)
(* fields of the thread inside change, so no assertion of another thread   *)
(* is affected, and the thread itself is in none.                          *)
LEMMA WritersKeep ==
    ASSUME OwnerInv, NEW t \in Askers,
           LockForWriting(t) \/ LockedNow(t) \/ UnlockForWriting(t) \/ Unlocked(t)
    PROVE  OwnerInv'
<1>0. /\ OwnerTypeOK /\ OneInside /\ FieldsTell /\ t # NoThread
      /\ \A u \in Askers : Asked(u)
  BY AskerAssumption DEF OwnerInv
<1>1. /\ UNCHANGED <<SAFE_MUTEX, lockKind, claim, verdict>> /\ UNCHANGED WriteLocked
      /\ WriteLocked \in Int
  BY DEF LockForWriting, LockedNow, UnlockForWriting, Unlocked, Asking, WriteLocked
<1>2. PICK s \in Changing \cup {"idle"} : at' = [at EXCEPT ![t] = s]
  BY DEF LockForWriting, LockedNow, UnlockForWriting, Unlocked, Goes, Changing
<1>3. at[t] # "comparing" /\ at[t] # "judged"
  BY DEF LockForWriting, LockedNow, UnlockForWriting, Unlocked
<1>4. inside' \in {t, NoThread} /\ inside \in {t, NoThread} /\ sharing' = sharing
  BY <1>0 DEF LockForWriting, LockedNow, UnlockForWriting, Unlocked, OneInside, Changing
<1>5. OwnerTypeOK'
  <2>1. flag' \in Int
    BY <1>0, <1>1 DEF LockForWriting, LockedNow, UnlockForWriting, Unlocked, OwnerTypeOK
  <2> QED BY <1>0, <1>1, <1>2, <1>4, <2>1 DEF OwnerTypeOK
<1>6. \A u \in Askers : u # t => at'[u] = at[u]
  BY <1>0, <1>2 DEF OwnerTypeOK
<1>7. at'[t] = s
  BY <1>0, <1>2 DEF OwnerTypeOK
<1>8. OneInside'
  <2>1. \A u \in Askers : at'[u] \in Changing => inside' = u
    <3>1. \A u \in Askers : u # t => at'[u] \notin Changing
      BY <1>0, <1>4, <1>6, AskerAssumption DEF OneInside
    <3>2. at'[t] \in Changing => inside' = t
      BY <1>0, <1>7 DEF LockForWriting, LockedNow, UnlockForWriting, Unlocked, Goes,
         Changing, OwnerTypeOK
    <3> QED BY <3>1, <3>2
  <2>2. inside' # NoThread => sharing' = {}
    BY <1>0, <1>4 DEF LockForWriting, LockedNow, UnlockForWriting, Unlocked, OneInside, Changing
  <2> QED BY <2>1, <2>2 DEF OneInside
<1>9. FieldsTell'
  <2>1. CASE LockForWriting(t)
    BY <1>0, <1>1, <2>1 DEF LockForWriting, Goes, FieldsTell, Changing, OwnerTypeOK
  <2>2. CASE LockedNow(t)
    BY <1>0, <1>1, <1>4, <2>2 DEF LockedNow, FieldsTell, OneInside, Changing
  <2>3. CASE UnlockForWriting(t)
    BY <1>0, <1>1, <2>3 DEF UnlockForWriting, Goes, FieldsTell, Changing, OwnerTypeOK
  <2>4. CASE Unlocked(t)
    BY <1>0, <2>4 DEF Unlocked, FieldsTell, OneInside, Changing
  <2> QED BY <2>1, <2>2, <2>3, <2>4
<1>10. \A u \in Askers : Asked(u)'
  <2>1. ASSUME NEW u \in Askers, u # t PROVE Asked(u)'
    <3>1. inside # u /\ inside' # u
      BY <1>4, <2>1, AskerAssumption
    <3> QED BY <1>0, <1>1, <1>6, <2>1, <3>1 DEF Asked
  <2>2. Asked(t)'
    BY <1>0, <1>1, <1>3, <1>7 DEF Asked, Changing
  <2> QED BY <2>1, <2>2
<1> QED BY <1>5, <1>8, <1>9, <1>10 DEF OwnerInv

(* Locking and unlocking for reading: nobody is inside for writing.        *)
LEMMA ReadersKeep ==
    ASSUME OwnerInv, NEW t \in Askers, LockForReading(t) \/ UnlockForReading(t)
    PROVE  OwnerInv'
<1>0. /\ OwnerTypeOK /\ OneInside /\ FieldsTell /\ \A u \in Askers : Asked(u)
  BY DEF OwnerInv
<1>1. UNCHANGED <<SAFE_MUTEX, lockKind, lockedBy, inside, at, claim, verdict>>
  BY DEF LockForReading, UnlockForReading, Asking
<1>2. inside = NoThread
  BY <1>0 DEF LockForReading, UnlockForReading, OneInside
<1>3. flag' \in Int /\ sharing' \subseteq Askers
  BY <1>0 DEF LockForReading, UnlockForReading, OwnerTypeOK
<1> QED BY <1>0, <1>1, <1>2, <1>3 DEF OwnerInv, OwnerTypeOK, OneInside, FieldsTell, Asked

(* The first read of an assertion: a thread that is inside finds the lock  *)
(* locked, so that an assertion decided there is decided rightly.          *)
LEMMA AskersKeep ==
    ASSUME OwnerInv, NEW t \in Askers, NEW c \in {"owner", "not_owner"},
           safe_mutex_assert(t, c) \/ rw_pr_lock_assert(t, c) \/ my_rw_lock_assert(t, c)
    PROVE  OwnerInv'
<1>0. /\ OwnerTypeOK /\ OneInside /\ FieldsTell /\ t # NoThread
      /\ \A u \in Askers : Asked(u)
  BY AskerAssumption DEF OwnerInv
<1> DEFINE w == IF c = "not_owner" THEN "passed" ELSE "aborted"
<1>1. \/ at' = [at EXCEPT ![t] = "comparing"] /\ verdict' = verdict
      \/ /\ flag # WriteLocked
         /\ at' = [at EXCEPT ![t] = "judged"] /\ verdict' = [verdict EXCEPT ![t] = w]
  <2>1. CASE safe_mutex_assert(t, c)
    BY <1>0, <2>1 DEF safe_mutex_assert, Ask, Goes, WriteLocked, OwnerTypeOK
  <2>2. CASE rw_pr_lock_assert(t, c)
    BY <1>0, <2>2 DEF rw_pr_lock_assert, Ask, Goes, WriteLocked, OwnerTypeOK
  <2>3. CASE my_rw_lock_assert(t, c)
    BY <1>0, <2>3 DEF my_rw_lock_assert, Ask, Goes, WriteLocked, OwnerTypeOK
  <2> QED BY <2>1, <2>2, <2>3
<1>2. /\ at[t] = "idle" /\ SAFE_MUTEX /\ claim' = [claim EXCEPT ![t] = c]
      /\ UNCHANGED <<SAFE_MUTEX, lockKind, flag, lockedBy, inside, sharing>>
      /\ UNCHANGED WriteLocked
  BY DEF safe_mutex_assert, rw_pr_lock_assert, my_rw_lock_assert, Ask, Locking, WriteLocked
<1>3. verdict[t] = "none"
  BY <1>0, <1>2 DEF Asked
<1>4. CASE at' = [at EXCEPT ![t] = "comparing"] /\ verdict' = verdict
  <2>2. OwnerTypeOK'
    BY <1>0, <1>2, <1>4 DEF OwnerTypeOK
  <2>3. OneInside' /\ FieldsTell'
    BY <1>0, <1>2, <1>4 DEF OwnerTypeOK, OneInside, FieldsTell, Changing
  <2>4. \A u \in Askers : Asked(u)'
    BY <1>0, <1>2, <1>3, <1>4 DEF OwnerTypeOK, Asked
  <2> QED BY <2>2, <2>3, <2>4 DEF OwnerInv
<1>5. CASE /\ flag # WriteLocked
           /\ at' = [at EXCEPT ![t] = "judged"] /\ verdict' = [verdict EXCEPT ![t] = w]
  <2>2. OwnerTypeOK'
    BY <1>0, <1>2, <1>5 DEF OwnerTypeOK
  <2>3. OneInside' /\ FieldsTell'
    BY <1>0, <1>2, <1>5 DEF OwnerTypeOK, OneInside, FieldsTell, Changing
  <2>4. inside # t
    BY <1>0, <1>2, <1>5 DEF FieldsTell, Changing
  <2>5. \A u \in Askers : Asked(u)'
    BY <1>0, <1>2, <1>5, <2>4 DEF OwnerTypeOK, Asked
  <2> QED BY <2>2, <2>3, <2>5 DEF OwnerInv
<1> QED BY <1>1, <1>4, <1>5

(* The second read: the field names the thread exactly when it is inside.  *)
LEMMA CompareKeeps ==
    ASSUME OwnerInv, NEW t \in Askers, pthread_equal(t) PROVE OwnerInv'
<1>0. /\ OwnerTypeOK /\ OneInside /\ FieldsTell /\ t # NoThread
      /\ \A u \in Askers : Asked(u)
  BY AskerAssumption DEF OwnerInv
<1> DEFINE ok == (lockedBy = t) = (claim[t] = "owner")
           w == IF ok THEN "passed" ELSE "aborted"
<1>1. /\ at[t] = "comparing" /\ at' = [at EXCEPT ![t] = "judged"]
      /\ verdict' = [verdict EXCEPT ![t] = w]
      /\ UNCHANGED <<SAFE_MUTEX, lockKind, flag, lockedBy, inside, sharing, claim, WriteLocked>>
  BY DEF pthread_equal, Judge, Goes, Locking, WriteLocked
<1>2. OwnerTypeOK'
  BY <1>0, <1>1 DEF OwnerTypeOK
<1>3. OneInside' /\ FieldsTell'
  BY <1>0, <1>1 DEF OwnerTypeOK, OneInside, FieldsTell, Changing
<1>4. lockedBy = t <=> inside = t
  BY <1>0, <1>1 DEF FieldsTell, Changing, Asked
<1>5. \A u \in Askers : u # t => Asked(u)'
  BY <1>0, <1>1 DEF OwnerTypeOK, Asked
<1>6. Asked(t)'
  BY <1>0, <1>1, <1>4 DEF OwnerTypeOK, Asked
<1> QED BY <1>2, <1>3, <1>5, <1>6 DEF OwnerInv

(* The return of an assertion that passed.                                 *)
LEMMA GoOnKeeps ==
    ASSUME OwnerInv, NEW t \in Askers, GoOn(t) PROVE OwnerInv'
<1>0. /\ OwnerTypeOK /\ OneInside /\ FieldsTell /\ \A u \in Askers : Asked(u)
  BY DEF OwnerInv
<1>1. /\ at[t] = "judged" /\ at' = [at EXCEPT ![t] = "idle"]
      /\ claim' = [claim EXCEPT ![t] = "none"] /\ verdict' = [verdict EXCEPT ![t] = "none"]
      /\ UNCHANGED <<SAFE_MUTEX, lockKind, flag, lockedBy, inside, sharing, WriteLocked>>
  BY <1>0 DEF GoOn, Goes, Locking, Asked, WriteLocked
<1>2. OwnerTypeOK'
  BY <1>0, <1>1 DEF OwnerTypeOK
<1>3. OneInside' /\ FieldsTell'
  BY <1>0, <1>1 DEF OwnerTypeOK, OneInside, FieldsTell, Changing
<1>4. \A u \in Askers : Asked(u)'
  BY <1>0, <1>1 DEF OwnerTypeOK, Asked
<1> QED BY <1>2, <1>3, <1>4 DEF OwnerInv

(* safe_mutex_assert_owner(), rw_pr_lock_assert_write_owner(),             *)
(* my_rw_lock_assert_write_owner() and the opposite assertions, which read *)
(* the fields of a lock without locking it, pass exactly when what they    *)
(* claim of the calling thread is true, for any number of threads that     *)
(* lock and unlock meanwhile.                                              *)
THEOREM AssertionsExactHolds == OwnerSpec => []AssertionsExact
<1>1. OwnerInv /\ [OwnerNext]_ownership => OwnerInv'
  <2> SUFFICES ASSUME OwnerInv, [OwnerNext]_ownership PROVE OwnerInv'
    OBVIOUS
  <2>1. CASE UNCHANGED ownership
    BY <2>1 DEF ownership, OwnerInv, OwnerTypeOK, OneInside, FieldsTell, Asked, WriteLocked
  <2>2. CASE OwnerNext
    BY <2>2, WritersKeep, ReadersKeep, AskersKeep, CompareKeeps, GoOnKeeps
      DEF OwnerNext, mysql_mutex_assert, mysql_prlock_assert, rw_lock_assert
  <2> QED BY <2>1, <2>2
<1>2. OwnerInv => AssertionsExact
  BY DEF OwnerInv, Asked, AssertionsExact
<1> QED BY <1>1, <1>2, OwnerInitInv, PTL DEF OwnerSpec

-----------------------------------------------------------------------------
(* Deadlines.                                                              *)


(* Quotient and remainder of numbers that are not negative,                *)
LEMMA DivMod ==
    ASSUME NEW a \in Nat, NEW n \in Nat \ {0}
    PROVE  /\ a \div n \in Nat /\ a % n \in Nat /\ a % n < n
           /\ a = n * (a \div n) + (a % n)
OBVIOUS

(* which are the only such numbers.                                        *)
LEMMA DivUnique ==
    ASSUME NEW q \in Nat, NEW r \in Nat, NEW n \in Nat \ {0}, r < n
    PROVE  (n * q + r) \div n = q /\ (n * q + r) % n = r
OBVIOUS

(* Of two whole numbers the greater is greater by a whole unit.            *)
LEMMA Products ==
    ASSUME NEW x \in Nat, NEW y \in Nat, NEW n \in Nat \ {0}, x < y
    PROVE  n * x + n <= n * y
<1>1. PICK k \in Nat : y = x + 1 + k
  <2>1. y - x - 1 \in Nat /\ y = x + 1 + (y - x - 1)
    OBVIOUS
  <2> QED BY <2>1
<1>2. n * y = n * x + n + n * k /\ n * k \in Nat
  BY <1>1
<1>3. n * x \in Nat /\ n * y \in Nat
  OBVIOUS
<1> QED BY <1>2, <1>3

(* A sum of seconds, in nanoseconds.                                       *)
LEMMA Distributes ==
    ASSUME NEW x \in Nat, NEW y \in Nat, NEW n \in Nat
    PROVE  (x + y) * n = n * x + y * n /\ n * x \in Nat /\ y * n \in Nat
OBVIOUS

(* A unit of units.                                                        *)
LEMMA Positive ==
    ASSUME NEW m \in Nat \ {0}, NEW n \in Nat \ {0} PROVE m * n \in Nat \ {0}
OBVIOUS

(* The units of time are positive, and a second is whole milliseconds.     *)
LEMMA Units ==
    /\ {NsTick, UsecTicks, MsecTicks, SecTicks} \subseteq Nat \ {0}
    /\ {NsUsec, NsMsec, NsSec} \subseteq Nat \ {0}
    /\ MsecSec \in Nat /\ SecTicks = MsecTicks * MsecSec
<1>1. {NsTick, UsecTicks, MsecTicks, SecTicks} \subseteq Nat \ {0}
  BY UnitAssumption
<1>2. {NsUsec, NsMsec, NsSec} \subseteq Nat \ {0}
  BY <1>1, Positive DEF NsUsec, NsMsec, NsSec
<1>3. MsecSec \in Nat /\ SecTicks = MsecTicks * MsecSec
  <2>1. SecTicks % MsecTicks = 0
    BY UnitAssumption
  <2> QED BY <1>1, <2>1, DivMod DEF MsecSec
<1> QED BY <1>1, <1>2, <1>3

(* A number rounded down to a multiple of n, as the divisions of the       *)
(* macros do.                                                              *)
Floor(n, x) == n * (x \div n)

(* Rounding down loses less than n, namely the remainder,                  *)
LEMMA FloorIsBelow ==
    ASSUME NEW n \in Nat \ {0}, NEW x \in Nat
    PROVE  Floor(n, x) \in Nat /\ Floor(n, x) <= x /\ x - Floor(n, x) < n
           /\ x = Floor(n, x) + (x % n)
<1>1. /\ x \div n \in Nat /\ x % n \in Nat /\ x % n < n
      /\ x = n * (x \div n) + (x % n) /\ n * (x \div n) \in Nat
  BY DivMod
<1> QED BY <1>1 DEF Floor

(* and keeps the order of numbers.                                         *)
LEMMA FloorRises ==
    ASSUME NEW n \in Nat \ {0}, NEW x \in Nat, NEW y \in Nat, x <= y
    PROVE  Floor(n, x) <= Floor(n, y)
<1>1. CASE x \div n <= y \div n
  <2>1. x \div n \in Nat /\ y \div n \in Nat
    BY DivMod
  <2>2. CASE x \div n = y \div n
    BY <2>1, <2>2, FloorIsBelow DEF Floor
  <2>3. CASE x \div n < y \div n
    BY <2>1, <2>3, Products, FloorIsBelow DEF Floor
  <2> QED BY <1>1, <2>1, <2>2, <2>3
<1>2. CASE y \div n < x \div n
  <2>1. x \div n \in Nat /\ y \div n \in Nat
    BY DivMod
  <2>2. Floor(n, y) + n <= Floor(n, x)
    BY <1>2, <2>1, Products DEF Floor
  <2> QED BY <2>2, FloorIsBelow
<1> QED BY <1>1, <1>2, DivMod

(* The moment a deadline comes to, as a sum of what was rounded down: the  *)
(* time it was set at and, on Windows, the nanoseconds asked for.          *)
Comes(d) ==
    CASE d.macro = "sec" /\ d.on = "ts" -> Floor(NsSec, d.at) + d.asked
      [] d.macro = "sec" /\ d.on = "tv" ->
             Floor(NsSec, d.at) + Floor(NsUsec, d.at % NsSec) + d.asked
      [] d.macro = "nsec" /\ d.on = "win" -> Floor(NsTick, d.at) + Floor(NsTick, d.asked)
      [] OTHER -> Floor(NsTick, d.at) + d.asked

(* The conversion to a long keeps what fits, and makes less of the rest.   *)
LEMMA LongCuts ==
    ASSUME NEW n \in Nat
    PROVE  long(n) \in Int /\ CappedTo(long(n), n)
<1> DEFINE h == LONG_MAX + 1
           q == (n + h) \div (2 * h)
           r == (n + h) % (2 * h)
<1>1. h \in Nat \ {0} /\ 2 * h \in Nat \ {0} /\ LONG_MAX \in Nat /\ n + h \in Nat
  BY UnitAssumption
<1>2. /\ q \in Nat /\ r \in Nat /\ r < 2 * h /\ n + h = (2 * h) * q + r
  BY <1>1, DivMod
<1>3. long(n) = r - h
  BY <1>1 DEF long
<1> HIDE DEF q, r
<1>4. CASE q = 0
  BY <1>1, <1>2, <1>3, <1>4 DEF CappedTo
<1>5. CASE q > 0
  <2>1. (2 * h) * 0 + 2 * h <= (2 * h) * q
    BY <1>1, <1>2, <1>5, Products
  <2>2. (2 * h) * q \in Nat /\ (2 * h) * 0 = 0
    BY <1>1, <1>2
  <2>3. r - h <= n - 2 * h
    BY <1>1, <1>2, <2>1, <2>2
  <2> QED BY <1>1, <1>2, <1>3, <2>1, <2>2, <2>3 DEF CappedTo
<1> QED BY <1>2, <1>4, <1>5

(* A deadline in the form its platform wants, that stands for this moment. *)
Deadline(d) ==
    /\ d.on \in Variant /\ d.macro \in {"sec", "nsec"} /\ d.at \in Nat /\ d.asked \in Nat
    /\ d.on = "win" => d.ts.tv \in Nat /\ CappedTo(d.ts.max_timeout_msec, d.asked \div NsMsec)
    /\ d.on # "win" => d.ts.sec \in Nat /\ d.ts.nsec \in 0 .. NsSec - 1
    /\ Instant(d) = Comes(d)

(* set_timespec() sets such a deadline, on every platform.                 *)
LEMMA SecondsSet ==
    ASSUME clock \in Nat, NEW p \in Variant, NEW SEC \in Nat, NEW d,
           d = [on |-> p, macro |-> "sec", at |-> clock, asked |-> SEC * NsSec,
                ts |-> set_timespec(p, SEC)]
    PROVE  Deadline(d)
<1>0. /\ d.on = p /\ d.macro = "sec" /\ d.at = clock /\ d.asked = SEC * NsSec
      /\ d.ts = set_timespec(p, SEC)
  OBVIOUS
<1>1. /\ NsTick \in Nat \ {0} /\ SecTicks \in Nat \ {0} /\ NsUsec \in Nat \ {0}
      /\ NsMsec \in Nat \ {0} /\ NsSec \in Nat \ {0} /\ MsecSec \in Nat
      /\ SEC * NsSec \in Nat /\ NsSec = NsMsec * MsecSec
  <2>1. NsTick * (MsecTicks * MsecSec) = (NsTick * MsecTicks) * MsecSec
    BY Units
  <2>2. SEC * NsSec \in Nat
    BY Units
  <2> QED BY Units, <2>1, <2>2 DEF NsSec, NsMsec
<1>2. CASE p = "win"
  <2>1. /\ d.ts.tv = clock \div NsTick + SEC * SecTicks /\ d.ts.max_timeout_msec = long(SEC * MsecSec)
    BY <1>0, <1>2 DEF set_timespec, win_set_timespec, my_getsystime
  <2>2. clock \div NsTick \in Nat /\ SEC * SecTicks \in Nat /\ SEC * MsecSec \in Nat
    BY <1>1, DivMod
  <2>3. (clock \div NsTick + SEC * SecTicks) * NsTick
           = NsTick * (clock \div NsTick) + SEC * (NsTick * SecTicks)
    BY <1>1, <2>2
  <2>4. SEC * (NsMsec * MsecSec) = NsMsec * (SEC * MsecSec) + 0
    BY <1>1
  <2>5. (SEC * NsSec) \div NsMsec = SEC * MsecSec
    BY <1>1, <2>2, <2>4, DivUnique
  <2>6. Instant(d) = Comes(d)
    BY <1>0, <1>2, <2>1, <2>3 DEF Instant, Comes, Floor, NsSec
  <2>7. CappedTo(d.ts.max_timeout_msec, d.asked \div NsMsec)
    BY <1>0, <2>1, <2>2, <2>5, LongCuts
  <2> QED BY <1>0, <1>1, <1>2, <2>1, <2>2, <2>6, <2>7 DEF Deadline
<1>3. CASE p = "ts"
  <2> DEFINE q == clock \div NsSec
  <2>1. d.ts.sec = q + SEC /\ d.ts.nsec = 0
    BY <1>0, <1>3 DEF set_timespec, time
  <2>2. q \in Nat
    BY <1>1, DivMod
  <2> HIDE DEF q
  <2>3. (q + SEC) * NsSec = NsSec * q + SEC * NsSec /\ NsSec * q \in Nat
    BY <1>1, <2>2, Distributes
  <2>4. Instant(d) = NsSec * q + SEC * NsSec
    BY <1>0, <1>1, <1>3, <2>1, <2>3 DEF Instant
  <2>5. Instant(d) = Comes(d)
    BY <1>0, <1>3, <2>4 DEF Comes, Floor, q
  <2> QED BY <1>0, <1>1, <1>3, <2>1, <2>2, <2>5 DEF Deadline
<1>4. CASE p = "tv"
  <2>1. /\ d.ts.sec = clock \div NsSec + SEC
        /\ d.ts.nsec = ((clock % NsSec) \div NsUsec) * NsUsec
    BY <1>0, <1>4 DEF set_timespec, gettimeofday
  <2>2. clock \div NsSec \in Nat /\ clock % NsSec \in Nat /\ clock % NsSec < NsSec
    BY <1>1, DivMod
  <2>3. /\ Floor(NsUsec, clock % NsSec) \in Nat
        /\ Floor(NsUsec, clock % NsSec) <= clock % NsSec
    BY <1>1, <2>2, FloorIsBelow
  <2>4. d.ts.nsec = Floor(NsUsec, clock % NsSec)
    <3>1. (clock % NsSec) \div NsUsec \in Nat
      BY <1>1, <2>2, DivMod
    <3> QED BY <1>1, <2>1, <3>1 DEF Floor
  <2>5. (clock \div NsSec + SEC) * NsSec = NsSec * (clock \div NsSec) + SEC * NsSec
        /\ NsSec * (clock \div NsSec) \in Nat
    BY <1>1, <2>2, Distributes
  <2>6. Instant(d) = Floor(NsSec, clock) + Floor(NsUsec, clock % NsSec) + SEC * NsSec
    BY <1>0, <1>1, <1>4, <2>1, <2>3, <2>4, <2>5 DEF Instant, Floor
  <2>7. Instant(d) = Comes(d)
    BY <1>0, <1>4, <2>6 DEF Comes
  <2> QED BY <1>0, <1>1, <1>4, <2>1, <2>2, <2>3, <2>4, <2>7 DEF Deadline
<1> QED BY <1>2, <1>3, <1>4 DEF Variant

(* set_timespec_nsec() does: the ticks of the clock and of the timeout are *)
(* added before they are split into seconds and nanoseconds, so that       *)
(* nothing is left to carry.                                               *)
LEMMA NanosecondsSet ==
    ASSUME clock \in Nat, NEW p \in Variant, NEW NSEC \in Nat, NEW d,
           d = [on |-> p, macro |-> "nsec", at |-> clock, asked |-> NSEC,
                ts |-> set_timespec_nsec(p, NSEC)]
    PROVE  Deadline(d)
<1>0. /\ d.on = p /\ d.macro = "nsec" /\ d.at = clock /\ d.asked = NSEC
      /\ d.ts = set_timespec_nsec(p, NSEC)
  OBVIOUS
<1> DEFINE c == clock \div NsTick
           k == NSEC \div NsTick
           r == NSEC % NsTick
<1>1. NsTick \in Nat \ {0} /\ SecTicks \in Nat \ {0} /\ NsSec \in Nat \ {0}
  BY Units
<1>2. c \in Nat /\ k \in Nat /\ r \in Nat /\ r < NsTick /\ NSEC = NsTick * k + r
  BY <1>1, DivMod
<1>3. CASE p = "win"
  <2>1. d.ts.tv = c + k /\ d.ts.max_timeout_msec = long(NSEC \div NsMsec)
    BY <1>0, <1>3 DEF set_timespec_nsec, win_set_timespec_nsec, my_getsystime
  <2>2. (c + k) * NsTick = NsTick * c + NsTick * k
    BY <1>1, <1>2
  <2>3. Instant(d) = Comes(d)
    BY <1>0, <1>3, <2>1, <2>2 DEF Instant, Comes, Floor
  <2>4. CappedTo(d.ts.max_timeout_msec, d.asked \div NsMsec)
    BY <1>0, <2>1, LongCuts, Units, DivMod
  <2> QED BY <1>0, <1>2, <1>3, <2>1, <2>3, <2>4 DEF Deadline
<1>4. CASE p # "win"
  <2> DEFINE now == c + k
             q == now \div SecTicks
             m == now % SecTicks
  <2>1. d.ts.sec = q /\ d.ts.nsec = m * NsTick + r
    BY <1>0, <1>4 DEF set_timespec_nsec, my_getsystime
  <2>2. q \in Nat /\ m \in Nat /\ m < SecTicks /\ now = SecTicks * q + m /\ now \in Nat
    BY <1>1, <1>2, DivMod
  <2> HIDE DEF c, k, r, now, q, m
  <2>3. m * NsTick + r \in 0 .. NsSec - 1
    <3>1. NsTick * m + NsTick <= NsTick * SecTicks
      BY <1>1, <2>2, Products
    <3>2. NsTick * m \in Nat /\ m * NsTick = NsTick * m
      BY <1>1, <2>2
    <3> QED BY <1>1, <1>2, <3>1, <3>2 DEF NsSec
  <2>4. q * (NsTick * SecTicks) + (m * NsTick + r) = NsTick * (SecTicks * q + m) + r
    BY <1>1, <1>2, <2>2
  <2>5. NsTick * (SecTicks * q + m) = NsTick * c + NsTick * k
    <3>1. SecTicks * q + m = c + k
      BY <2>2 DEF now
    <3> QED BY <1>1, <1>2, <3>1
  <2>6. Instant(d) = NsTick * c + NSEC
    <3>1. NsTick * c \in Nat /\ NsTick * k \in Nat
      BY <1>1, <1>2
    <3> QED BY <1>0, <1>2, <1>4, <2>1, <2>4, <2>5, <3>1 DEF Instant, NsSec
  <2>7. Instant(d) = Comes(d)
    BY <1>0, <1>4, <2>6 DEF Comes, Floor, c
  <2> QED BY <1>0, <1>4, <2>1, <2>2, <2>3, <2>7 DEF Deadline
<1> QED BY <1>3, <1>4

(* Such a deadline is never late, and early by less than the resolution.   *)
LEMMA ComesInTime ==
    ASSUME NEW d, Deadline(d)
    PROVE  /\ Comes(d) \in Nat
           /\ Comes(d) <= d.at + d.asked /\ d.at + d.asked - Comes(d) < Resolution(d)
<1>0. /\ d.at \in Nat /\ d.asked \in Nat /\ d.on \in Variant /\ d.macro \in {"sec", "nsec"}
  BY DEF Deadline
<1>1. NsTick \in Nat \ {0} /\ NsUsec \in Nat \ {0} /\ NsSec \in Nat \ {0}
  BY Units
<1>2. CASE d.macro = "sec" /\ d.on = "ts"
  BY <1>0, <1>1, <1>2, FloorIsBelow DEF Comes, Resolution
<1>3. CASE d.macro = "sec" /\ d.on = "tv"
  <2>1. Comes(d) = Floor(NsSec, d.at) + Floor(NsUsec, d.at % NsSec) + d.asked
        /\ Resolution(d) = NsUsec
    BY <1>3 DEF Comes, Resolution
  <2>2. /\ Floor(NsSec, d.at) \in Nat /\ d.at % NsSec \in Nat
        /\ d.at = Floor(NsSec, d.at) + (d.at % NsSec)
    BY <1>0, <1>1, FloorIsBelow, DivMod
  <2>3. /\ Floor(NsUsec, d.at % NsSec) \in Nat /\ Floor(NsUsec, d.at % NsSec) <= d.at % NsSec
        /\ (d.at % NsSec) - Floor(NsUsec, d.at % NsSec) < NsUsec
    BY <1>1, <2>2, FloorIsBelow
  <2> QED BY <1>0, <1>1, <2>1, <2>2, <2>3
<1>4. CASE d.macro = "nsec" /\ d.on = "win"
  <2>1. Comes(d) = Floor(NsTick, d.at) + Floor(NsTick, d.asked) /\ Resolution(d) = 2 * NsTick - 1
    BY <1>4 DEF Comes, Resolution
  <2>2. /\ Floor(NsTick, d.at) \in Nat /\ Floor(NsTick, d.at) <= d.at
        /\ d.at - Floor(NsTick, d.at) < NsTick
        /\ Floor(NsTick, d.asked) \in Nat /\ Floor(NsTick, d.asked) <= d.asked
        /\ d.asked - Floor(NsTick, d.asked) < NsTick
    BY <1>0, <1>1, FloorIsBelow
  <2> QED BY <1>0, <1>1, <2>1, <2>2
<1>5. CASE \/ d.macro = "sec" /\ d.on = "win"
           \/ d.macro = "nsec" /\ d.on # "win"
  <2>1. Comes(d) = Floor(NsTick, d.at) + d.asked /\ Resolution(d) = NsTick
    BY <1>5 DEF Comes, Resolution
  <2>2. /\ Floor(NsTick, d.at) \in Nat /\ Floor(NsTick, d.at) <= d.at
        /\ d.at - Floor(NsTick, d.at) < NsTick
    BY <1>0, <1>1, FloorIsBelow
  <2> QED BY <1>0, <1>1, <2>1, <2>2
<1> QED BY <1>0, <1>2, <1>3, <1>4, <1>5 DEF Variant

(* Of two deadlines of one macro the later one that asked for no less does *)
(* not come first.                                                         *)
LEMMA ComesInOrder ==
    ASSUME NEW a, NEW b, Deadline(a), Deadline(b), a.on = b.on, a.macro = b.macro,
           a.at <= b.at, a.asked <= b.asked
    PROVE  Comes(a) <= Comes(b)
<1>0. /\ a.at \in Nat /\ a.asked \in Nat /\ a.on \in Variant /\ a.macro \in {"sec", "nsec"}
      /\ b.at \in Nat /\ b.asked \in Nat
  BY DEF Deadline
<1>1. NsTick \in Nat \ {0} /\ NsUsec \in Nat \ {0} /\ NsSec \in Nat \ {0}
  BY Units
<1>2. \A n \in {NsTick, NsSec} : /\ Floor(n, a.at) \in Nat /\ Floor(n, b.at) \in Nat
                                 /\ Floor(n, a.at) <= Floor(n, b.at)
  BY <1>0, <1>1, FloorIsBelow, FloorRises
<1>3. CASE a.macro = "sec" /\ a.on = "tv"
  <2> DEFINE x == a.at % NsSec
             y == b.at % NsSec
  <2>1. /\ x \in Nat /\ y \in Nat /\ x < NsSec
        /\ a.at = Floor(NsSec, a.at) + x /\ b.at = Floor(NsSec, b.at) + y
    BY <1>0, <1>1, FloorIsBelow, DivMod
  <2> HIDE DEF x, y
  <2>2. /\ Floor(NsUsec, x) \in Nat /\ Floor(NsUsec, y) \in Nat /\ Floor(NsUsec, x) <= x
    BY <1>1, <2>1, FloorIsBelow
  <2>3. CASE Floor(NsSec, a.at) = Floor(NsSec, b.at)
    <3>1. Floor(NsUsec, x) <= Floor(NsUsec, y)
      BY <1>0, <1>1, <1>2, <2>1, <2>3, FloorRises
    <3> QED BY <1>0, <1>1, <1>2, <1>3, <2>2, <2>3, <3>1 DEF Comes, x, y
  <2>4. CASE Floor(NsSec, a.at) # Floor(NsSec, b.at)
    <3>1. a.at \div NsSec \in Nat /\ b.at \div NsSec \in Nat
      BY <1>0, <1>1, DivMod
    <3>2. a.at \div NsSec < b.at \div NsSec
      <4>1. CASE b.at \div NsSec < a.at \div NsSec
        <5>1. Floor(NsSec, b.at) + NsSec <= Floor(NsSec, a.at)
          BY <1>1, <3>1, <4>1, Products DEF Floor
        <5> QED BY <1>1, <1>2, <5>1
      <4>2. a.at \div NsSec # b.at \div NsSec
        BY <2>4 DEF Floor
      <4> QED BY <3>1, <4>1, <4>2
    <3>3. Floor(NsSec, a.at) + NsSec <= Floor(NsSec, b.at)
      BY <1>1, <3>1, <3>2, Products DEF Floor
    <3> QED BY <1>0, <1>1, <1>2, <1>3, <2>1, <2>2, <3>3 DEF Comes, x, y
  <2> QED BY <2>3, <2>4
<1>4. CASE a.macro = "nsec" /\ a.on = "win"
  <2>1. /\ Floor(NsTick, a.asked) <= Floor(NsTick, b.asked)
        /\ Floor(NsTick, a.asked) \in Nat /\ Floor(NsTick, b.asked) \in Nat
    BY <1>0, <1>1, FloorRises, FloorIsBelow
  <2> QED BY <1>2, <1>4, <2>1 DEF Comes
<1>5. CASE a.macro = "sec" /\ a.on = "ts"
  BY <1>0, <1>2, <1>5 DEF Comes
<1>6. CASE \/ a.macro = "sec" /\ a.on = "win"
           \/ a.macro = "nsec" /\ a.on # "win"
  BY <1>0, <1>2, <1>6 DEF Comes
<1> QED BY <1>0, <1>3, <1>4, <1>5, <1>6 DEF Variant

(* cmp_timespec() compares the moments that two deadlines stand for:       *)
(* seconds first is right because the nanoseconds are less than a second.  *)
LEMMA ComparesMoments ==
    ASSUME NEW a, NEW b, Deadline(a), Deadline(b), a.on = b.on
    PROVE  /\ cmp_timespec(a.on, a.ts, b.ts) \in {-1, 0, 1}
           /\ cmp_timespec(a.on, a.ts, b.ts) = 1 <=> Instant(a) > Instant(b)
           /\ cmp_timespec(a.on, a.ts, b.ts) = -1 <=> Instant(a) < Instant(b)
<1>1. NsTick \in Nat \ {0} /\ NsSec \in Nat \ {0}
  BY Units
<1>2. CASE a.on = "win"
  <2>1. a.ts.tv \in Nat /\ b.ts.tv \in Nat /\ Instant(a) = a.ts.tv * NsTick
        /\ Instant(b) = b.ts.tv * NsTick
    BY <1>2 DEF Deadline, Instant
  <2>2. \A x, y \in Nat : x < y => x * NsTick < y * NsTick
    <3> SUFFICES ASSUME NEW x \in Nat, NEW y \in Nat, x < y PROVE x * NsTick < y * NsTick
      OBVIOUS
    <3>1. NsTick * x + NsTick <= NsTick * y
      BY <1>1, Products
    <3>2. /\ NsTick * x = x * NsTick /\ NsTick * y = y * NsTick
          /\ x * NsTick \in Nat /\ y * NsTick \in Nat
      BY <1>1
    <3> QED BY <1>1, <3>1, <3>2
  <2>3. /\ a.ts.tv < b.ts.tv <=> Instant(a) < Instant(b)
        /\ a.ts.tv > b.ts.tv <=> Instant(a) > Instant(b)
    <3>1. a.ts.tv * NsTick \in Nat /\ b.ts.tv * NsTick \in Nat
      BY <1>1, <2>1
    <3> QED BY <2>1, <2>2, <3>1
  <2>4. cmp_timespec(a.on, a.ts, b.ts)
          = IF a.ts.tv > b.ts.tv THEN 1 ELSE IF a.ts.tv < b.ts.tv THEN -1 ELSE 0
    BY <1>2 DEF cmp_timespec, win_cmp_timespec
  <2> QED BY <2>1, <2>3, <2>4
<1>3. CASE a.on # "win"
  <2>1. /\ a.ts.sec \in Nat /\ a.ts.nsec \in 0 .. NsSec - 1
        /\ b.ts.sec \in Nat /\ b.ts.nsec \in 0 .. NsSec - 1
        /\ Instant(a) = a.ts.sec * NsSec + a.ts.nsec /\ Instant(b) = b.ts.sec * NsSec + b.ts.nsec
    BY <1>3 DEF Deadline, Instant
  <2>2. \A x, y \in Nat : \A m, n \in 0 .. NsSec - 1 :
          x > y \/ (x = y /\ m > n) <=> x * NsSec + m > y * NsSec + n
    <3> SUFFICES ASSUME NEW x \in Nat, NEW y \in Nat, NEW m \in 0 .. NsSec - 1,
                        NEW n \in 0 .. NsSec - 1
                 PROVE  x > y \/ (x = y /\ m > n) <=> x * NsSec + m > y * NsSec + n
      OBVIOUS
    <3>1. NsSec * x = x * NsSec /\ NsSec * y = y * NsSec /\ x * NsSec \in Nat /\ y * NsSec \in Nat
      BY <1>1
    <3>2. CASE x < y
      <4>1. NsSec * x + NsSec <= NsSec * y
        BY <1>1, <3>2, Products
      <4> QED BY <1>1, <3>1, <3>2, <4>1
    <3>3. CASE y < x
      <4>1. NsSec * y + NsSec <= NsSec * x
        BY <1>1, <3>3, Products
      <4> QED BY <1>1, <3>1, <3>3, <4>1
    <3>4. CASE x = y
      BY <3>1, <3>4
    <3> QED BY <3>2, <3>3, <3>4
  <2> DEFINE after(u, v) == u.sec > v.sec \/ (u.sec = v.sec /\ u.nsec > v.nsec)
  <2>3. a.ts.sec * NsSec \in Nat /\ b.ts.sec * NsSec \in Nat
    BY <1>1, <2>1
  <2>4. after(a.ts, b.ts) <=> Instant(a) > Instant(b)
    BY <2>1, <2>2
  <2>5. after(b.ts, a.ts) <=> Instant(b) > Instant(a)
    BY <2>1, <2>2
  <2>6. cmp_timespec(a.on, a.ts, b.ts)
          = IF after(a.ts, b.ts) THEN 1 ELSE IF after(b.ts, a.ts) THEN -1 ELSE 0
    BY <1>3 DEF cmp_timespec
  <2>7. Instant(a) \in Nat /\ Instant(b) \in Nat
    BY <2>1, <2>3
  <2> HIDE DEF after
  <2> QED BY <2>4, <2>5, <2>6, <2>7
<1> QED BY <1>2, <1>3

(* The inductive invariant: every deadline is the one asked for when it was   *)
(* set, they are all of one platform, and they were set one after the other.  *)
DeadlineType ==
    [on : Variant, macro : {"sec", "nsec"}, at : Nat, asked : Nat,
     ts : [tv : Nat, max_timeout_msec : Int] \cup [sec : Nat, nsec : Nat]]
SetInTurn ==
    \A j, k \in 1 .. Len(set) :
        set[j].on = set[k].on /\ (j <= k => set[j].at <= set[k].at)
DeadlineInv ==
    /\ clock \in Nat /\ set \in Seq(DeadlineType)
    /\ \A k \in 1 .. Len(set) : Deadline(set[k]) /\ set[k].at <= clock
    /\ SetInTurn

(* The structures the macros fill.                                         *)
LEMMA SetTypes ==
    ASSUME clock \in Nat, NEW p \in Variant, NEW n \in Nat
    PROVE  /\ set_timespec(p, n) \in [tv : Nat, max_timeout_msec : Int] \cup [sec : Nat, nsec : Nat]
           /\ set_timespec_nsec(p, n) \in [tv : Nat, max_timeout_msec : Int] \cup [sec : Nat, nsec : Nat]
<1>1. /\ {NsTick, SecTicks, NsUsec, NsMsec, NsSec} \subseteq Nat \ {0} /\ MsecSec \in Nat
  BY Units
<1>2. /\ \A x \in Nat : \A m \in Nat \ {0} : x \div m \in Nat /\ x % m \in Nat
      /\ \A x, y \in Nat : x * y \in Nat /\ x + y \in Nat
      /\ \A x \in Nat : long(x) \in Int
  BY DivMod, LongCuts
<1>3. set_timespec(p, n) \in [tv : Nat, max_timeout_msec : Int] \cup [sec : Nat, nsec : Nat]
  BY <1>1, <1>2 DEF set_timespec, win_set_timespec, my_getsystime, time, gettimeofday, Variant
<1>4. set_timespec_nsec(p, n) \in [tv : Nat, max_timeout_msec : Int] \cup [sec : Nat, nsec : Nat]
  BY <1>1, <1>2 DEF set_timespec_nsec, win_set_timespec_nsec, my_getsystime
<1> QED BY <1>3, <1>4

(* One deadline more, set at the time it is.                               *)
LEMMA SetKeeps ==
    ASSUME DeadlineInv, NEW d \in DeadlineType, Deadline(d), d.at = clock,
           \A k \in DOMAIN set : set[k].on = d.on,
           set' = Append(set, d), UNCHANGED clock
    PROVE  DeadlineInv'
<1>1. /\ clock \in Nat /\ set \in Seq(DeadlineType) /\ Len(set) \in Nat
      /\ \A k \in 1 .. Len(set) : Deadline(set[k]) /\ set[k].at <= clock /\ set[k].on = d.on
  BY DEF DeadlineInv
<1>2. /\ set' \in Seq(DeadlineType) /\ Len(set') = Len(set) + 1 /\ set'[Len(set) + 1] = d
      /\ \A k \in 1 .. Len(set) : set'[k] = set[k]
  BY <1>1
<1>3. \A k \in 1 .. Len(set') : k \in 1 .. Len(set) \/ k = Len(set) + 1
  BY <1>1, <1>2
<1>4. \A k \in 1 .. Len(set') : Deadline(set'[k]) /\ set'[k].at <= clock /\ set'[k].on = d.on
  BY <1>1, <1>2, <1>3
<1>5. SetInTurn'
  <2> SUFFICES ASSUME NEW j \in 1 .. Len(set'), NEW k \in 1 .. Len(set')
               PROVE  set'[j].on = set'[k].on /\ (j <= k => set'[j].at <= set'[k].at)
    BY DEF SetInTurn
  <2>1. CASE k = Len(set) + 1
    BY <1>2, <1>4, <2>1
  <2>2. CASE k \in 1 .. Len(set) /\ j \in 1 .. Len(set)
    BY <1>2, <2>2 DEF DeadlineInv, SetInTurn
  <2>3. CASE k \in 1 .. Len(set) /\ j = Len(set) + 1
    BY <1>1, <1>4, <2>3
  <2> QED BY <1>3, <2>1, <2>2, <2>3
<1> QED BY <1>1, <1>2, <1>4, <1>5 DEF DeadlineInv

(* The deadlines of set_timespec() and set_timespec_nsec() are the ones    *)
(* asked for to the resolution of the clock, and cmp_timespec() orders     *)
(* them, whatever the ticks and units of the platform, at any time and for *)
(* any timeout: with the units of my_pthread.h in particular (100 ns, 10,  *)
(* 10 000 and 10 000 000 ticks).  The cap in milliseconds is the timeout   *)
(* where a long holds it, and never more than it.                          *)
THEOREM DeadlinesTrueHolds == DeadlineSpec => []DeadlinesTrue
<1>1. DeadlineInit => DeadlineInv
  BY DEF DeadlineInit, DeadlineInv, SetInTurn
<1>2. DeadlineInv /\ [DeadlineNext]_deadlines => DeadlineInv'
  <2> SUFFICES ASSUME DeadlineInv, [DeadlineNext]_deadlines PROVE DeadlineInv'
    OBVIOUS
  <2>1. CASE UNCHANGED deadlines
    BY <2>1 DEF deadlines, DeadlineInv, SetInTurn
  <2>2. CASE clock' = clock + 1 /\ UNCHANGED set
    <3>1. clock \in Nat /\ clock' \in Nat /\ clock <= clock'
      BY <2>2 DEF DeadlineInv
    <3>2. \A k \in 1 .. Len(set) : set[k].at \in Nat
      BY DEF DeadlineInv, Deadline
    <3> QED BY <2>2, <3>1, <3>2 DEF DeadlineInv, SetInTurn
  <2>3. ASSUME NEW p \in Variant, \A k \in DOMAIN set : set[k].on = p, NEW s \in 0 .. SecMax,
               Set(p, "sec", s * NsSec, set_timespec(p, s))
        PROVE  DeadlineInv'
    <3> DEFINE d == [on |-> p, macro |-> "sec", at |-> clock, asked |-> s * NsSec,
                     ts |-> set_timespec(p, s)]
    <3>1. clock \in Nat /\ s \in Nat /\ s * NsSec \in Nat
      <4>1. s \in Nat /\ NsSec \in Nat
        BY Units, UnitAssumption
      <4> QED BY <4>1 DEF DeadlineInv
    <3>2. d \in DeadlineType /\ d.at = clock /\ d.on = p
      BY <3>1, SetTypes DEF DeadlineType
    <3>3. Deadline(d)
      BY <3>1, SecondsSet
    <3>4. set' = Append(set, d) /\ UNCHANGED clock
      BY <2>3 DEF Set
    <3> HIDE DEF d
    <3> QED BY <2>3, <3>2, <3>3, <3>4, SetKeeps
  <2>4. ASSUME NEW p \in Variant, \A k \in DOMAIN set : set[k].on = p, NEW n \in 0 .. NsecMax,
               Set(p, "nsec", n, set_timespec_nsec(p, n))
        PROVE  DeadlineInv'
    <3> DEFINE d == [on |-> p, macro |-> "nsec", at |-> clock, asked |-> n,
                     ts |-> set_timespec_nsec(p, n)]
    <3>1. clock \in Nat /\ n \in Nat
      BY UnitAssumption DEF DeadlineInv
    <3>2. d \in DeadlineType /\ d.at = clock /\ d.on = p
      BY <3>1, SetTypes DEF DeadlineType
    <3>3. Deadline(d)
      BY <3>1, NanosecondsSet
    <3>4. set' = Append(set, d) /\ UNCHANGED clock
      BY <2>4 DEF Set
    <3> HIDE DEF d
    <3> QED BY <2>4, <3>2, <3>3, <3>4, SetKeeps
  <2> QED BY <2>1, <2>2, <2>3, <2>4 DEF DeadlineNext
<1>3. DeadlineInv => DeadlinesTrue
  <2> SUFFICES ASSUME DeadlineInv PROVE DeadlinesTrue
    OBVIOUS
  <2>1. DOMAIN set = 1 .. Len(set) /\ \A k \in DOMAIN set : Deadline(set[k])
    BY DEF DeadlineInv
  <2>2. DeadlinesAreAsked
    <3>1. ASSUME NEW k \in DOMAIN set
          PROVE  LET d == set[k]
                     due == d.at + d.asked
                 IN /\ Instant(d) <= due /\ due - Instant(d) < Resolution(d)
                    /\ d.on # "win" => d.ts.nsec \in 0 .. NsSec - 1
                    /\ d.on = "win" => CappedTo(d.ts.max_timeout_msec, d.asked \div NsMsec)
      <4>1. Deadline(set[k])
        BY <2>1, <3>1
      <4> QED BY <4>1, ComesInTime DEF Deadline
    <3> QED BY <3>1, Zenon DEF DeadlinesAreAsked
  <2>3. DeadlinesInOrder
    <3> SUFFICES ASSUME Len(set) = 2
                 PROVE  LET a == set[1]
                            b == set[2]
                            cmp == cmp_timespec(a.on, a.ts, b.ts)
                        IN /\ cmp = 1 <=> Instant(a) > Instant(b)
                           /\ cmp = -1 <=> Instant(a) < Instant(b)
                           /\ a.macro = b.macro /\ a.asked <= b.asked => cmp < 1
      BY DEF DeadlinesInOrder
    <3>1. /\ Deadline(set[1]) /\ Deadline(set[2]) /\ set[1].on = set[2].on
          /\ set[1].at <= set[2].at
      <4>1. 1 \in 1 .. Len(set) /\ 2 \in 1 .. Len(set)
        OBVIOUS
      <4> QED BY <4>1 DEF DeadlineInv, SetInTurn
    <3> DEFINE a == set[1]
               b == set[2]
               cmp == cmp_timespec(a.on, a.ts, b.ts)
    <3>2. /\ cmp \in {-1, 0, 1} /\ (cmp = 1 <=> Instant(a) > Instant(b))
          /\ (cmp = -1 <=> Instant(a) < Instant(b))
      BY <3>1, ComparesMoments
    <3>3. Instant(a) = Comes(a) /\ Instant(b) = Comes(b) /\ Comes(a) \in Nat /\ Comes(b) \in Nat
      BY <3>1, ComesInTime DEF Deadline
    <3>4. a.macro = b.macro /\ a.asked <= b.asked => Comes(a) <= Comes(b)
      BY <3>1, ComesInOrder
    <3> HIDE DEF a, b, cmp
    <3>5. a.macro = b.macro /\ a.asked <= b.asked => cmp < 1
      BY <3>2, <3>3, <3>4
    <3> QED BY <3>2, <3>5 DEF a, b, cmp
  <2> QED BY <2>2, <2>3 DEF DeadlinesTrue
<1> QED BY <1>1, <1>2, <1>3, PTL DEF DeadlineSpec

-----------------------------------------------------------------------------
(* Byte order macros.                                                      *)

(* What a recursive function on 0 .. 8 is defined by.                      *)
Powers(f) == f = [k \in 0 .. 8 |-> IF k = 0 THEN 1 ELSE Byte * f[k - 1]]

(* The powers of a byte are such a function: it is the one of these nine   *)
(* values.                                                                 *)
LEMMA PowerDefined == Powers(Power)
<1> DEFINE p1 == Byte * 1   p2 == Byte * p1   p3 == Byte * p2   p4 == Byte * p3
           p5 == Byte * p4  p6 == Byte * p5   p7 == Byte * p6   p8 == Byte * p7
           g == [k \in 0 .. 8 |->
                   IF k = 0 THEN 1 ELSE IF k = 1 THEN p1 ELSE IF k = 2 THEN p2
                   ELSE IF k = 3 THEN p3 ELSE IF k = 4 THEN p4 ELSE IF k = 5 THEN p5
                   ELSE IF k = 6 THEN p6 ELSE IF k = 7 THEN p7 ELSE p8]
<1>1. Powers(g)
  <2>1. /\ g[0] = 1 /\ g[1] = p1 /\ g[2] = p2 /\ g[3] = p3 /\ g[4] = p4
        /\ g[5] = p5 /\ g[6] = p6 /\ g[7] = p7 /\ g[8] = p8
    OBVIOUS
  <2>2. ASSUME NEW k \in 0 .. 8 PROVE g[k] = IF k = 0 THEN 1 ELSE Byte * g[k - 1]
    <3>1. k \in {0, 1, 2, 3, 4, 5, 6, 7, 8}
      OBVIOUS
    <3> HIDE DEF g
    <3> QED BY <2>1, <3>1
  <2> QED BY <2>2 DEF Powers
<1> HIDE DEF g
<1>2. Power = CHOOSE f : Powers(f)
  BY DEF Power, Powers
<1> QED BY <1>1, <1>2

(* Each power is a byte more than the one before,                          *)
LEMMA PowerStep == Power[0] = 1 /\ \A k \in 0 .. 7 : Power[k + 1] = Byte * Power[k]
<1>1. \A k \in 0 .. 8 : Power[k] = IF k = 0 THEN 1 ELSE Byte * Power[k - 1]
  BY PowerDefined DEF Powers
<1>2. ASSUME NEW k \in 0 .. 7 PROVE Power[k + 1] = Byte * Power[k]
  <2>1. k + 1 \in 0 .. 8 /\ k + 1 # 0 /\ (k + 1) - 1 = k
    OBVIOUS
  <2> QED BY <1>1, <2>1
<1> QED BY <1>1, <1>2

(* and positive.                                                           *)
LEMMA PowerPositive == \A k \in 0 .. 8 : Power[k] \in Nat \ {0}
<1>0. Byte \in Nat \ {0}
  BY ByteAssumption
<1>s. ASSUME NEW k \in 0 .. 7, Power[k] \in Nat \ {0} PROVE Power[k + 1] \in Nat \ {0}
  BY <1>0, <1>s, PowerStep, Positive
<1>1. Power[0] \in Nat \ {0}
  BY PowerStep
<1>2. Power[1] \in Nat \ {0}
  BY <1>1, <1>s
<1>3. Power[2] \in Nat \ {0}
  BY <1>2, <1>s
<1>4. Power[3] \in Nat \ {0}
  BY <1>3, <1>s
<1>5. Power[4] \in Nat \ {0}
  BY <1>4, <1>s
<1>6. Power[5] \in Nat \ {0}
  BY <1>5, <1>s
<1>7. Power[6] \in Nat \ {0}
  BY <1>6, <1>s
<1>8. Power[7] \in Nat \ {0}
  BY <1>7, <1>s
<1>9. Power[8] \in Nat \ {0}
  BY <1>8, <1>s
<1> QED BY <1>1, <1>2, <1>3, <1>4, <1>5, <1>6, <1>7, <1>8, <1>9

(* Four bytes more.                                                        *)
LEMMA PowerFour == \A k \in 0 .. 4 : Power[k + 4] = Power[4] * Power[k]
<1>0. Byte \in Nat /\ \A k \in 0 .. 8 : Power[k] \in Nat
  BY ByteAssumption, PowerPositive
<1>s. ASSUME NEW k \in 0 .. 3, Power[k + 4] = Power[4] * Power[k]
      PROVE  Power[(k + 1) + 4] = Power[4] * Power[k + 1]
  <2>1. k + 4 \in 0 .. 7 /\ (k + 4) + 1 = (k + 1) + 4 /\ k \in 0 .. 8 /\ k \in 0 .. 7
    OBVIOUS
  <2>2. Power[(k + 1) + 4] = Byte * Power[k + 4] /\ Power[k + 1] = Byte * Power[k]
    BY <2>1, PowerStep
  <2>3. \A x, y, z \in Nat : x * (y * z) = y * (x * z)
    OBVIOUS
  <2> QED BY <1>0, <1>s, <2>1, <2>2, <2>3
<1>1. Power[0 + 4] = Power[4] * Power[0]
  BY <1>0, PowerStep
<1>2. Power[1 + 4] = Power[4] * Power[1]
  BY <1>1, <1>s
<1>3. Power[2 + 4] = Power[4] * Power[2]
  BY <1>2, <1>s
<1>4. Power[3 + 4] = Power[4] * Power[3]
  BY <1>3, <1>s
<1>5. Power[4 + 4] = Power[4] * Power[4]
  BY <1>4, <1>s
<1> QED BY <1>1, <1>2, <1>3, <1>4, <1>5

(* Dividing twice.                                                         *)
LEMMA DivDiv ==
    ASSUME NEW v \in Nat, NEW m \in Nat \ {0}, NEW n \in Nat \ {0}
    PROVE  (v \div m) \div n = v \div (m * n)
<1> DEFINE q == v \div m
           r == v % m
           s == q \div n
           t == q % n
<1>1. q \in Nat /\ r \in Nat /\ r < m /\ v = m * q + r
  BY DivMod
<1> HIDE DEF q, r
<1>2. s \in Nat /\ t \in Nat /\ t < n /\ q = n * s + t
  BY <1>1, DivMod
<1> HIDE DEF s, t
<1>3. m * n \in Nat \ {0}
  BY Positive
<1>4. v = (m * n) * s + (m * t + r) /\ m * t \in Nat
  BY <1>1, <1>2
<1>5. m * t + r < m * n
  BY <1>1, <1>2, <1>4, Products
<1>6. v \div (m * n) = s
  <2> DEFINE u == m * t + r
  <2>1. u \in Nat /\ u < m * n /\ v = (m * n) * s + u
    BY <1>1, <1>4, <1>5
  <2> HIDE DEF u
  <2> QED BY <1>2, <1>3, <2>1, DivUnique
<1> QED BY <1>6 DEF s, q

(* One byte of a number, and what is above it.                             *)
LEMMA DigitStep ==
    ASSUME NEW v \in Nat, NEW k \in 0 .. 7
    PROVE  /\ Digit(v, k) \in 0 .. Byte - 1
           /\ v \div Power[k] = Byte * (v \div Power[k + 1]) + Digit(v, k)
           /\ v \div Power[k] \in Nat /\ v \div Power[k + 1] \in Nat
<1>1. Byte \in Nat \ {0} /\ Power[k] \in Nat \ {0} /\ Power[k + 1] = Power[k] * Byte
      /\ Power[k + 1] \in Nat \ {0}
  <2>1. k \in 0 .. 8 /\ k + 1 \in 0 .. 8
    OBVIOUS
  <2>2. Byte \in Nat \ {0} /\ Power[k] \in Nat \ {0} /\ Power[k + 1] \in Nat \ {0}
    BY <2>1, ByteAssumption, PowerPositive
  <2>3. Power[k + 1] = Byte * Power[k]
    BY PowerStep
  <2> QED BY <2>2, <2>3
<1>2. (v \div Power[k]) \div Byte = v \div Power[k + 1]
  BY <1>1, DivDiv
<1>3. v \div Power[k] \in Nat /\ v \div Power[k + 1] \in Nat
  BY <1>1, DivMod
<1>4. /\ Digit(v, k) \in Nat /\ Digit(v, k) < Byte
      /\ v \div Power[k] = Byte * ((v \div Power[k]) \div Byte) + Digit(v, k)
  BY <1>1, <1>3, DivMod DEF Digit
<1> QED BY <1>1, <1>2, <1>3, <1>4

(* The sum of the bytes c, weighted: what the recursive function in Value  *)
(* is.                                                                     *)
SumOf(f, c, w) ==
    f = [k \in 0 .. w |-> IF k = 0 THEN 0 ELSE f[k - 1] + c[k - 1] * Power[k - 1]]

(* There is such a sum for any bytes,                                      *)
LEMMA SumExists ==
    ASSUME NEW c, NEW w \in 0 .. 8 PROVE \E f : SumOf(f, c, w)
<1> DEFINE t(k) == c[k] * Power[k]
           s1 == 0 + t(0)   s2 == s1 + t(1)  s3 == s2 + t(2)  s4 == s3 + t(3)
           s5 == s4 + t(4)  s6 == s5 + t(5)  s7 == s6 + t(6)  s8 == s7 + t(7)
           h == [k \in 0 .. 8 |->
                   IF k = 0 THEN 0 ELSE IF k = 1 THEN s1 ELSE IF k = 2 THEN s2
                   ELSE IF k = 3 THEN s3 ELSE IF k = 4 THEN s4 ELSE IF k = 5 THEN s5
                   ELSE IF k = 6 THEN s6 ELSE IF k = 7 THEN s7 ELSE s8]
           g == [k \in 0 .. w |-> h[k]]
<1>1. /\ h[0] = 0 /\ h[1] = s1 /\ h[2] = s2 /\ h[3] = s3 /\ h[4] = s4
      /\ h[5] = s5 /\ h[6] = s6 /\ h[7] = s7 /\ h[8] = s8
  OBVIOUS
<1>2. ASSUME NEW k \in 0 .. 8
      PROVE  h[k] = IF k = 0 THEN 0 ELSE h[k - 1] + c[k - 1] * Power[k - 1]
  <2>1. k \in {0, 1, 2, 3, 4, 5, 6, 7, 8}
    OBVIOUS
  <2> HIDE DEF h
  <2> QED BY <1>1, <2>1
<1> HIDE DEF h
<1>3. ASSUME NEW k \in 0 .. w
      PROVE  h[k] = IF k = 0 THEN 0 ELSE g[k - 1] + c[k - 1] * Power[k - 1]
  <2>1. k \in 0 .. 8 /\ (k # 0 => k - 1 \in 0 .. w)
    OBVIOUS
  <2> QED BY <1>2, <2>1
<1>4. SumOf(g, c, w)
  BY <1>3 DEF SumOf
<1> QED BY <1>4

(* and each byte adds its weight to it.                                    *)
LEMMA SumSteps ==
    ASSUME NEW c, NEW w \in 0 .. 8, NEW f, SumOf(f, c, w)
    PROVE  f[0] = 0 /\ \A k \in 0 .. w - 1 : f[k + 1] = f[k] + c[k] * Power[k]
<1>1. \A k \in 0 .. w : f[k] = IF k = 0 THEN 0 ELSE f[k - 1] + c[k - 1] * Power[k - 1]
  BY DEF SumOf
<1>2. ASSUME NEW k \in 0 .. w - 1 PROVE f[k + 1] = f[k] + c[k] * Power[k]
  <2>1. k + 1 \in 0 .. w /\ k + 1 # 0 /\ (k + 1) - 1 = k
    OBVIOUS
  <2> QED BY <1>1, <2>1
<1> QED BY <1>1, <1>2

(* The lowest n bytes are those of the number v.                           *)
HasDigits(c, n, v) == \A i \in 0 .. n - 1 : c[i] = Digit(v, i)

(* The sum of the first n bytes is the number v but for its higher bytes.  *)
SumLeaves(f, n, v) == f[n] \in Nat /\ f[n] + Power[n] * (v \div Power[n]) = v

(* Where n bytes are those of a number, their sum is the number but for    *)
(* what its higher bytes stand for.                                        *)
LEMMA SumOfDigits ==
    ASSUME NEW c, NEW w \in 0 .. 8, NEW f, SumOf(f, c, w), NEW v \in Nat,
           NEW n \in 0 .. w, HasDigits(c, n, v)
    PROVE  SumLeaves(f, n, v)
<1> DEFINE S(k) == k <= n => f[k] \in Nat /\ f[k] + Power[k] * (v \div Power[k]) = v
<1>s. ASSUME NEW k \in 0 .. 7, S(k) PROVE S(k + 1)
  <2> SUFFICES ASSUME k + 1 <= n
               PROVE  f[k + 1] \in Nat /\ f[k + 1] + Power[k + 1] * (v \div Power[k + 1]) = v
    OBVIOUS
  <2> DEFINE d == Digit(v, k)
             p == Power[k]
             q == v \div Power[k]
             r == v \div Power[k + 1]
             y == f[k]
  <2>1. f[k + 1] = y + d * p
    BY SumSteps DEF HasDigits
  <2>2. y \in Nat /\ y + p * q = v
    BY <1>s
  <2>3. p \in Nat /\ Byte \in Nat /\ Power[k + 1] = Byte * p
    <3>1. k \in 0 .. 8
      OBVIOUS
    <3> QED BY <3>1, PowerPositive, PowerStep, ByteAssumption
  <2>4. d \in Nat /\ q = Byte * r + d /\ q \in Nat /\ r \in Nat
    <3>1. /\ Digit(v, k) \in 0 .. Byte - 1
          /\ v \div Power[k] = Byte * (v \div Power[k + 1]) + Digit(v, k)
          /\ v \div Power[k] \in Nat /\ v \div Power[k + 1] \in Nat
      BY DigitStep, Zenon
    <3>2. \A x : x \in 0 .. Byte - 1 => x \in Nat
      BY ByteAssumption
    <3> QED BY <3>1, <3>2, Zenon
  <2> HIDE DEF d, p, q, r, y
  <2>5. y + d * p \in Nat /\ (y + d * p) + (Byte * p) * r = y + p * (Byte * r + d)
    BY <2>2, <2>3, <2>4
  <2>6. (y + d * p) + (Byte * p) * r = v
    BY <2>2, <2>4, <2>5
  <2> QED BY <2>1, <2>3, <2>5, <2>6 DEF r
<1>0. S(0)
  <2>1. f[0] = 0 /\ Power[0] = 1 /\ v \div 1 = v
    BY SumSteps, PowerStep
  <2> QED BY <2>1
<1> HIDE DEF S
<1>1. S(1)
  BY <1>0, <1>s
<1>2. S(2)
  BY <1>1, <1>s
<1>3. S(3)
  BY <1>2, <1>s
<1>4. S(4)
  BY <1>3, <1>s
<1>5. S(5)
  BY <1>4, <1>s
<1>6. S(6)
  BY <1>5, <1>s
<1>7. S(7)
  BY <1>6, <1>s
<1>8. S(8)
  BY <1>7, <1>s
<1>9. n \in {0, 1, 2, 3, 4, 5, 6, 7, 8}
  OBVIOUS
<1>10. S(n)
  BY <1>0, <1>1, <1>2, <1>3, <1>4, <1>5, <1>6, <1>7, <1>8, <1>9
<1> QED BY <1>10 DEF S, SumLeaves

(* A number below Power[n] has no higher bytes.                            *)
LEMMA SumIsNumber ==
    ASSUME NEW c, NEW w \in 0 .. 8, NEW f, SumOf(f, c, w), NEW v \in Nat,
           NEW n \in 0 .. w, HasDigits(c, n, v), v < Power[n]
    PROVE  f[n] = v
<1>1. Power[n] \in Nat \ {0}
  BY PowerPositive
<1>2. v \div Power[n] = 0
  <2>1. \A p \in Nat \ {0} : v < p => v \div p = 0
    BY DivUnique
  <2> QED BY <1>1, <2>1
<1>3. f[n] \in Nat /\ f[n] + Power[n] * 0 = v
  <2>1. SumLeaves(f, n, v)
    BY SumOfDigits, Zenon
  <2> QED BY <1>2, <2>1, Zenon DEF SumLeaves
<1> QED BY <1>1, <1>3

(* Low, High and the swapped order are such sums.                          *)
LEMMA LowIsSum ==
    ASSUME NEW c, NEW w \in 0 .. 8
    PROVE  \E f : SumOf(f, c, w) /\ Low(c, w) = f[w]
<1>1. Low(c, w) = (CHOOSE f : SumOf(f, c, w))[w]
  BY DEF Low, Value, SumOf
<1> QED BY <1>1, SumExists

(* The recursive function of a number read highest byte first,             *)
SumDown(f, b, w) ==
    f = [k \in 0 .. w |-> IF k = 0 THEN 0
                          ELSE f[k - 1] + b[w - 1 - (k - 1)] * Power[k - 1]]

(* that read highest byte first,                                           *)
LEMMA HighIsSum ==
    ASSUME NEW b, NEW w \in 0 .. 8
    PROVE  \E f : SumOf(f, [i \in 0 .. w - 1 |-> b[w - 1 - i]], w) /\ High(b, w) = f[w]
<1> DEFINE c == [i \in 0 .. w - 1 |-> b[w - 1 - i]]
<1>1. High(b, w) = (CHOOSE f : SumDown(f, b, w))[w]
  BY DEF High, Value, SumDown
<1>2. \A k \in 0 .. w : k # 0 => c[k - 1] = b[w - 1 - (k - 1)]
  <2>1. \A k \in 0 .. w : k # 0 => k - 1 \in 0 .. w - 1
    OBVIOUS
  <2> QED BY <2>1
<1> HIDE DEF c
<1>3. \A f : SumDown(f, b, w) <=> SumOf(f, c, w)
  <2>1. \A f : [k \in 0 .. w |-> IF k = 0 THEN 0 ELSE f[k - 1] + b[w - 1 - (k - 1)] * Power[k - 1]]
             = [k \in 0 .. w |-> IF k = 0 THEN 0 ELSE f[k - 1] + c[k - 1] * Power[k - 1]]
    BY <1>2
  <2> QED BY <2>1 DEF SumDown, SumOf
<1>4. SumDown(CHOOSE f : SumDown(f, b, w), b, w)
  BY <1>3, SumExists
<1> QED BY <1>1, <1>3, <1>4 DEF c

(* and of one read high word first.                                        *)
SumSwapped(f, b) ==
    f = [k \in 0 .. 8 |-> IF k = 0 THEN 0
                          ELSE f[k - 1] + b[((k - 1) + 4) % 8] * Power[k - 1]]

(* and that read high word first.                                          *)
LEMMA MixedIsSum ==
    ASSUME NEW b
    PROVE  \E f : SumOf(f, [i \in 0 .. 7 |-> b[(i + 4) % 8]], 8)
                  /\ FromNativeDouble("mixed", b) = f[8]
<1> DEFINE c == [i \in 0 .. 7 |-> b[(i + 4) % 8]]
<1>1. FromNativeDouble("mixed", b) = (CHOOSE f : SumSwapped(f, b))[8]
  BY DEF FromNativeDouble, Value, SumSwapped
<1>2. \A k \in 0 .. 8 : k # 0 => c[k - 1] = b[((k - 1) + 4) % 8]
  <2>1. \A k \in 0 .. 8 : k # 0 => k - 1 \in 0 .. 7
    OBVIOUS
  <2> QED BY <2>1
<1> HIDE DEF c
<1>3. \A f : SumSwapped(f, b) <=> SumOf(f, c, 8)
  <2>1. \A f : [k \in 0 .. 8 |-> IF k = 0 THEN 0 ELSE f[k - 1] + b[((k - 1) + 4) % 8] * Power[k - 1]]
             = [k \in 0 .. 8 |-> IF k = 0 THEN 0 ELSE f[k - 1] + c[k - 1] * Power[k - 1]]
    BY <1>2
  <2> QED BY <2>1 DEF SumSwapped, SumOf
<1>4. SumSwapped(CHOOSE f : SumSwapped(f, b), b)
  BY <1>3, SumExists
<1> QED BY <1>1, <1>3, <1>4 DEF c

(* All the bytes of a number add up to it.                                 *)
LEMMA SumOfAll ==
    ASSUME NEW c, NEW w \in 0 .. 8, NEW f, SumOf(f, c, w), NEW v \in Nat,
           HasDigits(c, w, v), v < Power[w]
    PROVE  f[w] = v
<1>1. w \in 0 .. w
  OBVIOUS
<1> QED BY <1>1, SumIsNumber

(* Bytes in each order that make a number are read as the number.          *)
LEMMA ReadLow ==
    ASSUME NEW c, NEW w \in 0 .. 8, NEW v \in Nat, v < Power[w], HasDigits(c, w, v)
    PROVE  Low(c, w) = v
<1>1. PICK f : SumOf(f, c, w) /\ Low(c, w) = f[w]
  BY LowIsSum
<1>2. w \in 0 .. w
  OBVIOUS
<1>3. f[w] = v
  BY <1>1, SumOfAll, Zenon
<1> QED BY <1>1, <1>3

(* Highest byte first,                                                     *)
LEMMA ReadHigh ==
    ASSUME NEW b, NEW w \in 0 .. 8, NEW v \in Nat, v < Power[w],
           \A i \in 0 .. w - 1 : b[w - 1 - i] = Digit(v, i)
    PROVE  High(b, w) = v
<1> DEFINE c == [i \in 0 .. w - 1 |-> b[w - 1 - i]]
<1>1. PICK f : SumOf(f, c, w) /\ High(b, w) = f[w]
  BY HighIsSum
<1>2. w \in 0 .. w
  OBVIOUS
<1>3. HasDigits(c, w, v)
  BY DEF HasDigits
<1> HIDE DEF c
<1>4. f[w] = v
  BY <1>1, <1>3, SumOfAll
<1> QED BY <1>1, <1>4

(* or high word first.                                                     *)
LEMMA ReadMixed ==
    ASSUME NEW b, NEW v \in Nat, v < Power[8],
           \A i \in 0 .. 7 : b[(i + 4) % 8] = Digit(v, i)
    PROVE  FromNativeDouble("mixed", b) = v
<1> DEFINE c == [i \in 0 .. 7 |-> b[(i + 4) % 8]]
<1>1. PICK f : SumOf(f, c, 8) /\ FromNativeDouble("mixed", b) = f[8]
  BY MixedIsSum
<1>2. 8 \in 0 .. 8
  OBVIOUS
<1>3. HasDigits(c, 8, v)
  BY DEF HasDigits
<1> HIDE DEF c
<1>4. f[8] = v
  BY <1>1, <1>3, SumOfAll
<1> QED BY <1>1, <1>4

(* The bytes of the upper half are those of the number divided.            *)
LEMMA DigitShift ==
    ASSUME NEW v \in Nat, NEW k \in 0 .. 4
    PROVE  Digit(v \div Power[4], k) = Digit(v, k + 4)
<1>1. Power[4] \in Nat \ {0} /\ Power[k] \in Nat \ {0}
  BY PowerPositive
<1>2. Power[k + 4] = Power[4] * Power[k]
  BY PowerFour
<1>3. (v \div Power[4]) \div Power[k] = v \div (Power[4] * Power[k])
  BY <1>1, DivDiv
<1> QED BY <1>2, <1>3, Zenon DEF Digit

(* The upper half of eight bytes is a number of four.                      *)
LEMMA UpperHalf ==
    ASSUME NEW v \in Nat, v < Power[8]
    PROVE  v \div Power[4] \in Nat /\ v \div Power[4] < Power[4]
<1> DEFINE n == Power[4]
           q == v \div Power[4]
           r == v % Power[4]
<1>1. n \in Nat \ {0} /\ v < n * n
  <2>1. Power[4 + 4] = Power[4] * Power[4]
    BY PowerFour
  <2> QED BY <2>1, PowerPositive
<1>2. q \in Nat /\ r \in Nat /\ v = n * q + r
  BY <1>1, DivMod
<1> HIDE DEF n, q, r
<1>3. q < n
  <2> SUFFICES ASSUME n <= q PROVE FALSE
    BY <1>1, <1>2
  <2>1. n = q \/ n < q
    BY <1>1, <1>2
  <2>2. n * q \in Nat /\ n * n \in Nat
    BY <1>1, <1>2
  <2>3. n * n <= n * q
    BY <1>1, <1>2, <2>1, <2>2, Products
  <2> QED BY <1>1, <1>2, <2>2, <2>3
<1> QED BY <1>2, <1>3 DEF n, q

(* The memory from loc on holds the w bytes of v, lowest first.            *)
LiesLow(m, loc, w, v) == \A i \in 0 .. w - 1 : m[loc + i] = Digit(v, i)

(* Bytes that lie so are the digits of the number,                         *)
LEMMA AtHasDigits ==
    ASSUME NEW m, NEW loc \in Nat, NEW w \in 0 .. 8, NEW v \in Nat, LiesLow(m, loc, w, v)
    PROVE  HasDigits(At(m, loc, w), w, v)
BY DEF LiesLow, HasDigits, At

(* and are read as it by what reads the lowest byte first.                 *)
LEMMA LowReads ==
    ASSUME NEW m, NEW loc \in Nat, NEW w \in 0 .. 8, NEW v \in Nat, v < Power[w],
           LiesLow(m, loc, w, v)
    PROVE  Low(At(m, loc, w), w) = v
BY AtHasDigits, ReadLow

(* Four bytes are read on i386 and the fourth is masked out.               *)
LEMMA ThreeBytesRead ==
    ASSUME NEW q \in Platform, NEW m, NEW loc \in Nat, NEW v \in Nat, v < Power[3],
           LiesLow(m, loc, 3, v), m[loc + 3] \in Nat
    PROVE  uint3korr(q, m, loc) = v
<1>1. CASE q # "i386"
  BY <1>1, LowReads DEF uint3korr
<1>2. CASE q = "i386"
  <2> DEFINE c == At(m, loc, 4)
  <2>1. HasDigits(c, 3, v) /\ c[3] = m[loc + 3]
    BY DEF LiesLow, HasDigits, At
  <2> HIDE DEF c
  <2>2. PICK f : SumOf(f, c, 4) /\ Low(c, 4) = f[4]
    BY LowIsSum
  <2>3. f[3] = v
    <3>1. 3 \in 0 .. 4 /\ 4 \in 0 .. 8
      OBVIOUS
    <3> QED BY <2>1, <2>2, <3>1, SumIsNumber
  <2>4. f[3 + 1] = f[3] + c[3] * Power[3]
    <3>1. \A k \in 0 .. 4 - 1 : f[k + 1] = f[k] + c[k] * Power[k]
      BY <2>2, SumSteps
    <3> QED BY <3>1
  <2>5. Power[3] \in Nat \ {0}
    BY PowerPositive
  <2> DEFINE n == Power[3]
             d == m[loc + 3]
  <2>6. Low(c, 4) = v + d * n
    BY <2>1, <2>2, <2>3, <2>4
  <2>7. n \in Nat \ {0} /\ d \in Nat /\ v < n
    BY <2>5
  <2> HIDE DEF n, d
  <2>8. v + d * n = n * d + v
    BY <2>7
  <2>9. (n * d + v) % n = v
    BY <2>7, DivUnique
  <2>10. Low(c, 4) % n = v
    BY <2>6, <2>8, <2>9, Zenon
  <2> QED BY <1>2, <2>10 DEF uint3korr, FromNativeInt, BigEndian, c, n
<1> QED BY <1>1, <1>2

(* The two halves of eight bytes.                                          *)
LEMMA EightBytesRead ==
    ASSUME NEW m, NEW loc \in Nat, NEW v \in Nat, v < Power[8], LiesLow(m, loc, 8, v)
    PROVE  uint8korr(m, loc) = v
<1> DEFINE u == v \div Power[4]
<1>1. u \in Nat /\ u < Power[4]
  BY UpperHalf
<1>2. LiesLow(m, loc + 4, 4, u)
  <2> SUFFICES ASSUME NEW i \in 0 .. 3 PROVE m[(loc + 4) + i] = Digit(u, i)
    BY DEF LiesLow
  <2>1. i + 4 \in 0 .. 7 /\ loc + (i + 4) = (loc + 4) + i /\ i \in 0 .. 4
    OBVIOUS
  <2>2. Digit(u, i) = Digit(v, i + 4)
    BY <2>1, DigitShift
  <2> HIDE DEF u
  <2>3. m[loc + (i + 4)] = Digit(v, i + 4)
    BY <2>1 DEF LiesLow
  <2> QED BY <2>1, <2>2, <2>3
<1>3. Low(At(m, loc + 4, 4), 4) = u
  <2> HIDE DEF u
  <2> QED BY <1>1, <1>2, LowReads
<1>4. Low(At(m, loc, 4), 4) \in Nat /\ Low(At(m, loc, 4), 4) + Power[4] * u = v
  <2> DEFINE c == At(m, loc, 4)
  <2>1. HasDigits(c, 4, v)
    BY DEF LiesLow, HasDigits, At
  <2> HIDE DEF c
  <2>2. PICK f : SumOf(f, c, 4) /\ Low(c, 4) = f[4]
    BY LowIsSum
  <2>3. SumLeaves(f, 4, v)
    <3>1. 4 \in 0 .. 4 /\ 4 \in 0 .. 8
      OBVIOUS
    <3> QED BY <2>1, <2>2, <3>1, SumOfDigits
  <2> QED BY <2>2, <2>3, Zenon DEF SumLeaves, c
<1>5. Power[4] \in Nat
  BY PowerPositive
<1> HIDE DEF u
<1>6. Power[4] * u = u * Power[4]
  BY <1>1, <1>5
<1> QED BY <1>3, <1>4, <1>6 DEF uint8korr

(* The number of bytes of the integers.                                    *)
IntWidths == {2, 3, 4, 5, 6, 8}

(* uintNkorr() reads every width on every platform,                        *)
LEMMA UnsignedReads ==
    ASSUME NEW q \in Platform, NEW w \in IntWidths, NEW m, NEW loc \in Nat,
           NEW v \in Nat, v < Power[w], LiesLow(m, loc, w, v),
           w = 3 => m[loc + 3] \in Nat
    PROVE  uintkorr(q, w, m, loc) = v
<1>1. w \in 0 .. 8
  BY DEF IntWidths
<1>2. Low(At(m, loc, w), w) = v
  BY <1>1, LowReads
<1>3. CASE w = 3
  BY <1>3, ThreeBytesRead DEF uintkorr
<1>4. CASE w # 3 /\ q = "i386"
  BY <1>2, <1>4 DEF uintkorr, i386_uintkorr, FromNativeInt, BigEndian
<1>5. CASE w = 8 /\ q # "i386"
  BY <1>5, EightBytesRead DEF uintkorr
<1>6. CASE w \notin {3, 8} /\ q # "i386"
  BY <1>2, <1>6 DEF uintkorr
<1> QED BY <1>3, <1>4, <1>5, <1>6

(* Half of a power, and which bytes are in its upper half.                 *)
LEMMA Halves ==
    ASSUME NEW v \in Nat, v < Power[3]
    PROVE  /\ Byte \div 2 \in Nat /\ Byte = 2 * (Byte \div 2)
           /\ Power[3] \div 2 = (Byte \div 2) * Power[2]
           /\ Digit(v, 2) = v \div Power[2]
           /\ v \div Power[2] \in Nat
           /\ v \div Power[2] >= Byte \div 2 <=> v >= Power[3] \div 2
<1> DEFINE h == Byte \div 2
           n == Power[2]
           q == v \div Power[2]
           r == v % Power[2]
<1>1. h \in Nat \ {0} /\ Byte = 2 * h
  BY ByteAssumption
<1>2. n \in Nat \ {0} /\ Power[3] = Byte * n
  <2>1. Power[2 + 1] = Byte * Power[2]
    BY PowerStep
  <2> QED BY <2>1, PowerPositive
<1>3. q \in Nat /\ r \in Nat /\ r < n /\ v = n * q + r
  BY <1>2, DivMod
<1>4. Digit(v, 2) = q % Byte
  BY DEF Digit
<1> HIDE DEF h, n, q, r
<1>5. h * n \in Nat /\ Power[3] = 2 * (h * n) + 0
  BY <1>1, <1>2
<1>6. Power[3] \div 2 = h * n
  <2> DEFINE x == h * n
  <2>1. x \in Nat /\ Power[3] = 2 * x + 0
    BY <1>5
  <2> HIDE DEF x
  <2>2. (2 * x + 0) \div 2 = x
    BY <2>1
  <2> QED BY <2>1, <2>2 DEF x
<1>7. q < Byte
  <2> SUFFICES ASSUME Byte <= q PROVE FALSE
    BY <1>1, <1>3
  <2>1. n * q \in Nat /\ n * Byte \in Nat /\ Byte * n = n * Byte
    BY <1>1, <1>2, <1>3
  <2>2. n * Byte <= n * q
    <3>1. Byte = q \/ Byte < q
      BY <1>1, <1>3
    <3> QED BY <1>1, <1>2, <1>3, <2>1, <3>1, Products
  <2> QED BY <1>2, <1>3, <2>1, <2>2
<1>8. q % Byte = q
  BY <1>1, <1>3, <1>7
<1>9. q >= h <=> v >= h * n
  <2>1. n * q \in Nat /\ n * h \in Nat /\ h * n = n * h
    BY <1>1, <1>2, <1>3
  <2>2. q < h => n * q + n <= n * h
    BY <1>1, <1>2, <1>3, Products
  <2>3. h <= q => n * h <= n * q
    <3>1. h < q => n * h + n <= n * q
      BY <1>1, <1>2, <1>3, Products
    <3> QED BY <1>1, <1>2, <1>3, <2>1, <3>1
  <2> QED BY <1>1, <1>2, <1>3, <2>1, <2>2, <2>3
<1> QED BY <1>1, <1>3, <1>4, <1>6, <1>8, <1>9 DEF h, n, q

(* A fourth byte that is all ones where the number is negative.            *)
LEMMA ThreeBytesSigned ==
    ASSUME NEW m, NEW loc \in Nat, NEW v \in Nat, v < Power[3], LiesLow(m, loc, 3, v)
    PROVE  sint3korr(m, loc) = Signed(3, v)
<1> DEFINE h == Byte \div 2
           n == Power[3]
           z == Power[3] \div 2
           t == IF v >= z THEN (Byte - 1) * n ELSE 0
<1>1. Low(At(m, loc, 3), 3) = v
  BY LowReads
<1>2. m[loc + 2] = Digit(v, 2)
  BY DEF LiesLow
<1>3. sint3korr(m, loc) = Signed(4, t + v)
  BY <1>1, <1>2, Halves DEF sint3korr
<1>4. h \in Nat \ {0} /\ Byte = 2 * h
  BY ByteAssumption
<1>5. n \in Nat \ {0} /\ Power[4] = Byte * n
  <2>1. Power[3 + 1] = Byte * Power[3]
    BY PowerStep
  <2> QED BY <2>1, PowerPositive
<1>6. z \in Nat /\ z <= n
  BY <1>5
<1>7. Signed(3, v) = IF v < z THEN v ELSE v - n
  <2>1. v % n = v
    BY <1>5
  <2> QED BY <2>1 DEF Signed, Unsigned
<1> DEFINE x == h * n
<1>8. x \in Nat /\ Byte * n = 2 * x /\ n <= x /\ (Byte - 1) * n = 2 * x - n
  <2>1. h * n \in Nat /\ Byte * n = 2 * (h * n)
    BY <1>4, <1>5
  <2>2. (Byte - 1) * n = Byte * n - n
    BY <1>4, <1>5
  <2>3. n <= h * n
    <3>1. 0 < h /\ n * 0 = 0 /\ n * h = h * n
      BY <1>4, <1>5
    <3>2. n * 0 + n <= n * h
      BY <1>4, <1>5, <3>1, Products
    <3> QED BY <1>4, <1>5, <3>1, <3>2
  <2> QED BY <1>5, <2>1, <2>2, <2>3
<1>9. Power[4] = 2 * x
  BY <1>5, <1>8
<1> HIDE DEF h, n, z, x
<1>10. /\ t + v \in Nat /\ t + v < 2 * x
       /\ t + v < x <=> v < z
       /\ v >= z => (t + v) - 2 * x = v - n
  <2>1. v < n
    BY DEF n
  <2>2. CASE v >= z
    BY <1>5, <1>6, <1>8, <2>1, <2>2
  <2>3. CASE v < z
    BY <1>5, <1>6, <1>8, <2>1, <2>3
  <2> QED BY <1>6, <2>2, <2>3
<1> HIDE DEF t
<1>11. (t + v) % (2 * x) = t + v /\ (2 * x) \div 2 = x
  <2> DEFINE y == t + v
             w == 2 * x
  <2>1. y \in Nat /\ w \in Nat /\ y < w
    BY <1>8, <1>10
  <2> HIDE DEF y, w
  <2>2. y % w = y
    BY <2>1
  <2>3. (2 * x) \div 2 = x
    BY <1>8
  <2> QED BY <2>2, <2>3 DEF y, w
<1>12. Signed(4, t + v) = IF t + v < x THEN t + v ELSE (t + v) - 2 * x
  BY <1>9, <1>11 DEF Signed, Unsigned
<1>13. v < z => t + v = v
  BY <1>6 DEF t
<1> QED BY <1>3, <1>6, <1>7, <1>10, <1>12, <1>13

(* and sintNkorr() reads it with its sign.                                 *)
LEMMA SignedReads ==
    ASSUME NEW q \in Platform, NEW w \in {2, 3, 4, 8}, NEW m, NEW loc \in Nat,
           NEW v \in Nat, v < Power[w], LiesLow(m, loc, w, v)
    PROVE  sintkorr(q, w, m, loc) = Signed(w, v)
<1>1. w \in 0 .. 8 /\ w \in IntWidths
  BY DEF IntWidths
<1>2. Low(At(m, loc, w), w) = v
  BY <1>1, LowReads
<1>3. CASE w = 3
  BY <1>3, ThreeBytesSigned DEF sintkorr, i386_sintkorr
<1>4. CASE w # 3 /\ q = "i386"
  BY <1>2, <1>4 DEF sintkorr, i386_sintkorr, FromNativeInt, BigEndian
<1>5. CASE w # 3 /\ q # "i386"
  <2>1. uintkorr(q, w, m, loc) = v
    BY <1>1, <1>5, UnsignedReads
  <2> QED BY <1>5, <2>1 DEF sintkorr
<1> QED BY <1>3, <1>4, <1>5

(* What is stored in the machine independent format is the bytes, lowest   *)
(* first, on every platform.                                               *)
LEMMA IntegerBytes ==
    ASSUME NEW p \in Platform, NEW w \in IntWidths, NEW v \in Nat,
           NEW i \in 0 .. w - 1
    PROVE  intstore(p, w, v)[i] = Digit(v, i)
<1>1. w \in 0 .. 8
  BY DEF IntWidths
<1>2. Shifts(w, v)[i] = Digit(v, i)
  BY DEF Shifts
<1>3. CASE p = "i386"
  BY <1>2, <1>3 DEF intstore, i386_intstore, NativeInt, BigEndian
<1>4. CASE p # "i386" /\ w # 8
  BY <1>2, <1>4 DEF intstore
<1>5. CASE p # "i386" /\ w = 8
  <2>1. i < 4 => Shifts(4, v)[i] = Digit(v, i)
    BY DEF Shifts
  <2>2. ASSUME i >= 4 PROVE Shifts(4, v \div Power[4])[i - 4] = Digit(v, i)
    <3>1. i - 4 \in 0 .. 3 /\ i - 4 \in 0 .. 4 /\ (i - 4) + 4 = i
      BY <1>5, <2>2
    <3>2. Shifts(4, v \div Power[4])[i - 4] = Digit(v \div Power[4], i - 4)
      BY <3>1 DEF Shifts
    <3>3. Digit(v \div Power[4], i - 4) = Digit(v, (i - 4) + 4)
      BY <3>1, DigitShift
    <3> QED BY <3>1, <3>2, <3>3
  <2>3. i \in 0 .. 7
    BY <1>5
  <2>4. int8store(v)[i] = IF i < 4 THEN Shifts(4, v)[i]
                                   ELSE Shifts(4, v \div Power[4])[i - 4]
    BY <2>3, Zenon DEF int8store
  <2>5. int8store(v)[i] = Digit(v, i)
    BY <2>1, <2>2, <2>3, <2>4
  <2> QED BY <1>5, <2>5 DEF intstore
<1> QED BY <1>3, <1>4, <1>5

(* The bytes of a float are turned where the machine is big endian.        *)
LEMMA FloatBytes ==
    ASSUME NEW p \in Platform, NEW v \in Nat, NEW i \in 0 .. 3
    PROVE  float4store(p, v)[i] = Digit(v, i)
<1>1. 3 - i \in 0 .. 3 /\ 4 - 1 - (3 - i) = i
  OBVIOUS
<1>2. BigEndian(p) => NativeInt(p, 4, v)[3 - i] = Digit(v, i)
  BY <1>1 DEF NativeInt
<1>3. ~BigEndian(p) => NativeInt(p, 4, v)[i] = Digit(v, i)
  BY DEF NativeInt
<1> QED BY <1>2, <1>3 DEF float4store

(* Where the word of a byte is swapped.                                    *)
LEMMA SwapTwice ==
    ASSUME NEW i \in 0 .. 7
    PROVE  (i + 4) % 8 \in 0 .. 7 /\ (((i + 4) % 8) + 4) % 8 = i
<1>1. i \in {0, 1, 2, 3, 4, 5, 6, 7}
  OBVIOUS
<1> QED BY <1>1

(* A double is stored as the machine keeps it, or low word first.          *)
DoublePlace(p, i) == IF p = "big" THEN 7 - i ELSE i

(* That is what doublestore() does, in one piece or in two words,          *)
LEMMA DoubleBytes ==
    ASSUME NEW p \in Platform, NEW v \in Nat, NEW i \in 0 .. 7
    PROVE  doublestore(p, v)[i] = Digit(v, DoublePlace(p, i))
<1>1. CASE p = "i386"
  <2> DEFINE n(u) == NativeDouble("i386", u)
  <2>1. \A u : \A j \in 0 .. 7 : n(u)[j] = Digit(u, j)
    BY DEF NativeDouble
  <2> HIDE DEF n
  <2>2. i386_doublestore(v)[i] = IF i < 4 THEN n(v)[i] ELSE n(v \div Power[4])[i - 4]
    BY DEF i386_doublestore, n
  <2>3. ASSUME i >= 4 PROVE n(v \div Power[4])[i - 4] = Digit(v, i)
    <3>1. i - 4 \in 0 .. 7 /\ i - 4 \in 0 .. 4 /\ (i - 4) + 4 = i
      BY <2>3
    <3>2. n(v \div Power[4])[i - 4] = Digit(v \div Power[4], i - 4)
      BY <2>1, <3>1
    <3>3. Digit(v \div Power[4], i - 4) = Digit(v, (i - 4) + 4)
      BY <3>1, DigitShift
    <3> QED BY <3>1, <3>2, <3>3
  <2>4. i386_doublestore(v)[i] = Digit(v, i)
    BY <2>1, <2>2, <2>3
  <2> QED BY <1>1, <2>4 DEF doublestore, DoublePlace
<1>2. CASE p = "mixed"
  <2>1. NativeDouble(p, v)[(i + 4) % 8] = Digit(v, (((i + 4) % 8) + 4) % 8)
    BY <1>2, SwapTwice DEF NativeDouble
  <2>2. doublestore(p, v)[i] = NativeDouble(p, v)[(i + 4) % 8]
    BY <1>2 DEF doublestore
  <2> QED BY <1>2, <2>1, <2>2, SwapTwice DEF DoublePlace
<1>3. CASE p = "big" \/ p = "little"
  <2>1. NativeDouble(p, v)[i] = Digit(v, DoublePlace(p, i))
    BY <1>3 DEF NativeDouble, DoublePlace
  <2> QED BY <1>3, <2>1 DEF doublestore
<1> QED BY <1>1, <1>2, <1>3 DEF Platform

(* and float8store() stores the lowest byte first everywhere.              *)
LEMMA PortableDoubleBytes ==
    ASSUME NEW p \in Platform, NEW v \in Nat, NEW i \in 0 .. 7
    PROVE  float8store(p, v)[i] = Digit(v, i)
<1>1. CASE p = "big"
  <2>1. 7 - i \in 0 .. 7 /\ 7 - (7 - i) = i
    OBVIOUS
  <2>2. NativeDouble(p, v)[7 - i] = Digit(v, 7 - (7 - i))
    BY <1>1, <2>1 DEF NativeDouble
  <2> QED BY <1>1, <2>1, <2>2 DEF float8store, BigEndian
<1>2. CASE p # "big"
  BY <1>2, DoubleBytes DEF float8store, BigEndian, DoublePlace
<1> QED BY <1>1, <1>2

(* float4get() reads what float4store() leaves on any platform.            *)
LEMMA FloatReads ==
    ASSUME NEW q \in Platform, NEW m, NEW loc \in Nat, NEW v \in Nat, v < Power[4],
           LiesLow(m, loc, 4, v)
    PROVE  float4get(q, m, loc) = v
<1> DEFINE b == [i \in 0 .. 3 |-> IF BigEndian(q) THEN m[loc + 3 - i] ELSE m[loc + i]]
<1>1. CASE BigEndian(q)
  <2>1. \A i \in 0 .. 4 - 1 : b[4 - 1 - i] = Digit(v, i)
    <3> SUFFICES ASSUME NEW i \in 0 .. 3 PROVE b[3 - i] = Digit(v, i)
      OBVIOUS
    <3>1. 3 - i \in 0 .. 3 /\ loc + 3 - (3 - i) = loc + i
      OBVIOUS
    <3> QED BY <1>1, <3>1 DEF LiesLow
  <2> HIDE DEF b
  <2>2. High(b, 4) = v
    BY <2>1, ReadHigh
  <2> QED BY <1>1, <2>2 DEF float4get, FromNativeInt, b
<1>2. CASE ~BigEndian(q)
  <2>1. HasDigits(b, 4, v)
    BY <1>2 DEF LiesLow, HasDigits
  <2> HIDE DEF b
  <2>2. Low(b, 4) = v
    BY <2>1, ReadLow
  <2> QED BY <1>2, <2>2 DEF float4get, FromNativeInt, b
<1> QED BY <1>1, <1>2

(* doubleget() reads what doublestore() leaves on the same machine,        *)
LEMMA DoubleReads ==
    ASSUME NEW q \in Platform, NEW m, NEW loc \in Nat, NEW v \in Nat, v < Power[8],
           \A i \in 0 .. 7 : m[loc + i] = Digit(v, DoublePlace(q, i))
    PROVE  doubleget(q, m, loc) = v
<1> DEFINE b == [i \in 0 .. 7 |->
                   IF q = "mixed" THEN m[loc + ((i + 4) % 8)] ELSE m[loc + i]]
<1>1. CASE q = "mixed"
  <2>1. \A i \in 0 .. 7 : b[(i + 4) % 8] = Digit(v, i)
    <3> SUFFICES ASSUME NEW i \in 0 .. 7 PROVE b[(i + 4) % 8] = Digit(v, i)
      OBVIOUS
    <3>1. b[(i + 4) % 8] = m[loc + ((((i + 4) % 8) + 4) % 8)]
      BY <1>1, SwapTwice
    <3>2. m[loc + i] = Digit(v, i)
      BY <1>1 DEF DoublePlace
    <3> QED BY <3>1, <3>2, SwapTwice
  <2> HIDE DEF b
  <2>2. FromNativeDouble("mixed", b) = v
    BY <2>1, ReadMixed
  <2> QED BY <1>1, <2>2 DEF doubleget, b
<1>2. CASE q = "big"
  <2>1. \A i \in 0 .. 8 - 1 : b[8 - 1 - i] = Digit(v, i)
    <3> SUFFICES ASSUME NEW i \in 0 .. 7 PROVE b[7 - i] = Digit(v, i)
      OBVIOUS
    <3>1. 7 - i \in 0 .. 7 /\ 7 - (7 - i) = i
      OBVIOUS
    <3> QED BY <1>2, <3>1 DEF DoublePlace
  <2> HIDE DEF b
  <2>2. High(b, 8) = v
    BY <2>1, ReadHigh
  <2>3. FromNativeDouble(q, b) = High(b, 8)
    BY <1>2 DEF FromNativeDouble
  <2> QED BY <2>2, <2>3 DEF doubleget, b
<1>3. CASE q # "big" /\ q # "mixed"
  <2>1. HasDigits(b, 8, v)
    BY <1>3 DEF HasDigits, DoublePlace
  <2> HIDE DEF b
  <2>2. Low(b, 8) = v
    BY <2>1, ReadLow
  <2>3. FromNativeDouble(q, b) = Low(b, 8)
    BY <1>3 DEF FromNativeDouble
  <2> QED BY <2>2, <2>3 DEF doubleget, b
<1> QED BY <1>1, <1>2, <1>3

(* and float8get() what float8store() leaves on any.                       *)
LEMMA PortableDoubleReads ==
    ASSUME NEW q \in Platform, NEW m, NEW loc \in Nat, NEW v \in Nat, v < Power[8],
           LiesLow(m, loc, 8, v)
    PROVE  float8get(q, m, loc) = v
<1>1. CASE q = "big"
  <2> DEFINE b == [i \in 0 .. 7 |-> m[loc + 7 - i]]
  <2>1. \A i \in 0 .. 8 - 1 : b[8 - 1 - i] = Digit(v, i)
    <3> SUFFICES ASSUME NEW i \in 0 .. 7 PROVE b[7 - i] = Digit(v, i)
      OBVIOUS
    <3>1. 7 - i \in 0 .. 7 /\ loc + 7 - (7 - i) = loc + i
      OBVIOUS
    <3> QED BY <3>1 DEF LiesLow
  <2> HIDE DEF b
  <2>2. High(b, 8) = v
    BY <2>1, ReadHigh
  <2>3. FromNativeDouble(q, b) = High(b, 8)
    BY <1>1 DEF FromNativeDouble
  <2> QED BY <1>1, <2>2, <2>3 DEF float8get, BigEndian, b
<1>2. CASE q # "big"
  <2>1. \A i \in 0 .. 7 : m[loc + i] = Digit(v, DoublePlace(q, i))
    BY <1>2 DEF LiesLow, DoublePlace
  <2>2. doubleget(q, m, loc) = v
    BY <2>1, DoubleReads
  <2> QED BY <1>2, <2>2 DEF float8get, BigEndian
<1> QED BY <1>1, <1>2

(* The memory from loc on is that of an integer variable of p.             *)
LiesNative(p, m, loc, w, v) == \A i \in 0 .. w - 1 : m[loc + i] = NativeInt(p, w, v)[i]

(* Such bytes are read as the variable they are.                           *)
LEMMA NativeReads ==
    ASSUME NEW p \in Platform, NEW m, NEW loc \in Nat, NEW w \in {2, 4, 8},
           NEW v \in Nat, v < Power[w], LiesNative(p, m, loc, w, v)
    PROVE  /\ FromNativeInt(p, w, At(m, loc, w)) = v
           /\ At(m, loc, w) = NativeInt(p, w, v)
           /\ BigEndian(p) => High(At(m, loc, w), w) = v
           /\ ~BigEndian(p) => LiesLow(m, loc, w, v)
<1> DEFINE b == At(m, loc, w)
<1>0. w \in 0 .. 8
  OBVIOUS
<1>1. \A i \in 0 .. w - 1 : b[i] = NativeInt(p, w, v)[i]
  BY DEF LiesNative, At
<1>2. b = NativeInt(p, w, v)
  <2>1. b = [i \in 0 .. w - 1 |-> b[i]]
    BY DEF At
  <2>2. NativeInt(p, w, v) = [i \in 0 .. w - 1 |-> NativeInt(p, w, v)[i]]
    BY DEF NativeInt
  <2> HIDE DEF b
  <2> QED BY <1>1, <2>1, <2>2
<1>3. CASE BigEndian(p)
  <2>1. \A i \in 0 .. w - 1 : b[w - 1 - i] = Digit(v, i)
    <3> SUFFICES ASSUME NEW i \in 0 .. w - 1 PROVE b[w - 1 - i] = Digit(v, i)
      OBVIOUS
    <3>1. w - 1 - i \in 0 .. w - 1 /\ w - 1 - (w - 1 - i) = i
      OBVIOUS
    <3>2. NativeInt(p, w, v)[w - 1 - i] = Digit(v, w - 1 - (w - 1 - i))
      BY <1>3, <3>1 DEF NativeInt
    <3> HIDE DEF b
    <3> QED BY <1>2, <3>1, <3>2
  <2> HIDE DEF b
  <2>2. High(b, w) = v
    BY <1>0, <2>1, ReadHigh
  <2> QED BY <1>2, <1>3, <2>2 DEF FromNativeInt, b
<1>4. CASE ~BigEndian(p)
  <2>1. \A i \in 0 .. w - 1 : NativeInt(p, w, v)[i] = Digit(v, i)
    BY <1>4 DEF NativeInt
  <2>2. LiesLow(m, loc, w, v)
    BY <2>1 DEF LiesLow, LiesNative
  <2>3. Low(b, w) = v
    BY <1>0, <2>2, LowReads
  <2> HIDE DEF b
  <2> QED BY <1>2, <1>4, <2>2, <2>3 DEF FromNativeInt, b
<1> QED BY <1>3, <1>4

(* A short is two bytes.                                                   *)
LEMMA TwoBytes ==
    ASSUME NEW v \in Nat, v < Power[2]
    PROVE  Digit(v, 0) + Digit(v, 1) * Byte = v
<1> DEFINE d == Digit(v, 0)
           e == Digit(v, 1)
           q == v \div Power[1]
<1>1. Byte \in Nat /\ Power[0] = 1 /\ Power[2] \in Nat \ {0}
  BY ByteAssumption, PowerStep, PowerPositive
<1>2. v \div Power[2] = 0 /\ v \div Power[0] = v
  BY <1>1
<1>3. /\ d \in 0 .. Byte - 1
      /\ v \div Power[0] = Byte * (v \div Power[0 + 1]) + d
  <2>1. 0 \in 0 .. 7
    OBVIOUS
  <2> QED BY <2>1, DigitStep, Zenon
<1>4. /\ e \in 0 .. Byte - 1
      /\ v \div Power[1] = Byte * (v \div Power[1 + 1]) + e
  <2>1. 1 \in 0 .. 7
    OBVIOUS
  <2> QED BY <2>1, DigitStep, Zenon
<1> HIDE DEF d, e
<1>5. 0 + 1 = 1 /\ 1 + 1 = 2
  OBVIOUS
<1>6. v = Byte * q + d
  BY <1>2, <1>3, <1>5, Zenon
<1>7. q = Byte * 0 + e
  BY <1>2, <1>4, <1>5, Zenon
<1> HIDE DEF q
<1>8. d \in Nat /\ e \in Nat
  BY <1>1, <1>3, <1>4
<1>9. q = e
  BY <1>1, <1>7, <1>8
<1>10. d + e * Byte = Byte * e + d
  BY <1>1, <1>8
<1> QED BY <1>6, <1>9, <1>10, Zenon DEF d, e
(* The bytes of every kind.                                                *)
NativeInts == {"short", "long", "float", "longlong"}

(* Every kind has a width, within the bytes it needs.                      *)
LEMMA KindWidths ==
    ASSUME NEW kind \in Portable \union Machine
    PROVE  /\ Width(kind) \in IntWidths /\ Width(kind) \in 2 .. 8
           /\ Width(kind) <= Needs(kind)
           /\ kind \in NativeInts => Width(kind) \in {2, 4, 8}
BY DEF Portable, Machine, Width, Needs, IntWidths, NativeInts

(* What the store of each kind puts in the memory.                         *)
LEMMA BytesOf ==
    ASSUME NEW p \in Platform, NEW kind \in Portable \union Machine, NEW v \in Nat,
           NEW i \in 0 .. Width(kind) - 1
    PROVE  /\ kind \in Portable => StoreBytes(p, kind, v)[i] = Digit(v, i)
           /\ kind \in NativeInts =>
                 StoreBytes(p, kind, v)[i] = NativeInt(p, Width(kind), v)[i]
           /\ kind = "double" =>
                 StoreBytes(p, kind, v)[i] = Digit(v, DoublePlace(p, i))
<1>1. CASE kind = "float4"
  BY <1>1, FloatBytes DEF StoreBytes, Width, NativeInts
<1>2. CASE kind = "float8"
  <2>1. i \in 0 .. 7
    BY <1>2 DEF Width
  <2> QED BY <1>2, <2>1, PortableDoubleBytes DEF StoreBytes, NativeInts
<1>3. CASE kind = "double"
  <2>1. i \in 0 .. 7
    BY <1>3 DEF Width
  <2> QED BY <1>3, <2>1, DoubleBytes DEF StoreBytes, NativeInts, Portable
<1>4. CASE kind \in {"int2", "int3", "int4", "int5", "int6", "int8"}
  <2>1. intstore(p, Width(kind), v)[i] = Digit(v, i)
    BY KindWidths, IntegerBytes
  <2>2. StoreBytes(p, kind, v) = intstore(p, Width(kind), v)
    BY <1>4 DEF StoreBytes
  <2> QED BY <1>4, <2>1, <2>2 DEF NativeInts
<1>5. CASE kind \in {"float", "longlong"}
  <2>1. StoreBytes(p, kind, v) = NativeInt(p, Width(kind), v)
    BY <1>5 DEF StoreBytes, Width, floatstore, longlongstore
  <2> QED BY <1>5, <2>1 DEF Portable
<1>6. CASE kind \in {"short", "long"}
  <2> DEFINE w == Width(kind)
  <2>0. w \in {2, 4} /\ w \in IntWidths /\ i \in 0 .. w - 1 /\ kind \notin Portable
        /\ (kind = "short" <=> w = 2)
    BY <1>6, KindWidths DEF Width, Portable
  <2>1. CASE BigEndian(p)
    <3>1. StoreBytes(p, kind, v)[i] = Digit(v, w - 1 - i)
      <4>1. CASE kind = "short"
        BY <2>0, <2>1, <4>1 DEF StoreBytes, shortstore
      <4>2. CASE kind = "long"
        BY <2>0, <2>1, <4>2 DEF StoreBytes, longstore
      <4> QED BY <1>6, <4>1, <4>2
    <3>2. NativeInt(p, w, v)[i] = Digit(v, w - 1 - i)
      BY <2>1, <2>0 DEF NativeInt
    <3> QED BY <1>6, <2>0, <3>1, <3>2
  <2>2. CASE ~BigEndian(p)
    <3>1. StoreBytes(p, kind, v) = intstore(p, w, v)
      BY <1>6, <2>0, <2>2 DEF StoreBytes, shortstore, longstore
    <3>2. intstore(p, w, v)[i] = Digit(v, i)
      BY <2>0, IntegerBytes
    <3>3. NativeInt(p, w, v)[i] = Digit(v, i)
      BY <2>2, <2>0 DEF NativeInt
    <3> QED BY <1>6, <2>0, <3>1, <3>2, <3>3
  <2> QED BY <2>1, <2>2
<1> QED BY <1>1, <1>2, <1>3, <1>4, <1>5, <1>6 DEF Portable, Machine

(* All of it is bytes.                                                     *)
LEMMA BytesAreNumbers ==
    ASSUME NEW p \in Platform, NEW kind \in Portable \union Machine, NEW v \in Nat,
           NEW i \in 0 .. Width(kind) - 1
    PROVE  StoreBytes(p, kind, v)[i] \in Nat
<1>1. ASSUME NEW k \in 0 .. 7 PROVE Digit(v, k) \in Nat
  <2>1. Digit(v, k) \in 0 .. Byte - 1
    BY DigitStep, Zenon
  <2> QED BY <2>1, ByteAssumption
<1>2. i \in 0 .. 7 /\ Width(kind) - 1 - i \in 0 .. 7
  BY KindWidths
<1>3. CASE kind \in Portable
  BY <1>1, <1>2, <1>3, BytesOf
<1>4. CASE kind \in NativeInts
  <2>1. NativeInt(p, Width(kind), v)[i] \in Nat
    BY <1>1, <1>2 DEF NativeInt
  <2> QED BY <1>4, <2>1, BytesOf
<1>5. CASE kind = "double"
  <2>1. DoublePlace(p, i) \in 0 .. 7
    BY <1>2 DEF DoublePlace
  <2> QED BY <1>1, <1>5, <2>1, BytesOf
<1> QED BY <1>3, <1>4, <1>5 DEF Portable, Machine, NativeInts
(* A number that was stored.                                               *)
Field == [at : Nat, kind : Portable \union Machine, by : Platform, value : Nat]

(* A number that was stored fits in its bytes, and they in the memory.     *)
FieldFits(f) ==
    f.value < Power[Width(f.kind)] /\ f.at + Needs(f.kind) <= Size

(* The bytes of the number are still in the memory.                        *)
FieldLies(m, f) ==
    \A i \in 0 .. Width(f.kind) - 1 :
        m[f.at + i] = StoreBytes(f.by, f.kind, f.value)[i]

(* The inductive invariant: the memory is bytes, what was stored fits, and *)
(* what no other number was stored over still lies where it was put.       *)
StoreInv ==
    /\ memory \in [Addresses -> Nat]
    /\ fields \in Seq(Field)
    /\ \A k \in DOMAIN fields : FieldFits(fields[k])
    /\ \A k \in Intact : FieldLies(memory, fields[k])

(* A store writes its own bytes and no other.                              *)
LEMMA StoreWrites ==
    ASSUME StoreInv, NEW p \in Platform, NEW kind \in Portable \union Machine,
           NEW loc \in Addresses, NEW v \in Nat, loc + Needs(kind) <= Size,
           Store(p, kind, loc, v)
    PROVE  /\ memory' \in [Addresses -> Nat]
           /\ \A i \in 0 .. Width(kind) - 1 :
                 memory'[loc + i] = StoreBytes(p, kind, v)[i]
           /\ \A a \in Addresses : a \notin loc .. loc + Width(kind) - 1 =>
                 memory'[a] = memory[a]
<1> DEFINE w == Width(kind)
           b == StoreBytes(p, kind, v)
<1>1. w \in Nat /\ loc \in Nat /\ loc + w <= Size /\ Size \in Nat
  BY KindWidths, ByteAssumption DEF Addresses, Needs
<1>2. \A i \in 0 .. w - 1 : b[i] \in Nat
  BY BytesAreNumbers
<1>3. memory' = [a \in Addresses |-> IF a \in loc .. loc + w - 1 THEN b[a - loc]
                                                              ELSE memory[a]]
  BY DEF Store
<1> HIDE DEF w, b
<1>4. \A a \in loc .. loc + w - 1 : a - loc \in 0 .. w - 1
  BY <1>1
<1>5. memory' \in [Addresses -> Nat]
  <2>1. memory \in [Addresses -> Nat]
    BY DEF StoreInv
  <2> QED BY <1>2, <1>3, <1>4, <2>1
<1>6. ASSUME NEW i \in 0 .. w - 1 PROVE memory'[loc + i] = b[i]
  <2>1. loc + i \in Addresses /\ loc + i \in loc .. loc + w - 1 /\ (loc + i) - loc = i
    BY <1>1 DEF Addresses
  <2> QED BY <1>3, <2>1
<1>7. \A a \in Addresses : a \notin loc .. loc + w - 1 => memory'[a] = memory[a]
  BY <1>3
<1> QED BY <1>5, <1>6, <1>7 DEF w, b

(* A number that is stored leaves those beside it as they were.            *)
LEMMA StoreKeeps ==
    ASSUME StoreInv, NEW p \in Platform, NEW kind \in Portable \union Machine,
           NEW loc \in Addresses, NEW v \in Nat, v < Power[Width(kind)],
           loc + Needs(kind) <= Size, Store(p, kind, loc, v)
    PROVE  StoreInv'
<1> DEFINE new == [at |-> loc, kind |-> kind, by |-> p, value |-> v]
           n == Len(fields)
<1>1. new \in Field /\ FieldFits(new)
  <2>1. loc \in Nat
    BY ByteAssumption DEF Addresses
  <2> QED BY <2>1 DEF Field, FieldFits
<1>2. fields' = Append(fields, new) /\ fields \in Seq(Field)
  BY DEF Store, StoreInv
<1>3. /\ fields' \in Seq(Field) /\ n \in Nat /\ Len(fields') = n + 1
      /\ DOMAIN fields = 1 .. n /\ DOMAIN fields' = 1 .. n + 1
      /\ fields'[n + 1] = new /\ \A k \in 1 .. n : fields'[k] = fields[k]
      /\ \A k \in 1 .. n : fields[k] \in Field
  <2> HIDE DEF new
  <2> QED BY <1>1, <1>2
<1>4. \A k \in DOMAIN fields' : FieldFits(fields'[k])
  <2> HIDE DEF new, n
  <2>1. \A k \in 1 .. n : FieldFits(fields[k])
    BY <1>3 DEF StoreInv
  <2>2. \A k \in 1 .. n + 1 : k \in 1 .. n \/ k = n + 1
    BY <1>3
  <2> QED BY <1>1, <1>3, <2>1, <2>2
<1>5. ASSUME NEW k \in Intact' PROVE FieldLies(memory', fields'[k])
  <2>1. k \in 1 .. n + 1
    BY <1>3 DEF Intact
  <2>2. CASE k = n + 1
    <3>1. FieldLies(memory', new)
      BY StoreWrites DEF FieldLies
    <3> HIDE DEF new
    <3> QED BY <1>3, <2>2, <3>1
  <2>3. CASE k # n + 1
    <3> DEFINE f == fields[k]
               w == Width(f.kind)
    <3>1. k \in 1 .. n /\ fields'[k] = f /\ f \in Field /\ k \in DOMAIN fields
      <4> HIDE DEF new, n
      <4>1. k \in 1 .. n
        BY <1>3, <2>1, <2>3
      <4> QED BY <1>3, <4>1
    <3>2. \A j \in k + 1 .. n + 1 :
             \/ fields'[k].at + Width(fields'[k].kind) <= fields'[j].at
             \/ fields'[j].at + Width(fields'[j].kind) <= fields'[k].at
      BY <1>3, Zenon DEF Intact
    <3>3. k \in Intact
      <4> SUFFICES ASSUME NEW j \in k + 1 .. n
                   PROVE  \/ fields[k].at + Width(fields[k].kind) <= fields[j].at
                          \/ fields[j].at + Width(fields[j].kind) <= fields[k].at
        BY <3>1 DEF Intact
      <4> HIDE DEF new, n, f, w
      <4>1. j \in k + 1 .. n + 1 /\ j \in 1 .. n
        BY <1>3, <3>1
      <4>2. fields'[j] = fields[j] /\ fields'[k] = fields[k]
        BY <1>3, <3>1, <4>1
      <4> QED BY <3>2, <4>1, <4>2
    <3>4. f.at + w <= loc \/ loc + Width(kind) <= f.at
      <4>1. n + 1 \in k + 1 .. n + 1
        BY <1>3, <3>1
      <4>2. new.at = loc /\ new.kind = kind
        OBVIOUS
      <4> HIDE DEF new, n
      <4> QED BY <1>3, <3>1, <3>2, <4>1, <4>2
    <3>5. /\ f.at \in Nat /\ w \in Nat /\ f.at + w <= Size /\ loc \in Nat
          /\ Width(kind) \in Nat /\ Size \in Nat
      <4>1. f.kind \in Portable \union Machine /\ f.at \in Nat
        BY <3>1 DEF Field
      <4>2. FieldFits(f)
        BY <3>1 DEF StoreInv
      <4> HIDE DEF f
      <4>3. f.at + Needs(f.kind) <= Size
        BY <4>2 DEF FieldFits
      <4>4. w \in Nat /\ Needs(f.kind) \in Nat /\ w <= Needs(f.kind)
        BY <4>1, KindWidths DEF Needs
      <4> HIDE DEF w
      <4>5. Width(kind) \in Nat
        BY KindWidths
      <4> QED BY <4>1, <4>3, <4>4, <4>5, ByteAssumption DEF Addresses
    <3>6. FieldLies(memory, f)
      BY <3>3 DEF StoreInv
    <3>7. FieldLies(memory', f)
      <4> SUFFICES ASSUME NEW i \in 0 .. w - 1
                   PROVE  memory'[f.at + i] = StoreBytes(f.by, f.kind, f.value)[i]
        BY DEF FieldLies
      <4>1. memory[f.at + i] = StoreBytes(f.by, f.kind, f.value)[i]
        BY <3>6 DEF FieldLies
      <4> HIDE DEF f, w
      <4>2. f.at + i \in Addresses /\ f.at + i \notin loc .. loc + Width(kind) - 1
        BY <3>4, <3>5 DEF Addresses
      <4>3. memory'[f.at + i] = memory[f.at + i]
        BY <4>2, StoreWrites
      <4> QED BY <4>1, <4>3
    <3> HIDE DEF f
    <3> QED BY <3>1, <3>7
  <2> QED BY <2>2, <2>3
<1>6. memory' \in [Addresses -> Nat]
  BY StoreWrites
<1> HIDE DEF new, n
<1> QED BY <1>3, <1>4, <1>5, <1>6 DEF StoreInv

(* The invariant holds of every behaviour.                                 *)
LEMMA StoreInvariance == StoreSpec => []StoreInv
<1>1. StoreInit => StoreInv
  <2> SUFFICES ASSUME StoreInit PROVE StoreInv
    OBVIOUS
  <2>1. fields = <<>> /\ DOMAIN fields = {} /\ memory = [a \in Addresses |-> 0]
    BY DEF StoreInit
  <2>2. fields \in Seq(Field)
    BY <2>1
  <2>3. Intact = {}
    BY <2>1 DEF Intact
  <2> QED BY <2>1, <2>2, <2>3 DEF StoreInv
<1>2. StoreInv /\ [StoreNext]_storage => StoreInv'
  <2> SUFFICES ASSUME StoreInv, [StoreNext]_storage PROVE StoreInv'
    OBVIOUS
  <2>1. CASE StoreNext
    <3>1. PICK kind \in Portable \union Machine, p \in Platform, loc \in Addresses :
             /\ loc + Needs(kind) <= Size
             /\ \E v \in Storable(Width(kind)) : Store(p, kind, loc, v)
      BY <2>1 DEF StoreNext
    <3>2. PICK v \in Storable(Width(kind)) : Store(p, kind, loc, v)
      BY <3>1
    <3>3. v \in Nat /\ v < Power[Width(kind)]
      <4>1. Width(kind) \in 2 .. 8
        BY KindWidths
      <4>2. v \in 0 .. Power[Width(kind)] - 1
        BY <4>1, StorableAssumption
      <4>3. Power[Width(kind)] \in Nat
        BY <4>1, PowerPositive
      <4> QED BY <4>2, <4>3
    <3> QED BY <3>1, <3>2, <3>3, StoreKeeps
  <2>2. CASE UNCHANGED storage
    BY <2>2 DEF storage, StoreInv, Intact
  <2> QED BY <2>1, <2>2
<1> QED BY <1>1, <1>2, PTL DEF StoreSpec

(* Every number no other was stored over, and what is known of it.         *)
LEMMA IntactField ==
    ASSUME StoreInv, NEW k \in Intact
    PROVE  /\ fields[k] \in Field /\ FieldFits(fields[k])
           /\ FieldLies(memory, fields[k])
<1>1. k \in DOMAIN fields
  BY DEF Intact
<1> QED BY <1>1 DEF StoreInv

(* A number in the machine independent format lies lowest byte first,      *)
LEMMA PortableLies ==
    ASSUME StoreInv, NEW f \in Field, FieldFits(f), FieldLies(memory, f),
           f.kind \in Portable
    PROVE  /\ LiesLow(memory, f.at, Width(f.kind), f.value)
           /\ f.at \in Nat /\ f.value \in Nat /\ f.value < Power[Width(f.kind)]
           /\ Width(f.kind) = 3 => memory[f.at + 3] \in Nat
<1>1. /\ f.at \in Nat /\ f.value \in Nat /\ f.by \in Platform
      /\ f.kind \in Portable \union Machine
  BY DEF Field
<1>2. \A i \in 0 .. Width(f.kind) - 1 :
         StoreBytes(f.by, f.kind, f.value)[i] = Digit(f.value, i)
  BY <1>1, BytesOf
<1>3. LiesLow(memory, f.at, Width(f.kind), f.value)
  BY <1>2 DEF LiesLow, FieldLies
<1>4. ASSUME Width(f.kind) = 3 PROVE memory[f.at + 3] \in Nat
  <2>1. Needs(f.kind) = 4
    BY <1>4 DEF Portable, Width, Needs
  <2>2. f.at + 3 \in Addresses
    BY <1>1, <2>1, ByteAssumption DEF FieldFits, Addresses
  <2> QED BY <2>2 DEF StoreInv
<1> QED BY <1>1, <1>3, <1>4 DEF FieldFits

(* and is read back on every platform.                                     *)
LEMMA PortableHolds == StoreInv => PortableReadsBack
<1> SUFFICES ASSUME StoreInv, NEW k \in Intact, NEW q \in Platform
             PROVE  LET f == fields[k]
                        w == Width(f.kind)
                        integer == f.kind \in Portable \ {"float4", "float8"}
                    IN /\ f.kind = "float4" => float4get(q, memory, f.at) = f.value
                       /\ f.kind = "float8" => float8get(q, memory, f.at) = f.value
                       /\ integer => uintkorr(q, w, memory, f.at) = f.value
                       /\ integer /\ f.kind \notin {"int5", "int6"} =>
                            sintkorr(q, w, memory, f.at) = Signed(w, f.value)
  BY Zenon DEF PortableReadsBack
<1> DEFINE f == fields[k]
           w == Width(f.kind)
<1>1. f \in Field /\ FieldFits(f) /\ FieldLies(memory, f)
  BY IntactField
<1> HIDE DEF f
<1>2. ASSUME f.kind \in Portable
      PROVE  /\ LiesLow(memory, f.at, w, f.value)
             /\ f.at \in Nat /\ f.value \in Nat /\ f.value < Power[w]
             /\ w = 3 => memory[f.at + 3] \in Nat
  BY <1>1, <1>2, PortableLies
<1>3. f.kind = "float4" => float4get(q, memory, f.at) = f.value
  <2> SUFFICES ASSUME f.kind = "float4" PROVE float4get(q, memory, f.at) = f.value
    OBVIOUS
  <2>1. w = 4 /\ f.kind \in Portable
    BY DEF Width, Portable
  <2> QED BY <1>2, <2>1, FloatReads
<1>4. f.kind = "float8" => float8get(q, memory, f.at) = f.value
  <2> SUFFICES ASSUME f.kind = "float8" PROVE float8get(q, memory, f.at) = f.value
    OBVIOUS
  <2>1. w = 8 /\ f.kind \in Portable
    BY DEF Width, Portable
  <2> QED BY <1>2, <2>1, PortableDoubleReads
<1>5. ASSUME f.kind \in Portable PROVE uintkorr(q, w, memory, f.at) = f.value
  <2>1. w \in IntWidths
    BY <1>5, KindWidths
  <2> HIDE DEF w
  <2> QED BY <1>2, <1>5, <2>1, UnsignedReads
<1>6. ASSUME f.kind \in Portable \ {"int5", "int6"}
      PROVE  sintkorr(q, w, memory, f.at) = Signed(w, f.value)
  <2>1. w \in {2, 3, 4, 8}
    BY <1>6 DEF Width, Portable
  <2> HIDE DEF w
  <2> QED BY <1>2, <1>6, <2>1, SignedReads
<1> HIDE DEF w
<1> QED BY <1>3, <1>4, <1>5, <1>6 DEF f, w

(* An integer in the machine's own format lies as a variable does.         *)
LEMMA NativeLies ==
    ASSUME StoreInv, NEW f \in Field, FieldFits(f), FieldLies(memory, f),
           f.kind \in NativeInts
    PROVE  /\ LiesNative(f.by, memory, f.at, Width(f.kind), f.value)
           /\ Width(f.kind) \in {2, 4, 8}
           /\ f.value < Power[Width(f.kind)]
<1>1. /\ f.at \in Nat /\ f.value \in Nat /\ f.by \in Platform
      /\ f.kind \in Portable \union Machine
  BY DEF Field
<1>2. \A i \in 0 .. Width(f.kind) - 1 :
         StoreBytes(f.by, f.kind, f.value)[i] = NativeInt(f.by, Width(f.kind), f.value)[i]
  BY <1>1, BytesOf
<1>3. LiesNative(f.by, memory, f.at, Width(f.kind), f.value)
  BY <1>2 DEF LiesNative, FieldLies
<1> QED BY <1>1, <1>3, KindWidths DEF FieldFits

(* A short and a long, read by the macros of the machine.                  *)
LEMMA ShortReads ==
    ASSUME NEW p \in Platform, NEW m, NEW loc \in Nat, NEW v \in Nat, v < Power[2],
           LiesNative(p, m, loc, 2, v)
    PROVE  ushortget(p, m, loc) = v /\ shortget(p, m, loc) = Signed(2, v)
<1>1. CASE BigEndian(p)
  <2>1. m[loc + 0] = Digit(v, 1) /\ m[loc + 1] = Digit(v, 0)
    BY <1>1 DEF LiesNative, NativeInt
  <2>2. loc + 0 = loc
    OBVIOUS
  <2>3. m[loc + 1] + m[loc] * Byte = v
    BY <2>1, <2>2, TwoBytes
  <2> QED BY <1>1, <2>3 DEF ushortget, shortget
<1>2. CASE ~BigEndian(p)
  <2>1. LiesLow(m, loc, 2, v)
    BY <1>2, NativeReads
  <2>2. uintkorr(p, 2, m, loc) = v
    BY <2>1, UnsignedReads DEF IntWidths
  <2>3. sintkorr(p, 2, m, loc) = Signed(2, v)
    BY <2>1, SignedReads
  <2> QED BY <1>2, <2>2, <2>3 DEF ushortget, shortget
<1> QED BY <1>1, <1>2

(* Four bytes are also in network byte order on a big endian machine.      *)
LEMMA LongReads ==
    ASSUME NEW p \in Platform, NEW m, NEW loc \in Nat, NEW v \in Nat, v < Power[4],
           LiesNative(p, m, loc, 4, v)
    PROVE  /\ ulongget(p, m, loc) = v /\ longget(p, m, loc) = Signed(4, v)
           /\ BigEndian(p) => int4net(m, loc) = Signed(4, v)
<1>1. CASE BigEndian(p)
  <2>1. FromNativeInt(p, 4, At(m, loc, 4)) = v /\ High(At(m, loc, 4), 4) = v
    BY <1>1, NativeReads
  <2> QED BY <1>1, <2>1 DEF ulongget, longget, int4net
<1>2. CASE ~BigEndian(p)
  <2>1. LiesLow(m, loc, 4, v)
    BY <1>2, NativeReads
  <2>2. uintkorr(p, 4, m, loc) = v
    BY <2>1, UnsignedReads DEF IntWidths
  <2>3. sintkorr(p, 4, m, loc) = Signed(4, v)
    BY <2>1, SignedReads
  <2> QED BY <1>2, <2>2, <2>3 DEF ulongget, longget
<1> QED BY <1>1, <1>2

(* A double is a double of the machine, but for its swapped words.         *)
LEMMA MachineDoubleReads ==
    ASSUME NEW p \in Platform, NEW m, NEW loc \in Nat, NEW v \in Nat, v < Power[8],
           \A i \in 0 .. 7 : m[loc + i] = Digit(v, DoublePlace(p, i))
    PROVE  doubleget(p, m, loc) = v /\ (p # "mixed" => At(m, loc, 8) = NativeDouble(p, v))
<1>1. doubleget(p, m, loc) = v
  BY DoubleReads
<1>2. ASSUME p # "mixed" PROVE At(m, loc, 8) = NativeDouble(p, v)
  <2>1. At(m, loc, 8) = [i \in 0 .. 7 |-> Digit(v, DoublePlace(p, i))]
    BY DEF At
  <2>2. NativeDouble(p, v) = [i \in 0 .. 7 |-> Digit(v, DoublePlace(p, i))]
    BY <1>2 DEF NativeDouble, DoublePlace
  <2> QED BY <2>1, <2>2
<1> QED BY <1>1, <1>2

(* The machine that stored a number reads it back.                         *)
LEMMA MachineHolds == StoreInv => MachineReadsBack
<1> SUFFICES ASSUME StoreInv, NEW k \in Intact
             PROVE  LET f == fields[k]
                        p == f.by
                        w == Width(f.kind)
                        bytes == At(memory, f.at, w)
                    IN CASE f.kind = "short" ->
                                /\ ushortget(p, memory, f.at) = f.value
                                /\ shortget(p, memory, f.at) = Signed(w, f.value)
                                /\ bytes = NativeInt(p, w, f.value)
                         [] f.kind = "long" ->
                                /\ ulongget(p, memory, f.at) = f.value
                                /\ longget(p, memory, f.at) = Signed(w, f.value)
                                /\ bytes = NativeInt(p, w, f.value)
                                /\ BigEndian(p) => int4net(memory, f.at) = Signed(w, f.value)
                         [] f.kind = "float" -> floatget(p, memory, f.at) = f.value
                         [] f.kind = "double" ->
                                /\ doubleget(p, memory, f.at) = f.value
                                /\ p # "mixed" => bytes = NativeDouble(p, f.value)
                         [] f.kind = "longlong" -> longlongget(p, memory, f.at) = f.value
                         [] OTHER -> TRUE
  BY Zenon DEF MachineReadsBack
<1> DEFINE f == fields[k]
           p == f.by
           w == Width(f.kind)
<1>1. f \in Field /\ FieldFits(f) /\ FieldLies(memory, f)
  BY IntactField
<1> HIDE DEF f
<1>2. p \in Platform /\ f.at \in Nat /\ f.value \in Nat
  BY <1>1 DEF Field
<1>3. ASSUME f.kind \in NativeInts
      PROVE  /\ LiesNative(p, memory, f.at, w, f.value)
             /\ w \in {2, 4, 8} /\ f.value < Power[w]
             /\ FromNativeInt(p, w, At(memory, f.at, w)) = f.value
             /\ At(memory, f.at, w) = NativeInt(p, w, f.value)
  <2>1. LiesNative(p, memory, f.at, w, f.value) /\ w \in {2, 4, 8} /\ f.value < Power[w]
    BY <1>1, <1>3, NativeLies
  <2> HIDE DEF p, w
  <2> QED BY <1>2, <2>1, NativeReads
<1>4. CASE f.kind = "short"
  <2>1. w = 2 /\ f.kind \in NativeInts
    BY <1>4 DEF Width, NativeInts
  <2> HIDE DEF w, p
  <2>2. ushortget(p, memory, f.at) = f.value /\ shortget(p, memory, f.at) = Signed(w, f.value)
    BY <1>2, <1>3, <2>1, ShortReads
  <2> QED BY <1>3, <1>4, <2>1, <2>2 DEF f, p, w
<1>5. CASE f.kind = "long"
  <2>1. w = 4 /\ f.kind \in NativeInts
    BY <1>5 DEF Width, NativeInts
  <2> HIDE DEF w, p
  <2>2. /\ ulongget(p, memory, f.at) = f.value
        /\ longget(p, memory, f.at) = Signed(w, f.value)
        /\ BigEndian(p) => int4net(memory, f.at) = Signed(w, f.value)
    BY <1>2, <1>3, <2>1, LongReads
  <2> QED BY <1>3, <1>5, <2>1, <2>2 DEF f, p, w
<1>6. CASE f.kind = "float"
  <2>1. w = 4 /\ f.kind \in NativeInts
    BY <1>6 DEF Width, NativeInts
  <2>2. floatget(p, memory, f.at) = f.value
    BY <1>3, <2>1 DEF floatget
  <2> QED BY <1>6, <2>2 DEF f
<1>7. CASE f.kind = "longlong"
  <2>1. w = 8 /\ f.kind \in NativeInts
    BY <1>7 DEF Width, NativeInts
  <2>2. longlongget(p, memory, f.at) = f.value
    BY <1>3, <2>1 DEF longlongget
  <2> QED BY <1>7, <2>2 DEF f
<1>8. CASE f.kind = "double"
  <2>1. w = 8 /\ f.kind \in Portable \union Machine /\ f.value < Power[8]
    BY <1>1, <1>8 DEF Width, Machine, FieldFits
  <2>2. \A i \in 0 .. 7 : memory[f.at + i] = Digit(f.value, DoublePlace(p, i))
    BY <1>1, <1>2, <1>8, <2>1, BytesOf DEF FieldLies
  <2> HIDE DEF p, w
  <2>3. /\ doubleget(p, memory, f.at) = f.value
        /\ p # "mixed" => At(memory, f.at, 8) = NativeDouble(p, f.value)
    BY <1>2, <2>1, <2>2, MachineDoubleReads
  <2> QED BY <1>8, <2>1, <2>3 DEF f, p, w
<1>9. CASE f.kind \notin {"short", "long", "float", "longlong", "double"}
  BY <1>9 DEF f
<1> QED BY <1>4, <1>5, <1>6, <1>7, <1>8, <1>9

(* A number stored by any macro of my_global.h on any platform, at any     *)
(* address and whatever is stored beside it, is read back by whoever is    *)
(* meant to read it: for every number of every width and any even base,    *)
(* 256 in particular.                                                      *)
THEOREM NumbersReadBackHolds == StoreSpec => []NumbersReadBack
<1>1. StoreInv => NumbersReadBack
  BY PortableHolds, MachineHolds DEF NumbersReadBack
<1> QED BY <1>1, StoreInvariance, PTL

-----------------------------------------------------------------------------
(* Debug macros.                                                           *)

(* The inductive invariant is the property with the types, that nothing is *)
(* known of functions that have ended, and that the function saved by      *)
(* _db_setjmp_ is the one of the buffer set last, while that function runs *)
(* and the debugger has not been misled in it.                             *)
DbugTypeOK ==
    /\ dbug_off \in BOOLEAN /\ depth \in 0 .. MaxDepth
    /\ frame \in [1 .. MaxDepth -> 0 .. MaxDepth]
    /\ func \in 0 .. MaxDepth /\ jmp \in 0 .. MaxDepth
    /\ buffer \in [Buffers -> 0 .. MaxDepth] /\ last \in Buffers
    /\ misled \subseteq 0 .. depth
BuffersAreLive == \A b \in Buffers : buffer[b] <= depth
JumpSaved == ~dbug_off /\ buffer[last] > 0 /\ buffer[last] \notin misled =>
    jmp = buffer[last]
DbugInv == DbugTypeOK /\ BuffersAreLive /\ JumpSaved /\ FunctionsKnown

(* A function is entered: its frame notes the caller.                      *)
LEMMA EnterKnown == DbugInv /\ EnterFunction => DbugInv'
<1> SUFFICES ASSUME DbugInv, EnterFunction PROVE DbugInv'
  OBVIOUS
<1> USE DepthAssumption
<1>1. /\ depth < MaxDepth /\ depth' = depth + 1
      /\ UNCHANGED <<dbug_off, jmp, buffer, last, misled>>
  BY DEF EnterFunction, Jumps
<1>2. DbugTypeOK'
  <2>1. frame' \in [1 .. MaxDepth -> 0 .. MaxDepth] /\ func' \in 0 .. MaxDepth
    <3>1. CASE dbug_off
      BY <3>1 DEF EnterFunction, DbugInv, DbugTypeOK
    <3>2. CASE ~dbug_off
      <4>1. frame' = [frame EXCEPT ![depth + 1] = func] /\ func' = depth + 1
        BY <3>2 DEF EnterFunction, _db_enter_
      <4>2. depth + 1 \in 1 .. MaxDepth /\ depth + 1 \in 0 .. MaxDepth
        BY <1>1 DEF DbugInv, DbugTypeOK
      <4> QED BY <4>1, <4>2 DEF DbugInv, DbugTypeOK
    <3> QED BY <3>1, <3>2
  <2>2. depth' \in 0 .. MaxDepth /\ misled' \subseteq 0 .. depth'
    BY <1>1 DEF DbugInv, DbugTypeOK
  <2> QED BY <1>1, <2>1, <2>2 DEF DbugInv, DbugTypeOK
<1>3. BuffersAreLive' /\ JumpSaved'
  BY <1>1 DEF DbugInv, DbugTypeOK, BuffersAreLive, JumpSaved
<1>4. FunctionsKnown'
  <2> SUFFICES ASSUME ~dbug_off PROVE FunctionsKnown'
    BY <1>1 DEF FunctionsKnown
  <2>1. frame' = [frame EXCEPT ![depth + 1] = func] /\ func' = depth'
    BY <1>1 DEF EnterFunction, _db_enter_
  <2>2. \A d \in 1 .. depth' : d - 1 \notin misled' => frame'[d] = d - 1
    BY <1>1, <2>1 DEF DbugInv, DbugTypeOK, FunctionsKnown
  <2> QED BY <2>1, <2>2 DEF FunctionsKnown
<1> QED BY <1>2, <1>3, <1>4 DEF DbugInv

(* Functions end, by a return or by a jump to one that still runs: what    *)
(* was known of those that go on is known of them afterwards.              *)
LEMMA EndKnown ==
    ASSUME DbugInv, NEW d \in 0 .. depth, EndTo(d), UNCHANGED <<dbug_off, frame>>,
           func' \in 0 .. MaxDepth, misled' \subseteq 0 .. d,
           misled \cap 0 .. d - 1 \subseteq misled', d \in misled => d \in misled',
           ~dbug_off /\ d \notin misled' => func' = d
    PROVE  DbugInv'
<1> USE DepthAssumption
<1>1. /\ depth' = d /\ UNCHANGED <<jmp, last>>
      /\ buffer' = [b \in Buffers |-> IF buffer[b] > d THEN 0 ELSE buffer[b]]
  BY DEF EndTo
<1>2. DbugTypeOK' /\ BuffersAreLive'
  BY <1>1 DEF DbugInv, DbugTypeOK, BuffersAreLive
<1>3. JumpSaved'
  <2> SUFFICES ASSUME ~dbug_off, buffer'[last] > 0, buffer'[last] \notin misled'
               PROVE  jmp = buffer'[last]
    BY <1>1 DEF JumpSaved
  <2>1. last \in Buffers /\ buffer[last] \in 0 .. d /\ buffer'[last] = buffer[last]
    BY <1>1 DEF DbugInv, DbugTypeOK
  <2>2. buffer[last] \notin misled
    BY <2>1
  <2> QED BY <2>1, <2>2 DEF DbugInv, JumpSaved
<1>4. FunctionsKnown'
  <2> SUFFICES ASSUME ~dbug_off PROVE FunctionsKnown'
    BY DEF FunctionsKnown
  <2>1. ASSUME NEW e \in 1 .. d, e - 1 \notin misled' PROVE frame[e] = e - 1
    <3>1. e - 1 \in 0 .. d - 1 /\ e \in 1 .. depth
      BY DEF DbugInv, DbugTypeOK
    <3>2. e - 1 \notin misled
      BY <2>1, <3>1
    <3> QED BY <3>1, <3>2 DEF DbugInv, FunctionsKnown
  <2> QED BY <1>1, <2>1 DEF FunctionsKnown
<1> QED BY <1>2, <1>3, <1>4 DEF DbugInv

(* However deep calls are nested and whatever is jumped over, the debugger *)
(* of my_dbug.h knows which function runs, and every frame its caller, but *)
(* in functions left by DBUG_CRASH_RETURN or entered by a jump to another  *)
(* buffer than the last; it recovers when they return.                     *)
THEOREM FunctionsAlwaysKnown == DbugSpec => []FunctionsKnown
<1> USE DepthAssumption
<1>1. DbugInit => DbugInv
  <2> SUFFICES ASSUME DbugInit PROVE DbugInv
    OBVIOUS
  <2>1. dbug_off \in BOOLEAN
    BY DEF DbugInit, BuildIsOff
  <2> QED BY <2>1 DEF DbugInit, DbugInv, DbugTypeOK, BuffersAreLive, JumpSaved,
             FunctionsKnown
<1>2. DbugInv /\ [DbugNext]_debugging => DbugInv'
  <2> SUFFICES ASSUME DbugInv, [DbugNext]_debugging PROVE DbugInv'
    OBVIOUS
  <2>0. DbugTypeOK
    BY DEF DbugInv
  <2>1. CASE UNCHANGED debugging
    BY <2>1 DEF debugging, DbugInv, DbugTypeOK, BuffersAreLive, JumpSaved,
       FunctionsKnown
  <2>2. ASSUME NEW on \in BOOLEAN, DBUG_ENTER \/ DBUG_CRASH_ENTER(on)
        PROVE  DbugInv'
    BY <2>2, EnterKnown DEF DBUG_ENTER, DBUG_CRASH_ENTER
  <2>3. CASE DBUG_RETURN \/ DBUG_VOID_RETURN
    <3>1. /\ depth > 0 /\ EndTo(depth - 1) /\ UNCHANGED <<dbug_off, frame>>
          /\ misled' = misled \ {depth}
          /\ func' = IF dbug_off THEN func ELSE frame[depth]
      BY <2>3 DEF DBUG_RETURN, DBUG_VOID_RETURN, Running, DBUG_LEAVE, _db_return_
    <3>2. func' \in 0 .. MaxDepth /\ depth - 1 \in 0 .. depth
      BY <3>1, <2>0 DEF DbugTypeOK
    <3>3. ~dbug_off /\ depth - 1 \notin misled' => func' = depth - 1
      BY <3>1, <2>0 DEF DbugTypeOK, DbugInv, FunctionsKnown
    <3>4. /\ misled' \subseteq 0 .. depth - 1
          /\ misled \cap 0 .. (depth - 1) - 1 \subseteq misled'
          /\ depth - 1 \in misled => depth - 1 \in misled'
      BY <3>1, <2>0 DEF DbugTypeOK
    <3> QED BY <3>1, <3>2, <3>3, <3>4, EndKnown
  <2>4. ASSUME NEW b \in Buffers, DBUG_SETJMP(b)
        PROVE  DbugInv'
    <3>1. /\ buffer' = [buffer EXCEPT ![b] = depth] /\ last' = b
          /\ ~dbug_off => jmp' = func
          /\ jmp' \in {jmp, func}
          /\ UNCHANGED <<dbug_off, depth, frame, func, misled>>
      BY <2>4 DEF DBUG_SETJMP, _db_setjmp_
    <3>2. DbugTypeOK' /\ BuffersAreLive'
      BY <3>1, <2>0 DEF DbugTypeOK, DbugInv, BuffersAreLive
    <3>3. JumpSaved' /\ FunctionsKnown'
      BY <3>1, <2>0 DEF DbugTypeOK, DbugInv, JumpSaved, FunctionsKnown
    <3> QED BY <3>2, <3>3 DEF DbugInv
  <2>5. ASSUME NEW b \in Buffers, DBUG_LONGJMP(b)
        PROVE  DbugInv'
    <3>1. /\ ~dbug_off /\ buffer[b] > 0 /\ func' = jmp /\ EndTo(buffer[b])
          /\ misled' = (misled \cap 0 .. buffer[b]) \cup
                       (IF buffer[last] = buffer[b] THEN {} ELSE {buffer[b]})
          /\ UNCHANGED <<dbug_off, frame>>
      BY <2>5 DEF DBUG_LONGJMP, _db_longjmp_
    <3>2. buffer[b] \in 0 .. depth /\ func' \in 0 .. MaxDepth
      BY <3>1, <2>0 DEF DbugTypeOK, DbugInv, BuffersAreLive
    <3>3. buffer[b] \notin misled' => func' = buffer[b]
      <4> SUFFICES ASSUME buffer[b] \notin misled' PROVE func' = buffer[b]
        OBVIOUS
      <4>1. buffer[last] = buffer[b]
        BY <3>1
      <4>2. buffer[last] \notin misled
        BY <3>1, <3>2, <4>1
      <4> QED BY <3>1, <4>1, <4>2 DEF DbugInv, JumpSaved
    <3>4. /\ misled' \subseteq 0 .. buffer[b]
          /\ misled \cap 0 .. buffer[b] - 1 \subseteq misled'
          /\ buffer[b] \in misled => buffer[b] \in misled'
      BY <3>1, <3>2, <2>0 DEF DbugTypeOK
    <3> QED BY <3>1, <3>2, <3>3, <3>4, EndKnown
  <2>6. ASSUME NEW on \in BOOLEAN, DBUG_ASSERT(on)
        PROVE  DbugInv'
    BY <2>6 DEF DBUG_ASSERT, Jumps, DbugInv, DbugTypeOK, BuffersAreLive,
       JumpSaved, FunctionsKnown
  <2>7. CASE DBUG_SUICIDE
    BY <2>6, <2>7 DEF DBUG_SUICIDE
  <2>8. ASSUME NEW on \in BOOLEAN, DBUG_CRASH_RETURN(on)
        PROVE  DbugInv'
    <3>1. /\ depth > 0 /\ EndTo(depth - 1) /\ UNCHANGED <<dbug_off, frame, func>>
          /\ misled' = (misled \ {depth}) \cup IF dbug_off THEN {} ELSE {depth - 1}
      BY <2>8 DEF DBUG_CRASH_RETURN, Running
    <3>2. func' \in 0 .. MaxDepth /\ depth - 1 \in 0 .. depth
      BY <3>1, <2>0 DEF DbugTypeOK
    <3>3. ~dbug_off /\ depth - 1 \notin misled' => func' = depth - 1
      BY <3>1
    <3>4. /\ misled' \subseteq 0 .. depth - 1
          /\ misled \cap 0 .. (depth - 1) - 1 \subseteq misled'
          /\ depth - 1 \in misled => depth - 1 \in misled'
      BY <3>1, <2>0 DEF DbugTypeOK
    <3> QED BY <3>1, <3>2, <3>3, <3>4, EndKnown
  <2> QED BY <2>1, <2>2, <2>3, <2>4, <2>5, <2>6, <2>7, <2>8 DEF DbugNext
<1>3. DbugInv => FunctionsKnown
  BY DEF DbugInv
<1> QED BY <1>1, <1>2, <1>3, PTL DEF DbugSpec
-----------------------------------------------------------------------------
(* Character macros.                                                       *)

(* The characters of a set of one byte.                                    *)
Bytes == 0 .. 255

(* A char converted to uchar is the byte it was, signed or not.            *)
LEMMA CharIsByte ==
    ASSUME NEW b \in Bytes
    PROVE  /\ uchar(char(b)) = b /\ char(b) % 128 = b % 128
           /\ char(b) \in 0 .. 127 <=> b < 128
           /\ char(b) = 95 <=> b = 95
BY DEF Bytes, char, uchar

(* The entry looked up is inside the table and that of the byte.           *)
LEMMA EntryIsClass ==
    ASSUME NEW b \in Bytes PROVE ClassBits(char(b)) = Class(b)
<1>1. 1 + b \in 0 .. 256 /\ 1 + b # 0 /\ (1 + b) - 1 = b
  BY DEF Bytes
<1>2. Entry(1 + b) = Class((1 + b) - 1)
  BY <1>1 DEF Entry, ctype, MY_CS_CTYPE_TABLE_SIZE
<1> QED BY <1>1, <1>2, CharIsByte DEF ClassBits

(* The entries of to_upper and to_lower are bytes.                         *)
LEMMA ConvertedInRange ==
    ASSUME NEW b \in Bytes
    PROVE  to_upper[b] \in Bytes /\ to_lower[b] \in Bytes
<1>1. b \in 0 .. MY_CS_TO_UPPER_TABLE_SIZE - 1
  BY DEF Bytes, MY_CS_TO_UPPER_TABLE_SIZE
<1> QED BY <1>1 DEF to_upper, to_lower, Letters, Accented, Bytes

(* Where the table holds a code with its bytes swapped, MY_PUT_MB2 swaps   *)
(* them back.                                                              *)
LEMMA SwappedTwice ==
    ASSUME NEW code \in Nat, code < 65536
    PROVE  MY_PUT_MB2(MB2(code)) = <<code \div 256, code % 256>>
<1> DEFINE h == code \div 256
           l == code % 256
<1>1. h \in Nat /\ l \in Nat /\ l < 256 /\ code = 256 * h + l
  OBVIOUS
<1> HIDE DEF h, l
<1>2. h < 256
  BY <1>1
<1>3. (h + 256 * l) % 256 = h /\ (h + 256 * l) \div 256 = l
  BY <1>1, <1>2
<1>4. CASE i386
  <2>1. MB2(code) = h + 256 * l
    BY <1>4 DEF MB2, h, l
  <2>2. MY_PUT_MB2(MB2(code)) = <<h, l>>
    BY <1>3, <1>4, <2>1 DEF MY_PUT_MB2
  <2> QED BY <2>2 DEF h, l
<1>5. CASE ~i386
  BY <1>5 DEF MB2, MY_PUT_MB2
<1> QED BY <1>4, <1>5

(* The classifications answer for the byte,                                *)
LEMMA ClassifyTrue ==
    ASSUME NEW b \in Bytes, Classify(b) PROVE CharactersTrue'
<1>1. byte' = b
  BY DEF Classify, Queried
<1>2. /\ ClassBits(char(b)) = Class(b)
      /\ char(b) \in 0 .. 127 <=> b < 128
      /\ char(b) = 95 <=> b = 95
  BY EntryIsClass, CharIsByte
<1> DEFINE C == Class(b)
<1>3. Class(byte)' = C
  BY <1>1 DEF Class, Letters, Accented, _MY_U, _MY_L, _MY_NMR, _MY_SPC,
     _MY_PNT, _MY_CTR, _MY_B, _MY_X
<1>4. C = ClassBits(char(b))
  BY <1>2
<1> HIDE DEF C
<1>5. \/ query' = "isascii" /\ answer' = (b < 128)
      \/ query' = "isvar" /\ answer' = (C \cap (_MY_U \cup _MY_L \cup _MY_NMR) # {} \/ b = 95)
      \/ query' = "isvar_start" /\ answer' = (C \cap (_MY_U \cup _MY_L) # {} \/ b = 95)
      \/ query' \in DOMAIN Meaning /\ answer' = (C \cap Meaning[query'] # {})
  <2>1. CASE Queried(b, "isascii", my_isascii(char(b)))
    BY <1>2, <2>1 DEF Queried, my_isascii
  <2>2. CASE Queried(b, "isvar", my_isvar(char(b)))
    BY <1>2, <1>4, <2>2 DEF Queried, my_isvar, my_isalnum, HasAny
  <2>3. CASE Queried(b, "isvar_start", my_isvar_start(char(b)))
    BY <1>2, <1>4, <2>3 DEF Queried, my_isvar_start, my_isalpha, HasAny
  <2>4. CASE \/ Queried(b, "isalpha", my_isalpha(char(b)))
             \/ Queried(b, "isupper", my_isupper(char(b)))
             \/ Queried(b, "islower", my_islower(char(b)))
             \/ Queried(b, "isdigit", my_isdigit(char(b)))
             \/ Queried(b, "isxdigit", my_isxdigit(char(b)))
             \/ Queried(b, "isalnum", my_isalnum(char(b)))
             \/ Queried(b, "isspace", my_isspace(char(b)))
             \/ Queried(b, "ispunct", my_ispunct(char(b)))
             \/ Queried(b, "isprint", my_isprint(char(b)))
             \/ Queried(b, "isgraph", my_isgraph(char(b)))
             \/ Queried(b, "iscntrl", my_iscntrl(char(b)))
    BY <1>4, <2>4 DEF Queried, Meaning, HasAny, my_isalpha, my_isupper, my_islower,
       my_isdigit, my_isxdigit, my_isalnum, my_isspace, my_ispunct, my_isprint,
       my_isgraph, my_iscntrl
  <2> QED BY <2>1, <2>2, <2>3, <2>4 DEF Classify
<1> QED BY <1>1, <1>3, <1>5 DEF CharactersTrue, CharactersAsBytes, HighByteFirst, Meaning

(* the conversions convert it,                                             *)
LEMMA ConvertTrue ==
    ASSUME NEW b \in Bytes, Convert(b) PROVE CharactersTrue'
<1>1. byte' = b /\ signed' = signed
  BY DEF Convert, Queried
<1>2. UNCHANGED <<to_upper, to_lower>>
  BY DEF to_upper, to_lower, Letters, Accented, MY_CS_TO_UPPER_TABLE_SIZE
<1>3. \A c \in Bytes : uchar(char(c)) = c
  BY CharIsByte
<1>4. \/ query' = "toupper" /\ answer' % 256 = to_upper[b]
      \/ query' = "tolower" /\ answer' % 256 = to_lower[b]
      \/ query' = "toascii" /\ answer' = b % 128
  <2>1. CASE Queried(b, "toupper", my_toupper(char(b)))
    BY <1>3, <2>1, ConvertedInRange DEF Queried, my_toupper, uchar
  <2>2. CASE Queried(b, "tolower", my_tolower(char(b)))
    BY <1>3, <2>2, ConvertedInRange DEF Queried, my_tolower, uchar
  <2>3. CASE Queried(b, "toascii", my_toascii(char(b)))
    BY <2>3, CharIsByte DEF Queried, my_toascii
  <2> QED BY <2>1, <2>2, <2>3 DEF Convert
<1> QED BY <1>1, <1>2, <1>4 DEF CharactersTrue, CharactersAsBytes, HighByteFirst, Meaning, uchar

(* and a code gets into the string with its high byte first.               *)
LEMMA PutTrue ==
    ASSUME NEW code \in Codes, Put(code) PROVE CharactersTrue'
<1>1. byte' = code /\ query' = "put" /\ answer' = <<code \div 256, code % 256>>
  <2>1. code \in Nat /\ code < 65536
    BY CodeAssumption
  <2>2. MY_PUT_MB2(MB2(code)) = <<code \div 256, code % 256>>
    BY <2>1, SwappedTwice
  <2> QED BY <2>2, Zenon DEF Put, Queried
<1> QED BY <1>1 DEF CharactersTrue, CharactersAsBytes, HighByteFirst, Meaning

(* The my_is...() and my_to...() macros treat a character as the byte it   *)
(* is whether char is signed or not, and MY_PUT_MB2 puts every two-byte    *)
(* code with its high byte first on both machines.                         *)
THEOREM CharactersTrueHolds == CtypeSpec => []CharactersTrue
<1>1. CtypeInit => CharactersTrue
  BY DEF CtypeInit, CharactersTrue, CharactersAsBytes, HighByteFirst, Meaning
<1>2. CharactersTrue /\ [CtypeNext]_characters => CharactersTrue'
  <2> SUFFICES ASSUME CharactersTrue, [CtypeNext]_characters PROVE CharactersTrue'
    OBVIOUS
  <2>1. CASE UNCHANGED characters
    <3>1. UNCHANGED <<byte, query, answer>>
      BY <2>1 DEF characters
    <3>2. UNCHANGED <<Class(byte), to_upper, to_lower>>
      BY <3>1 DEF Class, Letters, Accented, _MY_U, _MY_L, _MY_NMR, _MY_SPC,
         _MY_PNT, _MY_CTR, _MY_B, _MY_X, to_upper, to_lower, MY_CS_TO_UPPER_TABLE_SIZE
    <3> QED BY <3>1, <3>2 DEF CharactersTrue, CharactersAsBytes, HighByteFirst,
         Meaning, uchar, _MY_U, _MY_L, _MY_NMR
  <2>2. CASE CtypeNext
    BY <2>2, ClassifyTrue, ConvertTrue, PutTrue DEF CtypeNext, Bytes
  <2> QED BY <2>1, <2>2
<1> QED BY <1>1, <1>2, PTL DEF CtypeSpec

-----------------------------------------------------------------------------
(* Plugins: what a library declares, and how the server finds it.          *)

(* A library that is built: how, and what its declaration gives the image. *)
LibraryBuilt(l) ==
    /\ libraries[l].dynamic \in BOOLEAN
    /\ libraries[l].size \in {12, 13}
    /\ libraries[l].plugins \in Seq({0, 7})
Declares(l) ==
    LET names == Names(l, libraries[l].dynamic)
        export == MYSQL_PLUGIN_EXPORT(libraries[l].dynamic)
    IN /\ {names.version, names.size, names.plugins} \subseteq DOMAIN symbols
       /\ symbols[names.version].export = export
       /\ symbols[names.size] = [content |-> libraries[l].size, export |-> export]
       /\ symbols[names.plugins] =
            [content |-> Array(libraries[l].plugins, libraries[l].size),
             export |-> export]
Walked(l) ==
    /\ walked[l] \in Seq([DOMAIN st_mysql_plugin -> Nat])
    /\ Len(walked[l]) <= Len(libraries[l].plugins)
    /\ \A i \in 1 .. Len(walked[l]) :
          walked[l][i] = [f \in 1 .. 13 |->
              IF f <= libraries[l].size
              THEN Initialised(libraries[l].plugins[i], libraries[l].size)[f]
              ELSE 0]
Served(l) == libraries[l].dynamic =>
    \A s \in DOMAIN Tables : services[<<l, s>>]

PluginsShape ==
    /\ compiler \in [msvc : BOOLEAN, cplusplus : BOOLEAN]
    /\ DOMAIN libraries = Libraries
    /\ libraries = [l \in Libraries |-> libraries[l]]
    /\ stage \in [Libraries -> {"source", "built", "opened", "loaded"}]
    /\ DOMAIN services = Libraries \X DOMAIN Tables
    /\ walked = [l \in Libraries |-> walked[l]]
PluginsInv ==
    /\ PluginsShape
    /\ \A l \in Libraries :
         /\ stage[l] # "source" => LibraryBuilt(l) /\ Declares(l)
         /\ stage[l] \in {"source", "built"} => walked[l] = << >>
         /\ stage[l] \in {"opened", "loaded"} => Walked(l) /\ Served(l)
         /\ stage[l] = "loaded" => Len(walked[l]) = Len(libraries[l].plugins)
    /\ ServicesReached

LEMMA FieldCount == DOMAIN st_mysql_plugin = 1 .. 13 /\ Len(st_mysql_plugin) = 13
BY DEF st_mysql_plugin

(* The array of a library: structure by structure, and one of zeros.       *)
LEMMA ArrayFields ==
    ASSUME NEW size \in {12, 13}, NEW plugins \in Seq({0, 7})
    PROVE  /\ Len(Array(plugins, size)) = (Len(plugins) + 1) * size
           /\ \A k \in 0 .. Len(plugins) - 1, f \in 1 .. size :
                 Array(plugins, size)[k * size + f] =
                    Initialised(plugins[k + 1], size)[f]
           /\ \A f \in 1 .. size :
                 Array(plugins, size)[Len(plugins) * size + f] = 0
<1> DEFINE n == Len(plugins)
           F(j) == Initialised(plugins[(j - 1) \div size + 1], size)[((j - 1) % size) + 1]
           front == [j \in 1 .. n * size |-> F(j)]
           back == mysql_declare_plugin_end(size)
<1>0. n \in Nat /\ n * size \in Nat
  BY SMT
<1>1. /\ \A k \in 0 .. n - 1, f \in 1 .. size :
            /\ k * size + f \in 1 .. n * size
            /\ ((k * size + f) - 1) \div size = k
            /\ (((k * size + f) - 1) % size) = f - 1
  <2>1. CASE size = 12
    BY <2>1, <1>0
  <2>2. CASE size = 13
    BY <2>2, <1>0
  <2> QED BY <2>1, <2>2
<1>2. \A k \in 0 .. n - 1, f \in 1 .. size : front[k * size + f] =
          Initialised(plugins[k + 1], size)[f]
  <2>1. TAKE k \in 0 .. n - 1, f \in 1 .. size
  <2> DEFINE j == k * size + f
  <2> HIDE DEF n, F, front, back
  <2>2. j \in 1 .. n * size /\ (j - 1) \div size = k /\ ((j - 1) % size) = f - 1
    BY <1>1 DEF j
  <2> HIDE DEF j
  <2>3. front[j] = F(j)
    BY <2>2 DEF front
  <2>4. F(j) = Initialised(plugins[k + 1], size)[f - 1 + 1]
    BY <2>2 DEF F
  <2>5. f - 1 + 1 = f
    OBVIOUS
  <2> QED BY <2>3, <2>4, <2>5 DEF j
<1>3. back = [i \in 1 .. size |-> 0] /\ back \in Seq(Nat) /\ Len(back) = size
  BY DEF mysql_declare_plugin_end
<1> DEFINE V == {F(j) : j \in 1 .. n * size} \cup Nat
<1>4. front \in Seq(V) /\ back \in Seq(V) /\ Len(front) = n * size
  <2> HIDE DEF F, n
  <2>1. \A j \in 1 .. n * size : F(j) \in V
    OBVIOUS
  <2>2. Nat \subseteq V
    OBVIOUS
  <2> HIDE DEF V
  <2> QED BY <2>1, <2>2, <1>0, <1>3 DEF mysql_declare_plugin_end
<1>5. Array(plugins, size) = front \o back
  BY DEF Array
<1> HIDE DEF front, back, V, F, n
<1>6. /\ Len(front \o back) = n * size + size
      /\ \A j \in 1 .. n * size : (front \o back)[j] = front[j]
      /\ \A f \in 1 .. size : (front \o back)[n * size + f] = back[f]
  <2> DEFINE m == n * size
  <2>1. m \in Nat /\ Len(front) = m /\ Len(back) = size /\ size \in Nat
    BY <1>0, <1>3, <1>4
  <2> HIDE DEF m
  <2>2. /\ Len(front \o back) = m + size
        /\ \A j \in 1 .. m : (front \o back)[j] = front[j]
        /\ \A f \in 1 .. size : (front \o back)[m + f] = back[f]
    BY <2>1, <1>4
  <2> QED BY <2>2 DEF m
<1>7. n * size + size = (n + 1) * size
  BY <1>0
<1>8. \A f \in 1 .. size : back[f] = 0
  BY <1>3
<1>9. /\ Len(Array(plugins, size)) = (n + 1) * size
      /\ \A k \in 0 .. n - 1, f \in 1 .. size :
             Array(plugins, size)[k * size + f] =
                    Initialised(plugins[k + 1], size)[f]
      /\ \A f \in 1 .. size : Array(plugins, size)[n * size + f] = 0
  BY <1>1, <1>2, <1>5, <1>6, <1>7, <1>8
<1> QED BY <1>9 DEF n

(* The names of a library are three, and nobody else's.                    *)
LEMMA NamesApart ==
    ASSUME NEW l, NEW m, NEW d \in BOOLEAN, NEW e \in BOOLEAN
    PROVE  /\ Names(l, d).version # Names(l, d).size
           /\ Names(l, d).version # Names(l, d).plugins
           /\ Names(l, d).size # Names(l, d).plugins
           /\ l # m => {Names(l, d).version, Names(l, d).size, Names(l, d).plugins}
                  \cap {Names(m, e).version, Names(m, e).size, Names(m, e).plugins}
                  = {}
<1>1. CASE d /\ e
  BY <1>1 DEF Names, DynamicNames
<1>2. CASE d /\ ~e
  BY <1>2 DEF Names, DynamicNames, mysql_declare_plugin
<1>3. CASE ~d /\ e
  BY <1>3 DEF Names, DynamicNames, mysql_declare_plugin
<1>4. CASE ~d /\ ~e
  BY <1>4 DEF Names, mysql_declare_plugin
<1> QED BY <1>1, <1>2, <1>3, <1>4

(* What a declaration adds to the symbols, and that it leaves the others.  *)
LEMMA DeclaredSymbols ==
    ASSUME NEW names, NEW export, NEW size, NEW plugins,
           names.version # names.size, names.version # names.plugins,
           names.size # names.plugins,
           symbols' = Linked(__MYSQL_DECLARE_PLUGIN(names, export, size, plugins))
    PROVE  LET three == {names.version, names.size, names.plugins}
           IN /\ DOMAIN symbols' = three \cup DOMAIN symbols
              /\ symbols'[names.version].export = export
              /\ symbols'[names.size] = [content |-> size, export |-> export]
              /\ symbols'[names.plugins] =
                    [content |-> Array(plugins, size), export |-> export]
              /\ \A s \in DOMAIN symbols \ three : symbols'[s] = symbols[s]
<1> DEFINE D == __MYSQL_DECLARE_PLUGIN(names, export, size, plugins)
           three == {names.version, names.size, names.plugins}
<1>1. /\ DOMAIN D = three
      /\ D[names.version].export = export
      /\ D[names.size] = [content |-> size, export |-> export]
      /\ D[names.plugins] = [content |-> Array(plugins, size), export |-> export]
  BY DEF __MYSQL_DECLARE_PLUGIN
<1> HIDE DEF D
<1>2. symbols' = [s \in DOMAIN D \cup DOMAIN symbols |->
                IF s \in DOMAIN D THEN D[s] ELSE symbols[s]]
  BY DEF D, Linked
<1> QED BY <1>1, <1>2

LEMMA PluginsInitial == PluginsInit => PluginsInv
<1> SUFFICES ASSUME PluginsInit PROVE PluginsInv
  OBVIOUS
<1>1. PluginsShape
  BY DEF PluginsInit, PluginsShape
<1>2. ServicesReached
  BY DEF PluginsInit, ServicesReached, NoCall
<1> QED BY <1>1, <1>2 DEF PluginsInit, PluginsInv

(* A library whose own state, and whose own symbols, a step leaves.        *)
LEMMA OtherLibrary ==
    ASSUME NEW l \in Libraries,
           libraries'[l] = libraries[l], compiler' = compiler,
           LET names == Names(l, libraries[l].dynamic)
               three == {names.version, names.size, names.plugins}
           IN \A s \in three \cap DOMAIN symbols :
                 s \in DOMAIN symbols' /\ symbols'[s] = symbols[s]
    PROVE  /\ LibraryBuilt(l) => LibraryBuilt(l)'
           /\ Declares(l) => Declares(l)'
<1>1. LibraryBuilt(l) => LibraryBuilt(l)'
  BY DEF LibraryBuilt
<1>2. ASSUME Declares(l) PROVE Declares(l)'
  BY <1>2 DEF Declares, MYSQL_PLUGIN_EXPORT
<1> QED BY <1>1, <1>2

LEMMA BuildKeeps ==
    ASSUME PluginsInv, NEW l \in Libraries, Build(l)
    PROVE  PluginsInv'
<1>1. PICK dynamic \in BOOLEAN, n \in 1 .. MaxPlugins,
          size \in {Len(st_mysql_plugin) - 1, Len(st_mysql_plugin)} :
       \E plugins \in [1 .. n -> {0, MYSQL_MAX_PLUGIN_TYPE_NUM - 1}] :
          /\ libraries' = [libraries EXCEPT ![l] =
                [dynamic |-> dynamic, size |-> size, plugins |-> plugins]]
          /\ symbols' = Linked(__MYSQL_DECLARE_PLUGIN(Names(l, dynamic),
                MYSQL_PLUGIN_EXPORT(dynamic), size, plugins))
  BY DEF Build
<1>2. PICK plugins \in [1 .. n -> {0, MYSQL_MAX_PLUGIN_TYPE_NUM - 1}] :
          /\ libraries' = [libraries EXCEPT ![l] =
                [dynamic |-> dynamic, size |-> size, plugins |-> plugins]]
          /\ symbols' = Linked(__MYSQL_DECLARE_PLUGIN(Names(l, dynamic),
                MYSQL_PLUGIN_EXPORT(dynamic), size, plugins))
  BY <1>1
<1>3. size \in {12, 13} /\ plugins \in Seq({0, 7})
  BY FieldCount, PluginsAssumption DEF MYSQL_MAX_PLUGIN_TYPE_NUM
<1>4. /\ stage[l] = "source"
      /\ stage' = [stage EXCEPT ![l] = "built"]
      /\ UNCHANGED <<compiler, services, walked, called>>
  BY DEF Build
<1>5. DOMAIN libraries = Libraries /\ stage \in [Libraries -> {"source", "built", "opened", "loaded"}]
  BY DEF PluginsInv, PluginsShape
<1>6. /\ libraries'[l] = [dynamic |-> dynamic, size |-> size, plugins |-> plugins]
      /\ \A m \in Libraries \ {l} : libraries'[m] = libraries[m]
      /\ stage'[l] = "built"
      /\ \A m \in Libraries \ {l} : stage'[m] = stage[m]
  BY <1>2, <1>4, <1>5
<1>7. PluginsShape'
  BY <1>2, <1>4 DEF PluginsInv, PluginsShape
<1>8. ServicesReached'
  BY <1>4 DEF PluginsInv, ServicesReached
<1> DEFINE names == Names(l, dynamic)
           three == {names.version, names.size, names.plugins}
           export == MYSQL_PLUGIN_EXPORT(dynamic)
<1>9. /\ DOMAIN symbols' = three \cup DOMAIN symbols
      /\ symbols'[names.version].export = export
      /\ symbols'[names.size] = [content |-> size, export |-> export]
      /\ symbols'[names.plugins] =
            [content |-> Array(plugins, size), export |-> export]
      /\ \A s \in DOMAIN symbols \ three : symbols'[s] = symbols[s]
  <2>1. /\ names.version # names.size
        /\ names.version # names.plugins
        /\ names.size # names.plugins
    BY NamesApart
  <2> HIDE DEF names, export
  <2>2. symbols' = Linked(__MYSQL_DECLARE_PLUGIN(names, export, size, plugins))
    BY <1>2 DEF names, export
  <2> QED BY <2>1, <2>2, DeclaredSymbols
<1>10. LibraryBuilt(l)' /\ Declares(l)'
  <2>1. LibraryBuilt(l)'
    BY <1>3, <1>6 DEF LibraryBuilt
  <2>2. /\ libraries'[l].dynamic = dynamic /\ libraries'[l].size = size
        /\ libraries'[l].plugins = plugins
    BY <1>6
  <2>3. MYSQL_PLUGIN_EXPORT(dynamic)' = export
    BY <1>4 DEF MYSQL_PLUGIN_EXPORT
  <2> QED BY <1>9, <2>1, <2>2, <2>3 DEF Declares, MYSQL_PLUGIN_EXPORT
<1>11. ASSUME NEW m \in Libraries, m # l
       PROVE  /\ stage'[m] # "source" => LibraryBuilt(m)' /\ Declares(m)'
              /\ stage'[m] \in {"source", "built"} => walked'[m] = << >>
              /\ stage'[m] \in {"opened", "loaded"} => Walked(m)' /\ Served(m)'
              /\ stage'[m] = "loaded" => Len(walked'[m]) = Len(libraries'[m].plugins)
  <2>1. libraries'[m] = libraries[m] /\ stage'[m] = stage[m] /\ walked' = walked
        /\ services' = services /\ compiler' = compiler
    BY <1>4, <1>6, <1>11
  <2>2. ASSUME LibraryBuilt(m), Declares(m)
        PROVE  LibraryBuilt(m)' /\ Declares(m)'
    <3> DEFINE other == Names(m, libraries[m].dynamic)
    <3>1. three \cap {other.version, other.size, other.plugins} = {}
      BY <1>11, <2>2, NamesApart DEF LibraryBuilt
    <3>2. \A s \in {other.version, other.size, other.plugins} \cap DOMAIN symbols :
             s \in DOMAIN symbols' /\ symbols'[s] = symbols[s]
      <4> HIDE DEF other, three
      <4> QED BY <1>9, <3>1
    <3> QED BY <2>1, <2>2, <3>2, OtherLibrary
  <2>3. Walked(m) => Walked(m)'
    BY <2>1 DEF Walked
  <2>4. Served(m) => Served(m)'
    BY <2>1 DEF Served
  <2> QED BY <2>1, <2>2, <2>3, <2>4 DEF PluginsInv
<1>12. walked'[l] = << >>
  BY <1>4 DEF PluginsInv
<1> QED
  BY <1>6, <1>7, <1>8, <1>10, <1>11, <1>12 DEF PluginsInv

LEMMA OpenKeeps ==
    ASSUME PluginsInv, NEW l \in Libraries, Open(l)
    PROVE  PluginsInv'
<1> DEFINE dynamic == libraries[l].dynamic
           names == Names(l, dynamic)
           ok == \A f \in DOMAIN names : Visible(names[f], dynamic)
<1>1. /\ stage[l] = "built"
      /\ stage' = [stage EXCEPT ![l] = IF ok THEN "opened" ELSE "refused"]
      /\ services' = [p \in DOMAIN services |->
                         services[p] \/ (ok /\ dynamic /\ p[1] = l)]
      /\ UNCHANGED <<compiler, libraries, symbols, walked, called>>
  BY DEF Open
<1>2. LibraryBuilt(l) /\ Declares(l) /\ walked[l] = << >>
  BY <1>1 DEF PluginsInv
<1>3. ok
  <2> DEFINE export == MYSQL_PLUGIN_EXPORT(dynamic)
  <2>1. dynamic \in BOOLEAN
    BY <1>2 DEF LibraryBuilt
  <2>2. DOMAIN names = {"version", "size", "plugins"}
    BY DEF Names, DynamicNames, mysql_declare_plugin
  <2>3. /\ {names.version, names.size, names.plugins} \subseteq DOMAIN symbols
        /\ symbols[names.version].export = export
        /\ symbols[names.size].export = export
        /\ symbols[names.plugins].export = export
    BY <1>2 DEF Declares
  <2>4. /\ compiler.msvc /\ compiler.cplusplus => "extern C" \in export
        /\ compiler.msvc /\ dynamic => "__declspec(dllexport)" \in export
    BY DEF MYSQL_PLUGIN_EXPORT
  <2> HIDE DEF export, names
  <2>5. /\ Visible(names.version, dynamic)
        /\ Visible(names.size, dynamic)
        /\ Visible(names.plugins, dynamic)
    BY <2>3, <2>4 DEF Visible
  <2> QED BY <2>2, <2>5 DEF names
<1> HIDE DEF ok
<1>4. /\ stage' = [stage EXCEPT ![l] = "opened"]
      /\ services' = [p \in DOMAIN services |->
                         services[p] \/ (dynamic /\ p[1] = l)]
  BY <1>1, <1>3
<1>5. PluginsShape'
  BY <1>1, <1>4 DEF PluginsInv, PluginsShape
<1>6. ServicesReached'
  BY <1>1 DEF PluginsInv, ServicesReached
<1>7. stage \in [Libraries -> {"source", "built", "opened", "loaded"}]
      /\ DOMAIN services = Libraries \X DOMAIN Tables
  BY DEF PluginsInv, PluginsShape
<1>8. ASSUME NEW m \in Libraries
      PROVE  /\ LibraryBuilt(m) /\ Declares(m) => LibraryBuilt(m)' /\ Declares(m)'
             /\ Walked(m) => Walked(m)'
             /\ Served(m) => Served(m)'
  <2>1. LibraryBuilt(m) /\ Declares(m) => LibraryBuilt(m)' /\ Declares(m)'
    BY <1>1, OtherLibrary
  <2>2. Walked(m) => Walked(m)'
    BY <1>1 DEF Walked
  <2>3. Served(m) => Served(m)'
    BY <1>1, <1>4, <1>7 DEF Served
  <2> QED BY <2>1, <2>2, <2>3
<1>9. Walked(l)' /\ Served(l)'
  <2>1. Walked(l)
    BY <1>2 DEF Walked, LibraryBuilt
  <2>2. Served(l)'
    <3> SUFFICES ASSUME dynamic, NEW s \in DOMAIN Tables
                 PROVE  services'[<<l, s>>]
      BY <1>1 DEF Served
    <3>1. <<l, s>> \in DOMAIN services /\ <<l, s>>[1] = l
      BY <1>7
    <3>2. services'[<<l, s>>] =
              (services[<<l, s>>] \/ (dynamic /\ <<l, s>>[1] = l))
      BY <1>4, <3>1
    <3> QED BY <3>1, <3>2
  <2> QED BY <1>8, <2>1, <2>2
<1>10. ASSUME NEW m \in Libraries
       PROVE  /\ stage'[m] # "source" => LibraryBuilt(m)' /\ Declares(m)'
              /\ stage'[m] \in {"source", "built"} => walked'[m] = << >>
              /\ stage'[m] \in {"opened", "loaded"} => Walked(m)' /\ Served(m)'
              /\ stage'[m] = "loaded" => Len(walked'[m]) = Len(libraries'[m].plugins)
  <2>1. CASE m = l
    BY <1>2, <1>4, <1>7, <1>8, <1>9, <2>1
  <2>2. CASE m # l
    BY <1>1, <1>4, <1>7, <1>8, <2>2 DEF PluginsInv
  <2> QED BY <2>1, <2>2
<1> QED BY <1>5, <1>6, <1>10 DEF PluginsInv

LEMMA WalkOnKeeps ==
    ASSUME PluginsInv, NEW l \in Libraries, WalkOn(l)
    PROVE  PluginsInv'
<1> DEFINE names == Names(l, libraries[l].dynamic)
           size == symbols[names.size].content
           array == symbols[names.plugins].content
           start == Len(walked[l]) * size
           n == Len(libraries[l].plugins)
           k == Len(walked[l])
           next == [i \in DOMAIN st_mysql_plugin |->
                        IF i <= size THEN array[start + i] ELSE 0]
<1>1. /\ stage[l] = "opened"
      /\ IF start + size > Len(array)
         THEN stage' = [stage EXCEPT ![l] = "overrun"] /\ UNCHANGED walked
         ELSE IF array[start + 2] = 0
         THEN stage' = [stage EXCEPT ![l] = "loaded"] /\ UNCHANGED walked
         ELSE /\ walked' = [walked EXCEPT ![l] = Append(@, next)]
              /\ UNCHANGED stage
      /\ UNCHANGED <<compiler, libraries, symbols, services, called>>
  BY DEF WalkOn
<1>2. LibraryBuilt(l) /\ Declares(l) /\ Walked(l) /\ Served(l)
  BY <1>1 DEF PluginsInv
<1>3. size = libraries[l].size /\ array = Array(libraries[l].plugins, size)
  BY <1>2 DEF Declares
<1>4. size \in {12, 13} /\ libraries[l].plugins \in Seq({0, 7})
  BY <1>2, <1>3 DEF LibraryBuilt
<1>5. /\ Len(array) = (n + 1) * size
      /\ \A j \in 0 .. n - 1, f \in 1 .. size :
            array[j * size + f] = Initialised(libraries[l].plugins[j + 1], size)[f]
      /\ \A f \in 1 .. size : array[n * size + f] = 0
  <2> HIDE DEF array, size, start
  <2> QED BY <1>3, <1>4, ArrayFields
<1>6. k \in 0 .. n /\ n \in Nat /\ walked[l] \in Seq([DOMAIN st_mysql_plugin -> Nat])
  BY <1>2, <1>4 DEF Walked
<1>7. walked = [m \in Libraries |-> walked[m]] /\ PluginsShape
      /\ stage \in [Libraries -> {"source", "built", "opened", "loaded"}]
  BY DEF PluginsInv, PluginsShape
<1> HIDE DEF size, array, names, n
<1>8. ~(start + size > Len(array))
  BY <1>4, <1>5, <1>6
<1>8a. IF array[start + 2] = 0
       THEN stage' = [stage EXCEPT ![l] = "loaded"] /\ UNCHANGED walked
       ELSE /\ walked' = [walked EXCEPT ![l] = Append(@, next)]
            /\ UNCHANGED stage
  <2> HIDE DEF start, next
  <2> QED BY <1>1, <1>8
<1>9. ASSUME NEW m \in Libraries
      PROVE  /\ LibraryBuilt(m) /\ Declares(m) => LibraryBuilt(m)' /\ Declares(m)'
             /\ Served(m) => Served(m)'
  <2>1. LibraryBuilt(m) /\ Declares(m) => LibraryBuilt(m)' /\ Declares(m)'
    BY <1>1, OtherLibrary
  <2>2. Served(m) => Served(m)'
    BY <1>1 DEF Served
  <2> QED BY <2>1, <2>2
<1>10. ServicesReached'
  BY <1>1 DEF PluginsInv, ServicesReached
<1>11. CASE array[start + 2] = 0
  <2>1. stage' = [stage EXCEPT ![l] = "loaded"] /\ walked' = walked
    BY <1>8a, <1>11
  <2>2. k = n
    <3> SUFFICES ASSUME k # n PROVE FALSE
      OBVIOUS
    <3>1. k \in 0 .. n - 1
      BY <1>6
    <3>2. array[k * size + 2] = Initialised(libraries[l].plugins[k + 1], size)[2]
      <4>1. 2 \in 1 .. size
        BY <1>4
      <4> HIDE DEF k
      <4> QED BY <1>5, <3>1, <4>1
    <3>3. Initialised(libraries[l].plugins[k + 1], size)[2] = 2
      BY <1>4 DEF Initialised
    <3> QED BY <1>11, <3>2, <3>3
  <2>3. PluginsShape'
    BY <1>1, <1>7, <2>1 DEF PluginsShape
  <2>4. ASSUME NEW m \in Libraries PROVE Walked(m) => Walked(m)'
    BY <1>1, <2>1 DEF Walked
  <2>5. stage'[l] = "loaded" /\ \A m \in Libraries \ {l} : stage'[m] = stage[m]
    BY <1>7, <2>1
  <2>6. ASSUME NEW m \in Libraries
        PROVE  /\ stage'[m] # "source" => LibraryBuilt(m)' /\ Declares(m)'
               /\ stage'[m] \in {"source", "built"} => walked'[m] = << >>
               /\ stage'[m] \in {"opened", "loaded"} => Walked(m)' /\ Served(m)'
               /\ stage'[m] = "loaded" => Len(walked'[m]) = Len(libraries'[m].plugins)
    <3>1. CASE m = l
      BY <1>1, <1>2, <1>9, <2>1, <2>2, <2>4, <2>5, <3>1 DEF n
    <3>2. CASE m # l
      BY <1>1, <1>9, <2>1, <2>4, <2>5, <3>2 DEF PluginsInv
    <3> QED BY <3>1, <3>2
  <2> QED BY <1>10, <2>3, <2>6 DEF PluginsInv
<1>12. CASE array[start + 2] # 0
  <2>1. walked' = [walked EXCEPT ![l] = Append(walked[l], next)] /\ stage' = stage
    <3> HIDE DEF start, next
    <3> QED BY <1>8a, <1>12
  <2>2. k \in 0 .. n - 1
    <3> SUFFICES ASSUME k = n PROVE FALSE
      BY <1>6
    <3> QED BY <1>4, <1>5, <1>12
  <2> DEFINE taken == [f \in 1 .. 13 |-> IF f <= size
                  THEN Initialised(libraries[l].plugins[k + 1], size)[f] ELSE 0]
  <2>3. next = taken
    <3>1. \A f \in 1 .. size : array[start + f] =
              Initialised(libraries[l].plugins[k + 1], size)[f]
      BY <1>5, <2>2
    <3>2. ASSUME NEW f \in 1 .. 13, f <= size PROVE f \in 1 .. size
      BY <3>2, <1>4
    <3> HIDE DEF start
    <3> QED BY <3>1, <3>2, FieldCount
  <2>4. taken \in [DOMAIN st_mysql_plugin -> Nat]
    <3>1. libraries[l].plugins[k + 1] \in {0, 7}
      BY <1>4, <2>2 DEF n
    <3> QED BY <1>4, <3>1, FieldCount DEF Initialised
  <2> HIDE DEF next
  <2>5. /\ walked'[l] = Append(walked[l], taken)
        /\ \A m \in Libraries \ {l} : walked'[m] = walked[m]
    BY <1>7, <2>1, <2>3
  <2>6. PluginsShape'
    BY <1>1, <1>7, <2>1 DEF PluginsShape
  <2>7. Walked(l)'
    <3> HIDE DEF taken
    <3>1. /\ Append(walked[l], taken) \in Seq([DOMAIN st_mysql_plugin -> Nat])
          /\ Len(Append(walked[l], taken)) = k + 1
          /\ Append(walked[l], taken)[k + 1] = taken
          /\ \A i \in 1 .. k : Append(walked[l], taken)[i] = walked[l][i]
      BY <1>6, <2>4
    <3>2. \A i \in 1 .. k + 1 : i \in 1 .. k \/ i = k + 1
      BY <1>6
    <3>3. \A i \in 1 .. k + 1 : walked'[l][i] = [f \in 1 .. 13 |->
              IF f <= libraries[l].size
              THEN Initialised(libraries[l].plugins[i], libraries[l].size)[f]
              ELSE 0]
      BY <1>2, <1>3, <2>5, <3>1, <3>2 DEF Walked, taken
    <3>4. k + 1 <= n
      BY <2>2, <1>6
    <3> QED BY <1>1, <2>5, <3>1, <3>3, <3>4 DEF Walked, n
  <2>8. ASSUME NEW m \in Libraries
        PROVE  /\ stage'[m] # "source" => LibraryBuilt(m)' /\ Declares(m)'
               /\ stage'[m] \in {"source", "built"} => walked'[m] = << >>
               /\ stage'[m] \in {"opened", "loaded"} => Walked(m)' /\ Served(m)'
               /\ stage'[m] = "loaded" => Len(walked'[m]) = Len(libraries'[m].plugins)
    <3>1. CASE m = l
      BY <1>1, <1>2, <1>9, <2>1, <2>7, <3>1
    <3>2. CASE m # l
      <4>1. walked'[m] = walked[m] /\ libraries' = libraries
        BY <1>1, <2>5, <3>2
      <4>2. Walked(m) => Walked(m)'
        BY <4>1 DEF Walked
      <4> QED BY <1>9, <2>1, <4>1, <4>2 DEF PluginsInv
    <3> QED BY <3>1, <3>2
  <2> QED BY <1>10, <2>6, <2>8 DEF PluginsInv
<1> QED BY <1>11, <1>12

LEMMA CallKeeps ==
    ASSUME PluginsInv, NEW l \in Libraries, NEW service \in DOMAIN Tables, NEW i,
           CallService(l, service, i, i)
    PROVE  PluginsInv'
<1>1. /\ stage[l] = "loaded"
      /\ UNCHANGED <<compiler, libraries, symbols, services, stage, walked>>
  BY DEF CallService
<1>2. libraries[l].dynamic => services[<<l, service>>]
  BY <1>1 DEF PluginsInv, Served
<1>3. ServicesReached'
  BY <1>2 DEF CallService, ServicesReached
<1>4. PluginsShape'
  BY <1>1 DEF PluginsInv, PluginsShape
<1>5. ASSUME NEW m \in Libraries
      PROVE  /\ LibraryBuilt(m) /\ Declares(m) => LibraryBuilt(m)' /\ Declares(m)'
             /\ Walked(m) => Walked(m)'
             /\ Served(m) => Served(m)'
  <2>1. LibraryBuilt(m) /\ Declares(m) => LibraryBuilt(m)' /\ Declares(m)'
    BY <1>1, OtherLibrary
  <2> QED BY <1>1, <2>1 DEF Walked, Served
<1> QED BY <1>1, <1>3, <1>4, <1>5 DEF PluginsInv

LEMMA PluginsKeep == PluginsInv /\ [PluginsNext]_plugging => PluginsInv'
<1> SUFFICES ASSUME PluginsInv, [PluginsNext]_plugging
             PROVE  PluginsInv'
  OBVIOUS
<1>1. CASE UNCHANGED plugging
  <2>1. UNCHANGED <<compiler, libraries, symbols, services, stage, walked, called>>
    BY <1>1 DEF plugging
  <2>2. PluginsShape' /\ ServicesReached'
    BY <2>1 DEF PluginsInv, PluginsShape, ServicesReached
  <2>3. ASSUME NEW m \in Libraries
        PROVE  /\ LibraryBuilt(m) /\ Declares(m) => LibraryBuilt(m)' /\ Declares(m)'
               /\ Walked(m) => Walked(m)'
               /\ Served(m) => Served(m)'
    <3>1. LibraryBuilt(m) /\ Declares(m) => LibraryBuilt(m)' /\ Declares(m)'
      BY <2>1, OtherLibrary
    <3> QED BY <2>1, <3>1 DEF Walked, Served
  <2> QED BY <2>1, <2>2, <2>3 DEF PluginsInv
<1>2. CASE PluginsNext
  <2>1. PICK l \in Libraries :
            \/ Build(l) \/ Open(l) \/ WalkOn(l)
            \/ thd_alloc(l) \/ thd_wait(l)
            \/ my_thread_scheduler(l) \/ my_snprintf(l)
    BY <1>2 DEF PluginsNext
  <2>2. CASE Build(l)
    BY <2>2, BuildKeeps
  <2>3. CASE Open(l)
    BY <2>3, OpenKeeps
  <2>4. CASE WalkOn(l)
    BY <2>4, WalkOnKeeps
  <2>5. /\ "thd_alloc_service" \in DOMAIN Tables
        /\ "thd_wait_service" \in DOMAIN Tables
        /\ "my_thread_scheduler_service" \in DOMAIN Tables
        /\ "my_snprintf_service" \in DOMAIN Tables
    BY DEF Tables
  <2>6. CASE thd_alloc(l)
    BY <2>5, <2>6, CallKeeps DEF thd_alloc
  <2>7. CASE thd_wait(l)
    BY <2>5, <2>7, CallKeeps DEF thd_wait
  <2>8. CASE my_thread_scheduler(l)
    BY <2>5, <2>8, CallKeeps DEF my_thread_scheduler
  <2>9. CASE my_snprintf(l)
    BY <2>5, <2>9, CallKeeps DEF my_snprintf
  <2> QED BY <2>1, <2>2, <2>3, <2>4, <2>6, <2>7, <2>8, <2>9
<1> QED BY <1>1, <1>2

(* A library declared by the macros of plugin.h, for any libraries and any *)
(* number of plugins in each, is opened whatever compiled it, the server   *)
(* finds exactly its plugins, and every service call arrives.              *)
THEOREM PluginsAlwaysWork == PluginsSpec => []PluginsWork
<1>1. PluginsInv => PluginsWork
  <2> SUFFICES ASSUME PluginsInv PROVE PluginsWork
    OBVIOUS
  <2>1. LibrariesOpen /\ \A l \in Libraries : stage[l] # "overrun"
    BY DEF PluginsInv, PluginsShape, LibrariesOpen
  <2>2. ASSUME NEW l \in Libraries, stage[l] = "loaded",
               NEW i \in DOMAIN walked[l]
        PROVE  SubSeq(walked[l][i], 1, libraries[l].size) =
                    Initialised(libraries[l].plugins[i], libraries[l].size)
    <3> DEFINE size == libraries[l].size
               whole == Initialised(libraries[l].plugins[i], size)
               found == walked[l][i]
    <3>1. LibraryBuilt(l) /\ Walked(l)
      BY <2>2 DEF PluginsInv
    <3>2. size \in {12, 13}
      BY <3>1 DEF LibraryBuilt
    <3>3. i \in 1 .. Len(walked[l])
      BY <2>2, <3>1 DEF Walked
    <3>4. found = [f \in 1 .. 13 |-> IF f <= size THEN whole[f] ELSE 0]
      BY <3>1, <3>3 DEF Walked
    <3>5. whole = [f \in 1 .. size |-> whole[f]]
      BY DEF Initialised
    <3> HIDE DEF size, whole, found
    <3>6. SubSeq(found, 1, size) = [f \in 1 .. size |-> found[f]]
      BY <3>2, <3>4
    <3>7. \A f \in 1 .. size : found[f] = whole[f]
      BY <3>2, <3>4
    <3>8. SubSeq(found, 1, size) = whole
      BY <3>5, <3>6, <3>7
    <3> QED BY <3>8 DEF size, whole, found
  <2>3. PluginsFound
    BY <2>1, <2>2 DEF PluginsFound, PluginsInv
  <2> QED BY <2>1, <2>3 DEF PluginsWork, PluginsInv
<1> QED BY <1>1, PluginsInitial, PluginsKeep, PTL DEF PluginsSpec

-----------------------------------------------------------------------------
(* Numbers: powers of two, doubles, and the conversions.                   *)

(* A set of naturals that is not empty has a least one.                    *)
LEMMA Least ==
    ASSUME NEW T, T \subseteq Nat, T # {}
    PROVE  \E x \in T : \A y \in T : x <= y
<1> DEFINE R == OpToRel(<, Nat)
<1>1. IsWellFoundedOn(R, Nat)
  BY NatLessThanWellFounded
<1>2. \A x, y \in Nat : <<y, x>> \in R <=> y < x
  BY DEF OpToRel
<1> HIDE DEF R
<1>3. PICK x \in T : \A y \in T : ~(<<y, x>> \in R)
  BY <1>1, WFMin
<1>4. x \in Nat /\ \A y \in T : y \in Nat /\ ~(y < x)
  BY <1>2, <1>3
<1>5. \A y \in T : x <= y
  BY <1>4
<1> QED BY <1>5

(* A set with 0 and the successor of each of its numbers has them all.     *)
LEMMA Induct ==
    ASSUME NEW T, 0 \in T, \A n \in Nat : n \in T => n + 1 \in T
    PROVE  Nat \subseteq T
<1> SUFFICES ASSUME Nat \ T # {} PROVE FALSE
  OBVIOUS
<1>1. PICK x \in Nat \ T : \A y \in Nat \ T : x <= y
  <2>1. Nat \ T \subseteq Nat
    OBVIOUS
  <2> QED BY <2>1, Least
<1>2. x # 0 /\ x - 1 \in Nat
  BY <1>1
<1> QED BY <1>1, <1>2

(* The powers of two exist: every beginning of them does, they agree, and  *)
(* each number is the last of one.                                         *)
Doublings(g, n) ==
    g \in [0 .. n -> Nat] /\ g[0] = 1 /\ \A i \in 1 .. n : g[i] = 2 * g[i - 1]

LEMMA DoublingsExist ==
    ASSUME NEW n \in Nat
    PROVE  \E g : Doublings(g, n)
<1> DEFINE T == {m \in Nat : \E g : Doublings(g, m)}
<1>1. 0 \in T
  <2>1. Doublings([i \in 0 .. 0 |-> 1], 0)
    BY DEF Doublings
  <2> QED BY <2>1
<1>2. ASSUME NEW m \in Nat, m \in T PROVE m + 1 \in T
  <2>1. PICK g : Doublings(g, m)
    BY <1>2
  <2> DEFINE h == [i \in 0 .. m + 1 |-> IF i <= m THEN g[i] ELSE 2 * g[m]]
  <2>2. g[m] \in Nat /\ \A i \in 0 .. m : g[i] \in Nat
    BY <2>1 DEF Doublings
  <2>3. h \in [0 .. m + 1 -> Nat]
    BY <2>2
  <2>4. h[0] = 1
    BY <2>1 DEF Doublings
  <2>5. ASSUME NEW i \in 1 .. m + 1 PROVE h[i] = 2 * h[i - 1]
    <3>1. CASE i <= m
      <4>1. h[i] = g[i] /\ h[i - 1] = g[i - 1] /\ i \in 1 .. m
        BY <3>1
      <4> QED BY <2>1, <4>1 DEF Doublings
    <3>2. CASE i = m + 1
      <4>1. h[i] = 2 * g[m] /\ h[i - 1] = g[m]
        BY <3>2
      <4> QED BY <4>1
    <3> QED BY <3>1, <3>2
  <2> HIDE DEF h
  <2>6. Doublings(h, m + 1)
    BY <2>3, <2>4, <2>5 DEF Doublings
  <2> QED BY <2>6
<1> HIDE DEF T
<1>3. n \in T
  BY <1>1, <1>2, Induct
<1> QED BY <1>3 DEF T

LEMMA DoublingsAgree ==
    ASSUME NEW i \in Nat
    PROVE  \A n, m \in Nat : \A g, h : /\ Doublings(g, n) /\ Doublings(h, m)
                                       /\ i <= n /\ i <= m
                                       => g[i] = h[i]
<1> DEFINE A(k) == \A n, m \in Nat : \A g, h :
                      /\ Doublings(g, n) /\ Doublings(h, m)
                      /\ k <= n /\ k <= m
                      => g[k] = h[k]
           T == {k \in Nat : A(k)}
<1>1. A(0)
  BY DEF Doublings
<1>2. ASSUME NEW k \in Nat, A(k) PROVE A(k + 1)
  <2> SUFFICES ASSUME NEW n \in Nat, NEW m \in Nat, NEW g, NEW h,
                      Doublings(g, n), Doublings(h, m), k + 1 <= n, k + 1 <= m
               PROVE  g[k + 1] = h[k + 1]
    OBVIOUS
  <2>1. k <= n /\ k <= m /\ k + 1 \in 1 .. n /\ k + 1 \in 1 .. m
    OBVIOUS
  <2>2. g[k] = h[k]
    BY <1>2, <2>1
  <2>3. g[k + 1] = 2 * g[k + 1 - 1] /\ h[k + 1] = 2 * h[k + 1 - 1]
    BY <2>1 DEF Doublings
  <2>4. k + 1 - 1 = k
    OBVIOUS
  <2> QED BY <2>2, <2>3, <2>4
<1> HIDE DEF A
<1>3. 0 \in T /\ \A k \in Nat : k \in T => k + 1 \in T
  BY <1>1, <1>2
<1> HIDE DEF T
<1>4. i \in T
  BY <1>3, Induct
<1> QED BY <1>4 DEF T, A

LEMMA TwoToDefined ==
    TwoTo = [n \in Nat |-> IF n = 0 THEN 1 ELSE 2 * TwoTo[n - 1]]
<1> DEFINE G(n) == CHOOSE g : Doublings(g, n)
           f == [n \in Nat |-> G(n)[n]]
<1>1. \A n \in Nat : Doublings(G(n), n)
  BY DoublingsExist
<1> HIDE DEF G
<1>2. f[0] = 1
  <2>1. Doublings(G(0), 0)
    BY <1>1
  <2> QED BY <2>1 DEF Doublings
<1>3. ASSUME NEW n \in Nat, n # 0 PROVE f[n] = 2 * f[n - 1]
  <2>1. Doublings(G(n), n) /\ Doublings(G(n - 1), n - 1) /\ n - 1 \in Nat
    BY <1>1, <1>3
  <2>2. n - 1 <= n /\ n - 1 <= n - 1
    BY <1>3
  <2>3. G(n)[n - 1] = G(n - 1)[n - 1]
    BY <2>1, <2>2, DoublingsAgree
  <2>4. n \in 1 .. n
    BY <1>3
  <2>5. G(n)[n] = 2 * G(n)[n - 1]
    BY <2>1, <2>4 DEF Doublings
  <2>6. f[n] = G(n)[n] /\ f[n - 1] = G(n - 1)[n - 1]
    BY <2>1
  <2> HIDE DEF f
  <2> QED BY <2>3, <2>5, <2>6
<1>4. f = [n \in Nat |-> IF n = 0 THEN 1 ELSE 2 * f[n - 1]]
  <2>1. \A n \in Nat : f[n] = IF n = 0 THEN 1 ELSE 2 * f[n - 1]
    BY <1>2, <1>3
  <2>2. f = [n \in Nat |-> f[n]]
    OBVIOUS
  <2> HIDE DEF f
  <2> QED BY <2>1, <2>2
<1>5. \E g : g = [n \in Nat |-> IF n = 0 THEN 1 ELSE 2 * g[n - 1]]
  <2> HIDE DEF f
  <2> QED BY <1>4
<1> QED BY <1>5 DEF TwoTo

LEMMA TwoToStep ==
    /\ TwoTo[0] = 1
    /\ \A n \in Nat : TwoTo[n + 1] = 2 * TwoTo[n]
<1> HIDE DEF TwoTo
<1>1. TwoTo[0] = 1
  BY TwoToDefined
<1>2. ASSUME NEW n \in Nat PROVE TwoTo[n + 1] = 2 * TwoTo[n]
  <2>1. n + 1 \in Nat /\ n + 1 # 0 /\ n + 1 - 1 = n
    OBVIOUS
  <2>2. TwoTo[n + 1] = IF n + 1 = 0 THEN 1 ELSE 2 * TwoTo[n + 1 - 1]
    BY <2>1, TwoToDefined
  <2> QED BY <2>1, <2>2
<1> QED BY <1>1, <1>2

LEMMA TwoToPositive ==
    ASSUME NEW n \in Nat
    PROVE  TwoTo[n] \in Nat \ {0}
<1> DEFINE T == {m \in Nat : TwoTo[m] \in Nat \ {0}}
<1>1. 0 \in T
  BY TwoToStep
<1>2. ASSUME NEW m \in Nat, m \in T PROVE m + 1 \in T
  <2>1. TwoTo[m + 1] = 2 * TwoTo[m] /\ TwoTo[m] \in Nat \ {0}
    BY <1>2, TwoToStep
  <2>2. 2 * TwoTo[m] \in Nat \ {0}
    BY <2>1
  <2> QED BY <2>1, <2>2
<1> HIDE DEF T
<1>3. n \in T
  BY <1>1, <1>2, Induct
<1> QED BY <1>3 DEF T

LEMMA TwoToSum ==
    ASSUME NEW a \in Nat, NEW b \in Nat
    PROVE  TwoTo[a + b] = TwoTo[a] * TwoTo[b]
<1> DEFINE T == {m \in Nat : TwoTo[a + m] = TwoTo[a] * TwoTo[m]}
<1>1. 0 \in T
  <2>1. a + 0 = a /\ TwoTo[a] * 1 = TwoTo[a]
    BY TwoToPositive
  <2> QED BY <2>1, TwoToStep
<1>2. ASSUME NEW m \in Nat, m \in T PROVE m + 1 \in T
  <2>1. TwoTo[a + m] = TwoTo[a] * TwoTo[m]
    BY <1>2
  <2>2. TwoTo[(a + m) + 1] = 2 * TwoTo[a + m] /\ TwoTo[m + 1] = 2 * TwoTo[m]
    BY TwoToStep
  <2>3. (a + m) + 1 = a + (m + 1)
    OBVIOUS
  <2>4. \A x, y \in Nat : 2 * (x * y) = x * (2 * y)
    OBVIOUS
  <2>5. 2 * (TwoTo[a] * TwoTo[m]) = TwoTo[a] * (2 * TwoTo[m])
    BY <2>4, TwoToPositive
  <2>6. TwoTo[a + (m + 1)] = TwoTo[a] * TwoTo[m + 1]
    BY <2>1, <2>2, <2>3, <2>5
  <2> QED BY <2>6
<1> HIDE DEF T
<1>3. b \in T
  BY <1>1, <1>2, Induct
<1> QED BY <1>3 DEF T

LEMMA TwoToMonotone ==
    ASSUME NEW a \in Nat, NEW b \in Nat, a <= b
    PROVE  TwoTo[a] <= TwoTo[b]
<1>1. b - a \in Nat /\ a + (b - a) = b
  OBVIOUS
<1>2. TwoTo[b] = TwoTo[a] * TwoTo[b - a]
  BY <1>1, TwoToSum
<1>3. \A x, y \in Nat \ {0} : x <= x * y
  OBVIOUS
<1>4. TwoTo[a] <= TwoTo[a] * TwoTo[b - a]
  BY <1>1, <1>3, TwoToPositive
<1> QED BY <1>2, <1>4

-----------------------------------------------------------------------------
Top == TwoTo[Bits + 2]
Half == TwoTo[Bits + 1]
Step == TwoTo[Bits + 2 - DIG]

LEMMA Magnitudes ==
    /\ TwoTo[DIG] \in Nat /\ TwoTo[DIG] >= 4
    /\ Step \in Nat \ {0} /\ Half \in Nat \ {0} /\ Top \in Nat \ {0}
    /\ TwoTo[Bits] \in Nat \ {0} /\ TwoTo[Bits - 1] \in Nat \ {0}
    /\ Top = 2 * Half /\ Half = 2 * TwoTo[Bits]
    /\ TwoTo[Bits] = 2 * TwoTo[Bits - 1]
    /\ Top = TwoTo[DIG] * Step
    /\ TwoTo[DIG] = 2 * TwoTo[DIG - 1] /\ TwoTo[DIG - 1] \in Nat \ {0}
    /\ Half = TwoTo[DIG - 1] * Step
<1>1. /\ DIG \in Nat /\ Bits \in Nat /\ DIG >= 2 /\ Bits > DIG
      /\ DIG - 1 \in Nat /\ DIG - 2 \in Nat /\ Bits - 1 \in Nat
      /\ Bits + 1 \in Nat /\ Bits + 2 \in Nat /\ Bits + 2 - DIG \in Nat
  BY NumberAssumption
<1>2. /\ TwoTo[DIG] \in Nat \ {0} /\ TwoTo[DIG - 1] \in Nat \ {0}
      /\ TwoTo[DIG - 2] \in Nat \ {0}
      /\ Step \in Nat \ {0} /\ Half \in Nat \ {0} /\ Top \in Nat \ {0}
      /\ TwoTo[Bits] \in Nat \ {0} /\ TwoTo[Bits - 1] \in Nat \ {0}
  BY <1>1, TwoToPositive DEF Step, Half, Top
<1>3. TwoTo[DIG] = 2 * TwoTo[DIG - 1] /\ TwoTo[DIG - 1] = 2 * TwoTo[DIG - 2]
  <2>1. (DIG - 1) + 1 = DIG /\ (DIG - 2) + 1 = DIG - 1
    BY <1>1
  <2>2. TwoTo[(DIG - 1) + 1] = 2 * TwoTo[DIG - 1]
        /\ TwoTo[(DIG - 2) + 1] = 2 * TwoTo[DIG - 2]
    BY <1>1, TwoToStep
  <2> QED BY <2>1, <2>2
<1>4. Top = 2 * Half /\ Half = 2 * TwoTo[Bits] /\ TwoTo[Bits] = 2 * TwoTo[Bits - 1]
  <2>1. (Bits + 1) + 1 = Bits + 2 /\ (Bits - 1) + 1 = Bits
    BY <1>1
  <2>2. TwoTo[(Bits + 1) + 1] = 2 * TwoTo[Bits + 1]
        /\ TwoTo[Bits + 1] = 2 * TwoTo[Bits]
        /\ TwoTo[(Bits - 1) + 1] = 2 * TwoTo[Bits - 1]
    BY <1>1, TwoToStep
  <2> QED BY <2>1, <2>2 DEF Top, Half
<1>5. Top = TwoTo[DIG] * Step
  <2>1. DIG + (Bits + 2 - DIG) = Bits + 2
    BY <1>1
  <2>2. TwoTo[DIG + (Bits + 2 - DIG)] = TwoTo[DIG] * TwoTo[Bits + 2 - DIG]
    BY <1>1, TwoToSum
  <2> QED BY <2>1, <2>2 DEF Top, Step
<1>6. Half = TwoTo[DIG - 1] * Step
  <2>1. DIG - 1 + (Bits + 2 - DIG) = Bits + 1
    BY <1>1
  <2>2. TwoTo[DIG - 1 + (Bits + 2 - DIG)] = TwoTo[DIG - 1] * TwoTo[Bits + 2 - DIG]
    BY <1>1, TwoToSum
  <2> QED BY <2>1, <2>2 DEF Half, Step
<1>7. TwoTo[DIG] >= 4
  BY <1>2, <1>3
<1> QED BY <1>2, <1>3, <1>4, <1>5, <1>6, <1>7

LEMMA ProductsPositive ==
    ASSUME NEW n \in Nat \ {0}, NEW e \in Nat
    PROVE  n * TwoTo[e] \in Nat \ {0} /\ ((-1) * n) * TwoTo[e] = -(n * TwoTo[e])
           /\ (1 * n) * TwoTo[e] = n * TwoTo[e]
<1>1. \A x, y \in Nat \ {0} : x * y \in Nat \ {0} /\ ((-1) * x) * y = -(x * y)
          /\ (1 * x) * y = x * y
  OBVIOUS
<1> QED BY <1>1, TwoToPositive

LEMMA DoublesAre ==
    ASSUME NEW q
    PROVE  q \in Doubles <=>
              \/ q = 0
              \/ \E n \in 1 .. TwoTo[DIG] - 1, e \in 0 .. Bits + 2 - DIG :
                    q = n * TwoTo[e] \/ q = -(n * TwoTo[e])
<1> DEFINE N == 1 .. TwoTo[DIG] - 1
           X == 0 .. Bits + 2 - DIG
<1>1. q \in Doubles <=> q = 0 \/ \E s \in {-1, 1}, n \in N, e \in X :
                                    q = s * n * TwoTo[e]
  BY DEF Doubles
<1>2. N \subseteq Nat \ {0} /\ X \subseteq Nat
  BY NumberAssumption, Magnitudes
<1>3. \A n \in N, e \in X : /\ ((-1) * n) * TwoTo[e] = -(n * TwoTo[e])
                            /\ (1 * n) * TwoTo[e] = n * TwoTo[e]
  BY <1>2, ProductsPositive
<1> HIDE DEF N, X
<1>4. (\E s \in {-1, 1}, n \in N, e \in X : q = s * n * TwoTo[e]) <=>
      (\E n \in N, e \in X : q = ((-1) * n) * TwoTo[e] \/ q = (1 * n) * TwoTo[e])
  BY Zenon
<1>5. (\E n \in N, e \in X : q = ((-1) * n) * TwoTo[e] \/ q = (1 * n) * TwoTo[e]) <=>
      (\E n \in N, e \in X : q = n * TwoTo[e] \/ q = -(n * TwoTo[e]))
  BY <1>3, Zenon
<1> QED BY <1>1, <1>4, <1>5 DEF N, X

LEMMA DoublesInt == Doubles \subseteq Int
<1> SUFFICES ASSUME NEW q \in Doubles, q # 0 PROVE q \in Int
  OBVIOUS
<1>1. PICK n \in 1 .. TwoTo[DIG] - 1, e \in 0 .. Bits + 2 - DIG :
         q = n * TwoTo[e] \/ q = -(n * TwoTo[e])
  BY DoublesAre
<1>2. n \in Nat \ {0} /\ e \in Nat
  BY NumberAssumption, Magnitudes
<1>3. n * TwoTo[e] \in Nat
  BY <1>2, ProductsPositive
<1> QED BY <1>1, <1>3

LEMMA NonnegativeAre ==
    ASSUME NEW q
    PROVE  q \in Nonnegative <=>
              \/ q = 0 \/ q = Top
              \/ \E n \in 1 .. TwoTo[DIG] - 1, e \in 0 .. Bits + 2 - DIG :
                    q = n * TwoTo[e]
<1>1. q \in Nonnegative <=> (q \in Doubles /\ q >= 0) \/ q = Top
  BY DEF Nonnegative, Top
<1>2. ASSUME NEW n \in 1 .. TwoTo[DIG] - 1, NEW e \in 0 .. Bits + 2 - DIG
      PROVE  n * TwoTo[e] \in Nat \ {0}
  <2>1. n \in Nat \ {0} /\ e \in Nat
    BY NumberAssumption, Magnitudes
  <2> QED BY <2>1, ProductsPositive
<1>3. ASSUME q \in Doubles, q >= 0, q # 0
      PROVE  \E n \in 1 .. TwoTo[DIG] - 1, e \in 0 .. Bits + 2 - DIG :
                    q = n * TwoTo[e]
  <2>1. PICK n \in 1 .. TwoTo[DIG] - 1, e \in 0 .. Bits + 2 - DIG :
            q = n * TwoTo[e] \/ q = -(n * TwoTo[e])
    BY <1>3, DoublesAre
  <2>2. q = n * TwoTo[e]
    <3> DEFINE y == n * TwoTo[e]
    <3>1. y \in Nat \ {0} /\ (q = y \/ q = -y)
      BY <1>2, <2>1
    <3> HIDE DEF y
    <3>2. q = y
      BY <1>3, <3>1
    <3> QED BY <3>2 DEF y
  <2> QED BY <2>2
<1>4. ASSUME NEW n \in 1 .. TwoTo[DIG] - 1, NEW e \in 0 .. Bits + 2 - DIG,
             q = n * TwoTo[e]
      PROVE  q \in Doubles /\ q >= 0
  <2>1. q \in Doubles
    BY <1>4, DoublesAre
  <2>2. q \in Nat \ {0}
    BY <1>2, <1>4
  <2> QED BY <2>1, <2>2
<1>5. q = 0 => q \in Doubles /\ q >= 0
  BY DoublesAre
<1> QED BY <1>1, <1>3, <1>4, <1>5

LEMMA NonnegativeNat == Nonnegative \subseteq Nat
<1> SUFFICES ASSUME NEW q \in Nonnegative PROVE q \in Nat
  OBVIOUS
<1>1. (q \in Doubles /\ q >= 0) \/ q = Top
  BY DEF Nonnegative, Top
<1>2. CASE q \in Doubles /\ q >= 0
  <2>1. q \in Int
    BY <1>2, DoublesInt
  <2> QED BY <1>2, <2>1
<1> QED BY <1>1, <1>2, Magnitudes

(* The nearest of the doubles is one, and none is nearer.                  *)
LEMMA NearestIs ==
    ASSUME NEW q \in Nat
    PROVE  /\ Nearest(q) \in Nonnegative
           /\ \A d \in Nonnegative : Distance(q, Nearest(q)) <= Distance(q, d)
<1> DEFINE all == {Distance(q, d) : d \in Nonnegative}
           least == CHOOSE m \in all : \A d \in Nonnegative : m <= Distance(q, d)
           near == {d \in Nonnegative : Distance(q, d) = least}
<1>1. \A d \in Nonnegative : Distance(q, d) \in Nat
  BY NonnegativeNat DEF Distance
<1>2. 0 \in Nonnegative
  BY NonnegativeAre
<1>3. all \subseteq Nat /\ all # {}
  BY <1>1, <1>2
<1>4. \E m \in all : \A y \in all : m <= y
  <2> HIDE DEF all
  <2> QED BY <1>3, Least
<1>5. \E m \in all : \A d \in Nonnegative : m <= Distance(q, d)
  BY <1>4
<1>6. least \in all /\ \A d \in Nonnegative : least <= Distance(q, d)
  BY <1>5
<1> HIDE DEF least
<1>7. near # {}
  BY <1>6
<1> DEFINE best == CHOOSE d \in near : (\E e \in near : Even(e)) => Even(d)
<1>8. \E d \in near : (\E e \in near : Even(e)) => Even(d)
  <2> HIDE DEF near
  <2> QED BY <1>7
<1>9. best \in near
  <2> HIDE DEF near
  <2> QED BY <1>8
<1>10. Nearest(q) = best
  BY DEF Nearest, least
<1> HIDE DEF best
<1> QED BY <1>6, <1>9, <1>10

LEMMA NothingBetween ==
    ASSUME NEW q \in Nat, NEW d \in Nonnegative
    PROVE  /\ Nearest(q) \in Nat
           /\ ~(q < d /\ d < Nearest(q))
           /\ ~(Nearest(q) < d /\ d < q)
           /\ q = d => Nearest(q) = d
<1> DEFINE z == Nearest(q)
<1>1. z \in Nat /\ d \in Nat /\ Distance(q, z) <= Distance(q, d)
  BY NearestIs, NonnegativeNat
<1> HIDE DEF z
<1>2. /\ z \in Nat
      /\ ~(q < d /\ d < z)
      /\ ~(z < d /\ d < q)
      /\ q = d => z = d
  BY <1>1 DEF Distance
<1> QED BY <1>2 DEF z

(* In the upper half the doubles are the multiples of one step, and in the *)
(* lower half all these are doubles too.                                   *)
LEMMA UpperDoubles ==
    ASSUME NEW d \in Nonnegative, d >= Half
    PROVE  \E m \in TwoTo[DIG - 1] .. TwoTo[DIG] : d = m * Step
<1> DEFINE K == TwoTo[DIG]
           k == TwoTo[DIG - 1]
<1>1. /\ K \in Nat /\ k \in Nat \ {0} /\ K = 2 * k /\ Step \in Nat \ {0}
      /\ Top = K * Step /\ Half = k * Step
  BY Magnitudes
<1>2. CASE d = Top
  BY <1>1, <1>2
<1>3. d # 0
  BY Magnitudes
<1>4. CASE d # Top
  <2>1. PICK n \in 1 .. TwoTo[DIG] - 1, e \in 0 .. Bits + 2 - DIG : d = n * TwoTo[e]
    BY <1>3, <1>4, NonnegativeAre
  <2>2. CASE e = Bits + 2 - DIG
    <3>1. d = n * Step
      BY <2>1, <2>2 DEF Step
    <3>2. n >= k
      <4>1. n * Step >= k * Step /\ n \in Nat
        BY <1>1, <3>1
      <4> HIDE DEF k, K
      <4>2. \A x, y, t \in Nat : x < y /\ t # 0 => x * t < y * t
        OBVIOUS
      <4>3. n < k => n * Step < k * Step
        BY <1>1, <4>1, <4>2
      <4>4. n * Step \in Nat /\ k * Step \in Nat
        BY <1>1, <4>1
      <4> QED BY <4>1, <4>3, <4>4, <1>1
    <3>3. n \in k .. K
      BY <1>1, <3>2
    <3> QED BY <3>1, <3>3
  <2>3. CASE e # Bits + 2 - DIG
    <3>1. e \in Nat /\ Bits + 1 - DIG \in Nat /\ e <= Bits + 1 - DIG
          /\ (Bits + 1 - DIG) + 1 = Bits + 2 - DIG
      BY <2>3, NumberAssumption
    <3> DEFINE h == TwoTo[Bits + 1 - DIG]
               t == TwoTo[e]
    <3>2. h \in Nat \ {0} /\ t \in Nat \ {0} /\ t <= h
      BY <3>1, TwoToPositive, TwoToMonotone
    <3>3. Step = 2 * h
      <4>1. TwoTo[(Bits + 1 - DIG) + 1] = 2 * TwoTo[Bits + 1 - DIG]
        BY <3>1, TwoToStep
      <4> QED BY <3>1, <4>1 DEF Step
    <3>4. n \in Nat /\ n < K
      BY <1>1
    <3>5. n * t < Half
      <4> HIDE DEF h, t, k, K
      <4>1. \A a, b, x, y \in Nat : a <= b /\ x < y /\ b # 0 => x * a < y * b
        <5> SUFFICES ASSUME NEW a \in Nat, NEW b \in Nat, NEW x \in Nat, NEW y \in Nat,
                            a <= b, x < y, b # 0
                     PROVE  x * a < y * b
          OBVIOUS
        <5>1. x * a <= x * b
          OBVIOUS
        <5>2. x * b < y * b
          OBVIOUS
        <5>3. x * a \in Nat /\ x * b \in Nat /\ y * b \in Nat
          OBVIOUS
        <5> QED BY <5>1, <5>2, <5>3
      <4>2. n * t < K * h
        BY <1>1, <3>2, <3>4, <4>1
      <4>3. K * h = Half
        <5>1. \A x, y \in Nat : (2 * x) * y = x * (2 * y)
          OBVIOUS
        <5>2. (2 * k) * h = k * (2 * h)
          BY <5>1, <1>1, <3>2
        <5> QED BY <5>2, <1>1, <3>3
      <4> QED BY <4>2, <4>3
    <3>6. d < Half
      BY <2>1, <3>5
    <3>7. d \in Nat /\ Half \in Nat
      BY NonnegativeNat, Magnitudes
    <3> QED BY <3>6, <3>7
  <2> QED BY <2>2, <2>3
<1> QED BY <1>2, <1>4

LEMMA LowerDoubles ==
    ASSUME NEW m \in 0 .. TwoTo[DIG - 1]
    PROVE  m * Step \in Nonnegative
<1>1. m \in Nat /\ m <= TwoTo[DIG] - 1
  BY Magnitudes
<1>2. CASE m = 0
  BY <1>2, NonnegativeAre, Magnitudes
<1>3. CASE m # 0
  <2>1. m \in 1 .. TwoTo[DIG] - 1
    BY <1>1, <1>3, Magnitudes
  <2>2. Bits + 2 - DIG \in 0 .. Bits + 2 - DIG
    BY NumberAssumption
  <2>3. m * Step = m * TwoTo[Bits + 2 - DIG]
    BY DEF Step
  <2> QED BY <2>1, <2>2, <2>3, NonnegativeAre
<1> QED BY <1>2, <1>3

LEMMA Mirrored ==
    ASSUME NEW d \in Nonnegative, d >= Half
    PROVE  d <= Top /\ Top - d \in Nonnegative
<1>1. PICK m \in TwoTo[DIG - 1] .. TwoTo[DIG] : d = m * Step
  BY UpperDoubles
<1> DEFINE K == TwoTo[DIG]
           k == TwoTo[DIG - 1]
<1>2. /\ K \in Nat /\ k \in Nat \ {0} /\ K = 2 * k /\ Step \in Nat \ {0}
      /\ Top = K * Step
  BY Magnitudes
<1>3. m \in Nat /\ K - m \in 0 .. k
  BY <1>1, <1>2
<1>4. (K - m) * Step = K * Step - m * Step /\ m * Step <= K * Step
  <2> HIDE DEF K, k
  <2>1. \A x, y, t \in Nat : y <= x =>
            (x - y) * t = x * t - y * t /\ y * t <= x * t
    OBVIOUS
  <2>2. m <= K
    BY <1>2, <1>3
  <2> QED BY <2>1, <2>2, <1>2, <1>3
<1>5. (K - m) * Step \in Nonnegative
  BY <1>3, LowerDoubles
<1> QED BY <1>1, <1>2, <1>4, <1>5

LEMMA HalfIsDouble == Half \in Nonnegative /\ Top \in Nonnegative
<1>1. TwoTo[DIG - 1] \in 0 .. TwoTo[DIG - 1]
  BY Magnitudes
<1>2. TwoTo[DIG - 1] * Step \in Nonnegative
  BY <1>1, LowerDoubles
<1>3. Top \in Nonnegative
  BY NonnegativeAre
<1> QED BY <1>2, <1>3, Magnitudes

(* Back from a double.                                                     *)
LEMMA BackToInteger ==
    ASSUME NEW d \in Nat, d < Top
    PROVE  my_double2ulonglong(d) = d \div 4
<1> DEFINE B == TwoTo[Bits]
           b == TwoTo[Bits - 1]
<1>1. /\ B \in Nat \ {0} /\ b \in Nat \ {0} /\ B = 2 * b
      /\ Half = 4 * b /\ Top = 4 * B
  BY Magnitudes
<1>2. my_double2ulonglong(d) =
         IF d - Half >= 0 THEN (((d - Half) \div 4) + b) % B ELSE d \div 4
  BY DEF my_double2ulonglong, Half
<1> HIDE DEF B, b
<1>3. ASSUME d - Half >= 0
      PROVE  ((d - Half) \div 4) + b = d \div 4
  BY <1>1, <1>3
<1>4. d \div 4 \in 0 .. B - 1
  BY <1>1
<1>5. (d \div 4) % B = d \div 4
  BY <1>1, <1>4
<1> QED BY <1>2, <1>3, <1>5

(* The conversion rounds once where the number looks positive, and twice   *)
(* where it looks negative: first the distance to the top, in the lower    *)
(* half, and then the rest.  No double is lost on the way, since every one *)
(* in the upper half is mirrored by one in the lower half.                 *)
LEMMA FromLower ==
    ASSUME NEW v \in 0 .. TwoTo[Bits] - 1, v < TwoTo[Bits - 1]
    PROVE  my_ulonglong2double(v) = Nearest(4 * v)
<1>1. v \in Nat /\ v >= 0 /\ ~(4 * v < 0)
  BY Magnitudes
<1> QED BY <1>1 DEF my_ulonglong2double, double

LEMMA FromUpper ==
    ASSUME NEW v \in 0 .. TwoTo[Bits] - 1, v >= TwoTo[Bits - 1]
    PROVE  /\ Top - 4 * v \in Nat /\ Top - 4 * v <= Half
           /\ Nearest(Top - 4 * v) \in 0 .. Half
           /\ my_ulonglong2double(v) = Nearest(Top - Nearest(Top - 4 * v))
<1> DEFINE q == Top - 4 * v
           z == Nearest(q)
           B == TwoTo[Bits]
           b == TwoTo[Bits - 1]
<1>1. /\ B \in Nat \ {0} /\ b \in Nat \ {0} /\ B = 2 * b
      /\ Half = 4 * b /\ Top = 4 * B
  BY Magnitudes
<1>2. /\ v \in Nat /\ ~(v < b) /\ ~(v - B >= 0) /\ 4 * (v - B) < 0
      /\ q \in Nat /\ q <= Half /\ -(4 * (v - B)) = q
  <2> HIDE DEF B, b
  <2> QED BY <1>1 DEF B, b
<1>3. z \in 0 .. Half
  <2>1. z \in Nat /\ ~(q < Half /\ Half < z) /\ (q = Half => z = Half)
    BY <1>2, HalfIsDouble, NothingBetween
  <2> HIDE DEF z, q
  <2> QED BY <1>2, <2>1, Magnitudes
<1>4. my_ulonglong2double(v) = double(TwoTo[Bits + 2] + double(4 * (v - B)))
  BY <1>2 DEF my_ulonglong2double
<1>5. double(4 * (v - B)) = -z
  <2> HIDE DEF B, b
  <2> QED BY <1>2 DEF double
<1>6. TwoTo[Bits + 2] + (-z) = Top - z /\ ~(Top - z < 0)
  <2> HIDE DEF z
  <2>1. TwoTo[Bits + 2] + (-z) = Top - z
    BY <1>3, Magnitudes DEF Top
  <2> QED BY <1>3, <2>1, Magnitudes
<1>7. double(Top - z) = Nearest(Top - z)
  <2> HIDE DEF z
  <2> QED BY <1>6 DEF double
<1> QED BY <1>2, <1>3, <1>4, <1>5, <1>6, <1>7

LEMMA NextToInteger ==
    ASSUME NEW v \in 0 .. TwoTo[Bits] - 1, NEW d \in Nonnegative
    PROVE  /\ my_ulonglong2double(v) \in Nat
           /\ ~(4 * v < d /\ d < my_ulonglong2double(v))
           /\ ~(my_ulonglong2double(v) < d /\ d < 4 * v)
           /\ d = 4 * v => my_ulonglong2double(v) = 4 * v
<1>0. v \in Nat /\ 4 * v \in Nat
  BY Magnitudes
<1>1. CASE v < TwoTo[Bits - 1]
  BY <1>0, <1>1, FromLower, NothingBetween
<1>2. CASE v >= TwoTo[Bits - 1]
  <2> DEFINE x == 4 * v
             q == Top - x
             z == Nearest(q)
             p == Top - z
             r == Nearest(p)
             c == Top - d
  <2>1. /\ q \in Nat /\ q <= Half /\ z \in 0 .. Half
        /\ my_ulonglong2double(v) = r
    BY <1>2, FromUpper
  <2>2. /\ x \in Nat /\ d \in Nat /\ Half \in Nat /\ Top \in Nat /\ Top = 2 * Half
    BY <1>0, NonnegativeNat, Magnitudes
  <2>3. p \in Nat /\ p >= Half
    <3> HIDE DEF z
    <3> QED BY <2>1, <2>2
  <2>4. /\ r \in Nat
        /\ ~(p < d /\ d < r) /\ ~(r < d /\ d < p) /\ (p = d => r = d)
    BY <2>3, NothingBetween
  <2>5. ~(r < Half /\ Half < p) /\ (p = Half => r = Half)
    BY <2>3, HalfIsDouble, NothingBetween
  <2>6. d >= Half => /\ d <= Top
                     /\ ~(q < c /\ c < z) /\ ~(z < c /\ c < q) /\ (q = c => z = c)
    BY <2>1, Mirrored, NothingBetween
  <2> HIDE DEF r, z
  <2>7. x >= Half
    BY <2>1, <2>2
  <2>8. r >= Half
    <3> HIDE DEF p
    <3> QED BY <2>2, <2>3, <2>4, <2>5
  <2>9. /\ ~(x < d /\ d < r)
        /\ ~(r < d /\ d < x)
        /\ d = x => r = x
    BY <2>1, <2>2, <2>4, <2>6, <2>7, <2>8
  <2> QED BY <2>1, <2>4, <2>9
<1> QED BY <1>0, <1>1, <1>2, Magnitudes

(* A double is a whole number, or small enough for the next to be doubles. *)
LEMMA WholeOrSmall ==
    ASSUME NEW x \in Doubles
    PROVE  /\ x \in Int
           /\ \/ x % 4 = 0
              \/ x < 2 * TwoTo[DIG] /\ -x < 2 * TwoTo[DIG]
<1>0. x \in Int
  BY DoublesInt
<1>1. CASE x = 0
  BY <1>1
<1>2. CASE x # 0
  <2>1. PICK n \in 1 .. TwoTo[DIG] - 1, e \in 0 .. Bits + 2 - DIG :
            x = n * TwoTo[e] \/ x = -(n * TwoTo[e])
    BY <1>2, DoublesAre
  <2>2. n \in Nat /\ n < TwoTo[DIG] /\ TwoTo[DIG] \in Nat /\ e \in Nat
    BY Magnitudes, NumberAssumption
  <2> DEFINE y == n * TwoTo[e]
  <2>3. CASE e <= 1
    <3>1. TwoTo[0] = 1 /\ TwoTo[0 + 1] = 2 * TwoTo[0]
      BY TwoToStep
    <3>2. e = 0 \/ e = 1
      BY <2>2, <2>3
    <3>3. TwoTo[e] \in {1, 2}
      BY <3>1, <3>2
    <3>4. y \in Nat /\ y < 2 * TwoTo[DIG]
      BY <2>2, <3>3
    <3> HIDE DEF y
    <3>5. x = y \/ x = -y
      BY <2>1 DEF y
    <3> QED BY <1>0, <2>2, <3>4, <3>5
  <2>4. CASE e > 1
    <3>1. e - 2 \in Nat /\ (e - 2) + 1 = e - 1 /\ (e - 1) + 1 = e /\ e - 1 \in Nat
      BY <2>2, <2>4
    <3>2. TwoTo[(e - 2) + 1] = 2 * TwoTo[e - 2] /\ TwoTo[(e - 1) + 1] = 2 * TwoTo[e - 1]
      BY <3>1, TwoToStep
    <3>3. TwoTo[e - 2] \in Nat /\ TwoTo[e] = 4 * TwoTo[e - 2]
      BY <3>1, <3>2, TwoToPositive
    <3>4. \A a, b \in Nat : a * b \in Nat /\ a * (4 * b) = 4 * (a * b)
      OBVIOUS
    <3>5. n * TwoTo[e - 2] \in Nat /\ y = 4 * (n * TwoTo[e - 2])
      BY <2>2, <3>3, <3>4
    <3> DEFINE m == n * TwoTo[e - 2]
    <3>6. m \in Nat /\ (x = 4 * m \/ x = -(4 * m))
      BY <2>1, <3>5
    <3> HIDE DEF m
    <3>7. x % 4 = 0
      BY <3>6
    <3> QED BY <1>0, <3>7
  <2> QED BY <2>2, <2>3, <2>4
<1> QED BY <1>0, <1>1, <1>2

LEMMA SmallWholes ==
    ASSUME NEW m \in Int, m <= TwoTo[DIG - 1], -m <= TwoTo[DIG - 1]
    PROVE  4 * m \in Doubles
<1>1. /\ TwoTo[DIG] \in Nat /\ TwoTo[DIG - 1] \in Nat \ {0}
      /\ TwoTo[DIG] = 2 * TwoTo[DIG - 1]
  BY Magnitudes
<1>2. 2 \in 0 .. Bits + 2 - DIG
  BY NumberAssumption
<1>3. TwoTo[2] = 4
  <2>1. TwoTo[0] = 1 /\ TwoTo[0 + 1] = 2 * TwoTo[0] /\ TwoTo[1 + 1] = 2 * TwoTo[1]
    BY TwoToStep
  <2> QED BY <2>1
<1>4. CASE m = 0
  BY <1>4, DoublesAre
<1>5. CASE m > 0
  <2>1. m \in 1 .. TwoTo[DIG] - 1
    BY <1>1, <1>5
  <2>2. 4 * m = m * TwoTo[2]
    BY <1>3
  <2> QED BY <1>2, <2>1, <2>2, DoublesAre
<1>6. CASE m < 0
  <2>1. -m \in 1 .. TwoTo[DIG] - 1
    BY <1>1, <1>6
  <2>2. 4 * m = -((-m) * TwoTo[2])
    BY <1>3
  <2> QED BY <1>2, <2>1, <2>2, DoublesAre
<1> QED BY <1>4, <1>5, <1>6

LEMMA Rounded ==
    ASSUME NEW x \in Doubles
    PROVE  /\ Whole(rint(x)) /\ rint(x) \in Doubles
           /\ Distance(x, rint(x)) <= 2
           /\ Distance(x, rint(x)) = 2 => (rint(x) \div 4) % 2 = 0
<1> DEFINE k == TwoTo[DIG - 1]
           r == rint(x)
<1>1. x \in Int /\ (x % 4 = 0 \/ (x < 4 * k /\ -x < 4 * k))
  BY WholeOrSmall, Magnitudes
<1>2. k \in Nat \ {0} /\ MAX_EXACT_INTEGER = 4 * (2 * k - 1)
  BY Magnitudes DEF MAX_EXACT_INTEGER
<1> HIDE DEF k
<1>3. CASE x % 4 = 0
  <2>1. Truncated(x) = x
    BY <1>1, <1>3 DEF Truncated
  <2>2. r = x
    BY <1>1, <2>1 DEF rint
  <2> QED BY <1>1, <1>3, <2>2 DEF Whole, Distance
<1>4. CASE x % 4 # 0 /\ x > 0
  <2> DEFINE i == 4 * (x \div 4)
  <2>1. Truncated(x) = i
    BY <1>1, <1>4 DEF Truncated
  <2>2. i \in Nat /\ i <= 4 * (k - 1) /\ i <= MAX_EXACT_INTEGER
    BY <1>1, <1>2, <1>4
  <2>3. i \div 4 = x \div 4 /\ x - i \in {1, 2, 3}
    BY <1>1, <1>4
  <2>4. r = i + IF x - i > 2 \/ (x - i = 2 /\ Odd(i)) THEN 4 ELSE 0
    BY <1>4, <2>1, <2>2 DEF rint
  <2>5. \E m \in Int : r = 4 * m /\ m <= k /\ -m <= k
    <3>1. x \div 4 \in Int /\ x \div 4 <= k - 1 /\ x \div 4 >= 0
      BY <1>1, <1>2, <1>4
    <3>2. r = 4 * (x \div 4) \/ r = 4 * (x \div 4 + 1)
      BY <2>4, <3>1
    <3>3. x \div 4 + 1 \in Int /\ x \div 4 + 1 <= k /\ -(x \div 4 + 1) <= k
          /\ x \div 4 <= k /\ -(x \div 4) <= k
      BY <3>1, <1>2
    <3> QED BY <3>1, <3>2, <3>3
  <2>6. r \in Doubles /\ Whole(r) /\ r \in Int
    BY <2>5, SmallWholes DEF k, Whole
  <2>7. Distance(x, r) <= 2 /\ (Distance(x, r) = 2 => (r \div 4) % 2 = 0)
    BY <1>1, <2>3, <2>4 DEF Distance, Odd
  <2> QED BY <2>6, <2>7
<1>5. CASE x % 4 # 0 /\ ~(x > 0)
  <2> DEFINE w == (-x) \div 4
             i == -(4 * w)
  <2>1. x < 0 /\ Truncated(x) = i
    BY <1>1, <1>5 DEF Truncated
  <2>2. w \in Nat /\ w <= k - 1 /\ i >= -MAX_EXACT_INTEGER
    BY <1>1, <1>2, <1>5, <2>1
  <2>3. i \div 4 = -w /\ x - i \in {-1, -2, -3}
    BY <1>1, <1>5, <2>1
  <2>4. r = i - IF x - i < -2 \/ (x - i = -2 /\ Odd(i)) THEN 4 ELSE 0
    BY <1>5, <2>1, <2>2 DEF rint
  <2>5. \E m \in Int : r = 4 * m /\ m <= k /\ -m <= k
    <3> HIDE DEF w
    <3>2. r = 4 * (-w) \/ r = 4 * (-w - 1)
      BY <2>2, <2>4
    <3>3. -w \in Int /\ -w - 1 \in Int /\ -w <= k /\ -(-w) <= k
          /\ -w - 1 <= k /\ -(-w - 1) <= k
      BY <2>2, <1>2
    <3> QED BY <3>2, <3>3
  <2>6. r \in Doubles /\ Whole(r) /\ r \in Int
    BY <2>5, SmallWholes DEF k, Whole
  <2>7. Distance(x, r) <= 2 /\ (Distance(x, r) = 2 => (r \div 4) % 2 = 0)
    <3> HIDE DEF w
    <3> QED BY <1>1, <2>2, <2>3, <2>4 DEF Distance, Odd
  <2> QED BY <2>6, <2>7
<1> QED BY <1>3, <1>4, <1>5

(* The numbers of every size: whatever the digits of a double and the bits *)
(* of an integer, rint rounds a half to the even number, an unsigned       *)
(* number becomes a double next to it, the same one if there is one, and   *)
(* comes back, and my_isinf is true of what is infinite once it is stored, *)
(* but that without the isinf of the platform what only a register holds   *)
(* may be taken for finite.                                                *)
THEOREM NumbersAlwaysTrue == NumberSpec => []NumbersTrue
<1>1. NumberInit => NumbersTrue
  BY DEF NumberInit, NumbersTrue, RoundedToEven, UnsignedKept, InfinityFound
<1>2. NumbersTrue /\ [NumberNext]_numbers => NumbersTrue'
  <2> SUFFICES ASSUME NumbersTrue, [NumberNext]_numbers
               PROVE  NumbersTrue'
    OBVIOUS
  <2>1. CASE UNCHANGED numbers
    <3>1. UNCHANGED <<call, given, returned>>
      BY <2>1 DEF numbers
    <3> QED BY <3>1 DEF NumbersTrue, RoundedToEven, UnsignedKept, InfinityFound
  <2>2. CASE CallRint
    <3>1. PICK x \in Doubles : call' = "rint" /\ given' = x /\ returned' = rint(x)
      BY <2>2 DEF CallRint, Call
    <3>2. RoundedToEven'
      BY <3>1, Rounded DEF RoundedToEven
    <3> QED BY <3>1, <3>2 DEF NumbersTrue, UnsignedKept, InfinityFound
  <2>3. CASE CallFromInteger
    <3>1. PICK v \in 0 .. TwoTo[Bits] - 1 :
              /\ call' = "ulonglong2double" /\ given' = v
              /\ returned' = my_ulonglong2double(v)
      BY <2>3 DEF CallFromInteger, Call
    <3> DEFINE r == my_ulonglong2double(v)
    <3>2. ASSUME NEW d \in Nonnegative
          PROVE  ~(4 * v < d /\ d < r) /\ ~(r < d /\ d < 4 * v)
      BY NextToInteger
    <3>3. v \in Nat /\ 4 * v \in Nat /\ 4 * v < Top
      BY Magnitudes
    <3>4. ASSUME 4 * v \in Doubles
          PROVE  r = 4 * v /\ my_double2ulonglong(r) = v
      <4>1. 4 * v \in Nonnegative
        BY <3>3, <3>4 DEF Nonnegative
      <4>2. r = 4 * v
        BY <4>1, NextToInteger
      <4>3. my_double2ulonglong(4 * v) = (4 * v) \div 4
        BY <3>3, BackToInteger
      <4>4. (4 * v) \div 4 = v
        BY <3>3
      <4> QED BY <4>2, <4>3, <4>4
    <3> HIDE DEF r
    <3>5. UnsignedKept'
      BY <3>1, <3>2, <3>4 DEF UnsignedKept, r
    <3> QED BY <3>1, <3>5 DEF NumbersTrue, RoundedToEven, InfinityFound
  <2>4. CASE CallToInteger
    <3>1. PICK d \in Nonnegative \ {TwoTo[Bits + 2]} :
              /\ call' = "double2ulonglong" /\ given' = d
              /\ returned' = my_double2ulonglong(d)
      BY <2>4 DEF CallToInteger, Call
    <3>2. d \in Nat /\ d < Top
      <4>1. d \in Nat /\ d # Top
        BY <3>1, NonnegativeNat DEF Top
      <4>2. d >= Half => d <= Top
        BY <3>1, Mirrored
      <4> QED BY <4>1, <4>2, Magnitudes
    <3>3. UnsignedKept'
      BY <3>1, <3>2, BackToInteger DEF UnsignedKept
    <3> QED BY <3>1, <3>3 DEF NumbersTrue, RoundedToEven, InfinityFound
  <2>5. CASE CallIsinf
    <3>1. PICK x \in Classes, build \in Builds :
              \E result \in my_isinf(x, build) :
                  Call("my_isinf", [x |-> x, build |-> build], result)
      BY <2>5 DEF CallIsinf
    <3>2. PICK result \in my_isinf(x, build) :
              Call("my_isinf", [x |-> x, build |-> build], result)
      BY <3>1
    <3>3. /\ call' = "my_isinf" /\ given'.x = x /\ given'.build = build
          /\ returned' = result
      BY <3>2 DEF Call
    <3>4. ASSUME "HAVE_ISINF" \in build PROVE InfinityFound'
      <4>1. result <=> Stored(x) = "infinite"
        BY <3>2, <3>4 DEF my_isinf, isinf, Stored, Classes
      <4> QED BY <3>3, <4>1 DEF InfinityFound
    <3>5. ASSUME "HAVE_ISINF" \notin build PROVE InfinityFound'
      <4>1. PICK seen \in {x, Stored(x)} :
                result = (~(seen \notin {"nan", "infinite"}) /\ ~isnan(x))
        BY <3>2, <3>5 DEF my_isinf, finite
      <4>2. \/ result <=> Stored(x) = "infinite"
            \/ x = "wide" /\ ~result
        BY <4>1 DEF Stored, isnan, Classes
      <4> QED BY <3>3, <3>5, <4>2 DEF InfinityFound
    <3>6. InfinityFound'
      BY <3>4, <3>5
    <3> QED BY <3>3, <3>6 DEF NumbersTrue, RoundedToEven, UnsignedKept
  <2> QED BY <2>1, <2>2, <2>3, <2>4, <2>5 DEF NumberNext
<1> QED BY <1>1, <1>2, PTL DEF NumberSpec

=============================================================================
