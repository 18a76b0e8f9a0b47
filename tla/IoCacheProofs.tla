--------------------------- MODULE IoCacheProofs ----------------------------
(* Proofs about IoCache, for every length of the buffer and of the stream. *)
EXTENDS IoCache, TLAPS

(* Where the two kinds of cache stand between any two operations.          *)
WriteInv == type = "WRITE_CACHE" =>
    /\ write_end >= 1
    /\ read_pos = 0 /\ read_end = 0 /\ consumed = 0 /\ end_of_file = 0
ReadInv == type = "READ_CACHE" =>
    /\ write_pos = 0
    /\ read_pos <= read_end /\ pos_in_file + read_end <= end_of_file

IInv == /\ TypeOK /\ StreamInOrder /\ TellIsTrue /\ DeliveredInOrder
        /\ OverrunOnlyAfterError /\ WriteInv /\ ReadInv

(* In a cache that is written, every byte of the stream has its own value. *)
LEMMA StreamIsTrue ==
    ASSUME IInv, type = "WRITE_CACHE"
    PROVE  /\ \A i \in 0 .. FileMax : StreamAt(i) = i \/ i >= FileMax
           /\ \A i \in Nat : i < FileMax => StreamAt(i) = i
BY CacheAssumption DEF IInv, TypeOK, StreamInOrder, TellIsTrue, my_b_tell,
    current_pos, request_pos, StreamAt, Offsets, Memory

(* Bytes are put where the buffer has memory for them. *)
LEMMA PutKeeps ==
    ASSUME IInv,
           NEW n \in Nat,
           type = "WRITE_CACHE",
           taken + n <= FileMax,
           write_pos + n <= buffer_length + Beyond,
           PutInBuffer(n),
           error' \in {error, -1},
           write_pos + n <= write_end \/ error' = -1,
           UNCHANGED <<file, pos_in_file, write_end, Reading>>
    PROVE  IInv'
<1> USE CacheAssumption DEF IInv, Memory, Offsets
<1>t. TypeOK'
  BY DEF TypeOK, StreamInOrder, TellIsTrue, DeliveredInOrder,
      OverrunOnlyAfterError, WriteInv, ReadInv, IO_CACHE, my_b_tell,
      current_pos, request_pos, PutInBuffer, memcpy, Reading, cache_type,
      Unset
<1>s. StreamInOrder'
  BY DEF TypeOK, StreamInOrder, TellIsTrue, DeliveredInOrder,
      OverrunOnlyAfterError, WriteInv, ReadInv, IO_CACHE, my_b_tell,
      current_pos, request_pos, PutInBuffer, memcpy, Reading
<1>l. TellIsTrue' /\ DeliveredInOrder'
  BY DEF TypeOK, StreamInOrder, TellIsTrue, DeliveredInOrder,
      OverrunOnlyAfterError, WriteInv, ReadInv, IO_CACHE, my_b_tell,
      current_pos, request_pos, PutInBuffer, memcpy, Reading
<1>o. OverrunOnlyAfterError' /\ WriteInv' /\ ReadInv'
  BY DEF TypeOK, StreamInOrder, TellIsTrue, DeliveredInOrder,
      OverrunOnlyAfterError, WriteInv, ReadInv, IO_CACHE, my_b_tell,
      current_pos, request_pos, PutInBuffer, memcpy, Reading
<1> QED
  BY <1>t, <1>s, <1>l, <1>o

(* The buffer is written out, with some of the bytes to come. *)
LEMMA WriteOutKeeps ==
    ASSUME IInv,
           NEW n \in Nat,
           type = "WRITE_CACHE",
           taken + n <= FileMax,
           NEW p \in pos_in_file + write_pos .. pos_in_file + write_pos + n,
           NEW e \in 1 .. buffer_length,
           pos_in_file + write_pos + n - p <= e,
           file' = [i \in Offsets |-> IF i < p THEN StreamAt(i) ELSE file[i]],
           buffer' = [i \in Memory |->
               IF i < pos_in_file + write_pos + n - p THEN StreamAt(p + i)
                                                      ELSE buffer[i]],
           pos_in_file' = p,
           write_pos' = pos_in_file + write_pos + n - p,
           write_end' = e,
           taken' = taken + n,
           error' = 0,
           UNCHANGED Reading
    PROVE  IInv'
<1> USE CacheAssumption DEF IInv, Memory, Offsets
<1>1. \A i \in Offsets : StreamAt(i) = i
  BY StreamIsTrue
<1>2. p \in 0 .. FileMax /\ taken = pos_in_file + write_pos
  BY DEF TypeOK, TellIsTrue, my_b_tell, current_pos, request_pos
<1>3. \A i \in Memory : i < pos_in_file + write_pos + n - p =>
                             p + i \in Offsets
  BY <1>2 DEF TypeOK
<1>4. file' \in [Offsets -> Int] /\ \A i \in Offsets : i < p => file'[i] = i
  BY <1>1 DEF TypeOK
<1>5. /\ buffer' \in [Memory -> Int]
      /\ \A i \in Memory : i < write_pos' => buffer'[i] = p + i
  BY <1>1, <1>2, <1>3 DEF TypeOK
<1>6. /\ write_pos' \in 0 .. buffer_length + Beyond
      /\ taken' \in 0 .. FileMax /\ pos_in_file' \in 0 .. FileMax
      /\ write_end' \in 0 .. buffer_length /\ error' \in -1 .. FileMax
  BY <1>2 DEF TypeOK
<1>7. /\ type' \in cache_type /\ end_of_file' \in 0 .. FileMax
      /\ read_pos' \in 0 .. buffer_length /\ read_end' \in 0 .. buffer_length
      /\ consumed' \in 0 .. FileMax /\ last' \in Int
  BY DEF TypeOK, Reading
<1>t. TypeOK'
  BY <1>4, <1>5, <1>6, <1>7 DEF TypeOK
<1>s. StreamInOrder'
  BY <1>2, <1>4, <1>5
    DEF TypeOK, StreamInOrder, TellIsTrue, DeliveredInOrder,
        OverrunOnlyAfterError, WriteInv, ReadInv, IO_CACHE, my_b_tell,
        current_pos, request_pos, Reading
<1>l. TellIsTrue' /\ DeliveredInOrder'
  BY <1>2, <1>4, <1>5
    DEF TypeOK, StreamInOrder, TellIsTrue, DeliveredInOrder,
        OverrunOnlyAfterError, WriteInv, ReadInv, IO_CACHE, my_b_tell,
        current_pos, request_pos, Reading
<1>o. OverrunOnlyAfterError' /\ WriteInv' /\ ReadInv'
  BY <1>2, <1>4, <1>5
    DEF TypeOK, StreamInOrder, TellIsTrue, DeliveredInOrder,
        OverrunOnlyAfterError, WriteInv, ReadInv, IO_CACHE, my_b_tell,
        current_pos, request_pos, Reading
<1> QED
  BY <1>t, <1>s, <1>l, <1>o

(* write_function, whatever the disk does.                                 *)
LEMMA WriteFunctionKeeps ==
    ASSUME IInv, NEW n \in Nat, type = "WRITE_CACHE", taken + n <= FileMax,
           write_function(n), UNCHANGED Reading
    PROVE  IInv'
<1>1. CASE error' = 0 /\ \E p \in pos_in_file + write_pos ..
                                  pos_in_file + write_pos + n,
              e \in 1 .. buffer_length :
          /\ pos_in_file + write_pos + n - p <= e
          /\ file' = [i \in Offsets |-> IF i < p THEN StreamAt(i) ELSE file[i]]
          /\ buffer' = [i \in Memory |->
                IF i < pos_in_file + write_pos + n - p THEN StreamAt(p + i)
                                                       ELSE buffer[i]]
          /\ pos_in_file' = p
          /\ write_pos' = pos_in_file + write_pos + n - p
          /\ write_end' = e
          /\ taken' = taken + n
  BY <1>1, WriteOutKeeps
<1>2. CASE /\ LET room == my_b_bytes_in_cache
                  k == IF room < 0 THEN 0 ELSE IF n < room THEN n ELSE room
              IN PutInBuffer(k)
           /\ error' = -1
           /\ UNCHANGED <<file, pos_in_file, write_end>>
  <2> DEFINE room == my_b_bytes_in_cache
             k == IF room < 0 THEN 0 ELSE IF n < room THEN n ELSE room
  <2>1. k \in Nat /\ k <= n /\ write_pos + k <= buffer_length + Beyond
    BY CacheAssumption DEF IInv, TypeOK, my_b_bytes_in_cache, current_end,
        current_pos
  <2>2. taken + k <= FileMax
    BY <2>1, CacheAssumption DEF IInv, TypeOK
  <2>3. PutInBuffer(k)
    BY <1>2
  <2> HIDE DEF k
  <2> QED
    BY <1>2, <2>1, <2>2, <2>3, PutKeeps
<1> QED
  BY <1>1, <1>2 DEF write_function

LEMMA WriteKeeps ==
    ASSUME IInv, NEW n \in 1 .. CountMax, my_b_write(n)
    PROVE  IInv'
<1> USE CacheAssumption
<1>1. n \in Nat /\ type = "WRITE_CACHE" /\ taken + n <= FileMax
      /\ UNCHANGED Reading
  BY DEF my_b_write
<1>2. CASE write_pos + n <= write_end
  <2>1. write_pos + n <= buffer_length + Beyond
    BY <1>1, <1>2 DEF IInv, TypeOK
  <2> QED
    BY <1>1, <1>2, <2>1, PutKeeps DEF my_b_write
<1>3. CASE ~(write_pos + n <= write_end)
  BY <1>1, <1>3, WriteFunctionKeeps DEF my_b_write
<1> QED
  BY <1>2, <1>3

LEMMA FlushKeeps ==
    ASSUME IInv, flush_io_cache
    PROVE  IInv'
<1>1. taken + 0 <= FileMax
  BY CacheAssumption DEF IInv, TypeOK
<1> QED
  BY <1>1, WriteFunctionKeeps DEF flush_io_cache

LEMMA WriteByteKeeps ==
    ASSUME IInv, my_b_write_byte
    PROVE  IInv'
<1> USE CacheAssumption
<1>1. /\ type = "WRITE_CACHE" /\ taken + 1 <= FileMax
      /\ UNCHANGED Reading
  BY DEF my_b_write_byte, IInv, TypeOK
<1>2. CASE write_pos < write_end /\ PutInBuffer(1)
           /\ UNCHANGED <<file, pos_in_file, write_end, error>>
  <2>1. write_pos + 1 <= write_end /\ write_pos + 1 <= buffer_length + Beyond
    BY <1>2 DEF IInv, TypeOK
  <2> QED
    BY <1>1, <1>2, <2>1, PutKeeps
<1>3. CASE /\ write_pos >= write_end
           /\ \E e \in 1 .. buffer_length :
                /\ file' = [i \in Offsets |-> IF i < pos_in_file + write_pos
                                              THEN StreamAt(i) ELSE file[i]]
                /\ buffer' = [buffer EXCEPT ![0] = taken]
                /\ pos_in_file' = pos_in_file + write_pos
                /\ write_pos' = 1 /\ write_end' = e
           /\ taken' = taken + 1 /\ error' = 0
  <2>0. PICK e \in 1 .. buffer_length :
                /\ file' = [i \in Offsets |-> IF i < pos_in_file + write_pos
                                              THEN StreamAt(i) ELSE file[i]]
                /\ buffer' = [buffer EXCEPT ![0] = taken]
                /\ pos_in_file' = pos_in_file + write_pos
                /\ write_pos' = 1 /\ write_end' = e
    BY <1>3
  <2> DEFINE p == pos_in_file + write_pos
  <2>1. p \in pos_in_file + write_pos .. pos_in_file + write_pos + 1
        /\ pos_in_file + write_pos + 1 - p = 1
    BY DEF IInv, TypeOK
  <2>2. p \in Nat /\ p < FileMax /\ p = taken
    BY <1>1 DEF IInv, TypeOK, TellIsTrue, my_b_tell, current_pos, request_pos
  <2>3. StreamAt(p + 0) = taken /\ p + 0 = p
    BY <1>1, <2>2, StreamIsTrue
  <2>4. buffer' = [i \in Memory |-> IF i < 1 THEN StreamAt(p + i)
                                             ELSE buffer[i]]
    <3> HIDE DEF p
    <3>1. buffer = [i \in Memory |-> buffer[i]]
      BY DEF IInv, TypeOK
    <3>2. \A i \in Memory : i < 1 => i = 0
      BY DEF Memory
    <3>3. 0 \in Memory /\ 0 < 1
      BY DEF Memory
    <3> QED
      BY <2>0, <2>3, <3>1, <3>2, <3>3
  <2>5. file' = [i \in Offsets |-> IF i < p THEN StreamAt(i) ELSE file[i]]
        /\ pos_in_file' = p /\ write_pos' = 1 /\ write_end' = e
    BY <2>0
  <2>6. taken' = taken + 1 /\ error' = 0
    BY <1>3
  <2> HIDE DEF p
  <2> QED
    BY <1>1, <2>1, <2>4, <2>5, <2>6, WriteOutKeeps
<1>4. CASE /\ write_pos >= write_end /\ write_pos \in Memory
           /\ PutInBuffer(1)
           /\ error' = -1
           /\ UNCHANGED <<file, pos_in_file, write_end>>
  <2>1. write_pos + 1 <= buffer_length + Beyond
    BY <1>4 DEF IInv, TypeOK, Memory
  <2> QED
    BY <1>1, <1>4, <2>1, PutKeeps
<1> QED
  BY <1>2, <1>3, <1>4 DEF my_b_write_byte

(* Bytes are read from the buffer. *)
LEMMA FastReadKeeps ==
    ASSUME IInv,
           NEW n \in Nat,
           type = "READ_CACHE",
           n > 0,
           read_pos + n <= read_end,
           read_pos' = read_pos + n,
           Deliver(n),
           UNCHANGED <<pos_in_file, read_end, buffer, error, Writing>>
    PROVE  IInv'
<1> USE CacheAssumption DEF IInv, Memory, Offsets
<1>t. TypeOK'
  BY DEF TypeOK, StreamInOrder, TellIsTrue, DeliveredInOrder,
      OverrunOnlyAfterError, WriteInv, ReadInv, IO_CACHE, my_b_tell,
      current_pos, request_pos, Deliver, Writing, cache_type, Unset
<1>s. StreamInOrder'
  BY DEF TypeOK, StreamInOrder, TellIsTrue, DeliveredInOrder,
      OverrunOnlyAfterError, WriteInv, ReadInv, IO_CACHE, my_b_tell,
      current_pos, request_pos, Deliver, Writing
<1>l. TellIsTrue' /\ DeliveredInOrder'
  BY DEF TypeOK, StreamInOrder, TellIsTrue, DeliveredInOrder,
      OverrunOnlyAfterError, WriteInv, ReadInv, IO_CACHE, my_b_tell,
      current_pos, request_pos, Deliver, Writing
<1>o. OverrunOnlyAfterError' /\ WriteInv' /\ ReadInv'
  BY DEF TypeOK, StreamInOrder, TellIsTrue, DeliveredInOrder,
      OverrunOnlyAfterError, WriteInv, ReadInv, IO_CACHE, my_b_tell,
      current_pos, request_pos, Deliver, Writing
<1> QED
  BY <1>t, <1>s, <1>l, <1>o

(* The buffer is filled from the file behind what the reader has had. *)
LEMMA RefillKeeps ==
    ASSUME IInv,
           type = "READ_CACHE",
           NEW from \in Nat,
           NEW size \in 0 .. buffer_length,
           from + size <= end_of_file,
           Refill(from, size),
           consumed' = from,
           last' = from - 1,
           error' \in -1 .. FileMax,
           UNCHANGED Writing
    PROVE  IInv'
<1> USE CacheAssumption DEF IInv, Memory, Offsets
<1>t. TypeOK'
  BY DEF TypeOK, StreamInOrder, TellIsTrue, DeliveredInOrder,
      OverrunOnlyAfterError, WriteInv, ReadInv, IO_CACHE, my_b_tell,
      current_pos, request_pos, Refill, Writing, cache_type, Unset
<1>s. StreamInOrder'
  BY DEF TypeOK, StreamInOrder, TellIsTrue, DeliveredInOrder,
      OverrunOnlyAfterError, WriteInv, ReadInv, IO_CACHE, my_b_tell,
      current_pos, request_pos, Refill, Writing
<1>l. TellIsTrue' /\ DeliveredInOrder'
  BY DEF TypeOK, StreamInOrder, TellIsTrue, DeliveredInOrder,
      OverrunOnlyAfterError, WriteInv, ReadInv, IO_CACHE, my_b_tell,
      current_pos, request_pos, Refill, Writing
<1>o. OverrunOnlyAfterError' /\ WriteInv' /\ ReadInv'
  BY DEF TypeOK, StreamInOrder, TellIsTrue, DeliveredInOrder,
      OverrunOnlyAfterError, WriteInv, ReadInv, IO_CACHE, my_b_tell,
      current_pos, request_pos, Refill, Writing
<1> QED
  BY <1>t, <1>s, <1>l, <1>o

(* read_function, at the end of the file or not, and whatever the disk     *)
(* does.                                                                   *)
LEMMA ReadFunctionKeeps ==
    ASSUME IInv, type = "READ_CACHE", NEW n \in Nat, n > 0,
           read_function(n), UNCHANGED Writing
    PROVE  IInv'
<1> USE CacheAssumption
<1> DEFINE at == pos_in_file + read_pos
           left == my_b_bytes_in_cache
<1>1. /\ at \in Nat /\ at = consumed /\ at <= end_of_file
      /\ last = at - 1 /\ end_of_file <= FileMax /\ end_of_file \in Nat
  BY DEF IInv, TypeOK, TellIsTrue, DeliveredInOrder, ReadInv, my_b_tell,
      current_pos, request_pos
<1>2. \A i \in Nat : i < end_of_file => file[i] = i
  BY <1>1 DEF IInv, TypeOK, StreamInOrder, Offsets
<1>3. CASE /\ at + n <= end_of_file
           /\ \E size \in 0 .. buffer_length :
                at + n + size <= end_of_file /\ Refill(at + n, size)
           /\ consumed' = consumed + n
           /\ last' = IF n = 0 THEN last ELSE file[at + n - 1]
           /\ error' = 0
  <2>1. PICK size \in 0 .. buffer_length :
          at + n + size <= end_of_file /\ Refill(at + n, size)
    BY <1>3
  <2>2. consumed' = at + n /\ last' = (at + n) - 1
    BY <1>1, <1>2, <1>3
  <2>3. at + n \in Nat /\ error' \in -1 .. FileMax
    BY <1>1, <1>3
  <2> HIDE DEF at, left
  <2> QED
    BY <2>1, <2>2, <2>3, RefillKeeps
<1>4. CASE /\ at + n > end_of_file
           /\ Refill(end_of_file, 0)
           /\ consumed' = consumed + (end_of_file - at)
           /\ last' = IF at = end_of_file THEN last ELSE file[end_of_file - 1]
           /\ error' = end_of_file - at
  <2>1. consumed' = end_of_file /\ last' = end_of_file - 1
    BY <1>1, <1>2, <1>4
  <2>2. error' \in -1 .. FileMax /\ 0 \in 0 .. buffer_length
        /\ end_of_file + 0 <= end_of_file
    BY <1>1, <1>4 DEF IInv, TypeOK
  <2> HIDE DEF at, left
  <2> QED
    BY <1>1, <1>4, <2>1, <2>2, RefillKeeps
<1>5. CASE /\ Refill(pos_in_file + my_b_get_bytes_in_buffer, 0)
           /\ Deliver(left)
           /\ error' = -1
  <2> DEFINE from == pos_in_file + my_b_get_bytes_in_buffer
  <2>1. /\ from \in Nat /\ from = pos_in_file + read_end
        /\ from <= end_of_file /\ left = read_end - read_pos /\ left \in Nat
    BY DEF IInv, TypeOK, ReadInv, my_b_get_bytes_in_buffer,
        my_b_bytes_in_cache, current_end, current_pos, request_pos
  <2>2. consumed' = from
    BY <1>1, <1>5, <2>1 DEF Deliver, IInv, TypeOK
  <2>3. last' = from - 1
    <3>1. CASE left = 0
      BY <3>1, <1>1, <1>5, <2>1 DEF Deliver, IInv, TypeOK
    <3>2. CASE left # 0
      <4>1. last' = buffer[read_pos + left - 1]
        BY <3>2, <1>5 DEF Deliver
      <4>2. read_pos + left - 1 = read_end - 1 /\ read_end - 1 \in Memory
        BY <3>2, <2>1 DEF IInv, TypeOK, Memory
      <4>3. buffer[read_end - 1] = pos_in_file + (read_end - 1)
        BY <4>2 DEF IInv, StreamInOrder, TypeOK
      <4> QED
        BY <4>1, <4>2, <4>3, <2>1 DEF IInv, TypeOK
    <3> QED
      BY <3>1, <3>2
  <2>4. error' \in -1 .. FileMax /\ 0 \in 0 .. buffer_length
        /\ from + 0 <= end_of_file /\ Refill(from, 0)
    BY <1>1, <1>5, <2>1
  <2> HIDE DEF at, left, from
  <2> QED
    BY <2>1, <2>2, <2>3, <2>4, RefillKeeps
<1> QED
  BY <1>3, <1>4, <1>5 DEF read_function

LEMMA ReadKeeps ==
    ASSUME IInv, NEW n \in 1 .. CountMax, my_b_read(n)
    PROVE  IInv'
<1>1. n \in Nat /\ n > 0 /\ type = "READ_CACHE" /\ UNCHANGED Writing
  BY CacheAssumption DEF my_b_read
<1>2. CASE read_pos + n <= read_end
  BY <1>1, <1>2, FastReadKeeps DEF my_b_read
<1>3. CASE ~(read_pos + n <= read_end)
  BY <1>1, <1>3, ReadFunctionKeeps DEF my_b_read
<1> QED
  BY <1>2, <1>3

LEMMA GetKeeps ==
    ASSUME IInv, my_b_get
    PROVE  IInv'
<1>1. type = "READ_CACHE" /\ UNCHANGED Writing
  BY DEF my_b_get
<1>2. CASE read_pos # read_end
  <2>1. read_pos + 1 <= read_end
    BY <1>1, <1>2, CacheAssumption DEF IInv, TypeOK, ReadInv
  <2> QED
    BY <1>1, <1>2, <2>1, FastReadKeeps DEF my_b_get
<1>3. CASE read_pos = read_end
  BY <1>1, <1>3, ReadFunctionKeeps DEF my_b_get
<1> QED
  BY <1>2, <1>3

LEMMA FillKeeps ==
    ASSUME IInv, my_b_fill_cache
    PROVE  IInv'
<1> USE CacheAssumption
<1> DEFINE at == pos_in_file + read_pos
<1>1. type = "READ_CACHE" /\ UNCHANGED Writing /\ UNCHANGED <<consumed, last>>
  BY DEF my_b_fill_cache
<1>2. /\ at \in Nat /\ at = consumed /\ at <= end_of_file /\ last = at - 1
  BY <1>1 DEF IInv, TypeOK, TellIsTrue, DeliveredInOrder, ReadInv, my_b_tell,
      current_pos, request_pos
<1>3. \E size \in 0 .. buffer_length : /\ at + size <= end_of_file
                                       /\ Refill(at, size)
                                       /\ error' \in -1 .. FileMax
  BY <1>2 DEF my_b_fill_cache
<1>4. consumed' = at /\ last' = at - 1
  BY <1>1, <1>2
<1> HIDE DEF at
<1> QED
  BY <1>1, <1>2, <1>3, <1>4, RefillKeeps

(* What was written is read from its beginning. *)
LEMMA ReinitKeeps ==
    ASSUME IInv,
           reinit_io_cache
    PROVE  IInv'
<1> USE CacheAssumption DEF IInv, Memory, Offsets
<1>0. type = "WRITE_CACHE"
  BY DEF reinit_io_cache
<1>1. \A i \in Offsets : StreamAt(i) = i
  BY <1>0, StreamIsTrue
<1>2. file' \in [Offsets -> Int]
  BY <1>1 DEF reinit_io_cache, TypeOK
<1>3. \A i \in Offsets : i < pos_in_file' => file'[i] = i
  BY <1>0, <1>1 DEF reinit_io_cache, TypeOK, StreamInOrder
<1>4. type' = "READ_CACHE" =>
          \A i \in Offsets : i < end_of_file' => file'[i] = i
  BY <1>0, <1>1 DEF reinit_io_cache, TypeOK
<1>t. TypeOK'
  BY <1>0, <1>2, <1>3, <1>4
    DEF TypeOK, StreamInOrder, TellIsTrue, DeliveredInOrder,
        OverrunOnlyAfterError, WriteInv, ReadInv, IO_CACHE, my_b_tell,
        current_pos, request_pos, reinit_io_cache, cache_type, Unset
<1>s. StreamInOrder'
  BY <1>0, <1>2, <1>3, <1>4
    DEF TypeOK, StreamInOrder, TellIsTrue, DeliveredInOrder,
        OverrunOnlyAfterError, WriteInv, ReadInv, IO_CACHE, my_b_tell,
        current_pos, request_pos, reinit_io_cache
<1>l. TellIsTrue' /\ DeliveredInOrder'
  BY <1>0, <1>2, <1>3, <1>4
    DEF TypeOK, StreamInOrder, TellIsTrue, DeliveredInOrder,
        OverrunOnlyAfterError, WriteInv, ReadInv, IO_CACHE, my_b_tell,
        current_pos, request_pos, reinit_io_cache
<1>o. OverrunOnlyAfterError' /\ WriteInv' /\ ReadInv'
  BY <1>0, <1>2, <1>3, <1>4
    DEF TypeOK, StreamInOrder, TellIsTrue, DeliveredInOrder,
        OverrunOnlyAfterError, WriteInv, ReadInv, IO_CACHE, my_b_tell,
        current_pos, request_pos, reinit_io_cache
<1> QED
  BY <1>t, <1>s, <1>l, <1>o

LEMMA InitHolds == Init => IInv
<1> SUFFICES ASSUME Init PROVE IInv
  OBVIOUS
<1> USE CacheAssumption DEF Init, Unset, Memory, Offsets
<1>1. TypeOK
  BY DEF TypeOK, cache_type
<1> QED
  BY <1>1 DEF IInv, TypeOK, StreamInOrder, TellIsTrue, DeliveredInOrder,
      OverrunOnlyAfterError, WriteInv, ReadInv, my_b_tell, current_pos,
      request_pos

LEMMA StutterKeeps ==
    ASSUME IInv, UNCHANGED vars
    PROVE  IInv'
BY DEF IInv, TypeOK, StreamInOrder, TellIsTrue, DeliveredInOrder,
    OverrunOnlyAfterError, WriteInv, ReadInv, my_b_tell, current_pos,
    request_pos, vars, IO_CACHE

(* The inductive invariant of an IO_CACHE.                                 *)
THEOREM CacheInvariance == Spec => []IInv
<1>1. IInv /\ [Next]_vars => IInv'
  BY WriteKeeps, ReadKeeps, WriteByteKeeps, FlushKeeps, GetKeeps, FillKeeps,
      ReinitKeeps, StutterKeeps DEF Next
<1> QED
  BY <1>1, InitHolds, PTL DEF Spec

(* Every variable of an IO_CACHE stays in its type: the positions within   *)
(* the buffer, the offsets within the file.                                *)
THEOREM CacheTypeCorrect == Spec => []TypeOK
<1>1. IInv => TypeOK
  BY DEF IInv
<1> QED
  BY <1>1, CacheInvariance, PTL

(* my_b_write, my_b_write_byte, my_b_read, my_b_get and my_b_fill_cache    *)
(* lose, repeat and displace no byte.                                      *)
THEOREM StreamInOrderHolds == Spec => []StreamInOrder
<1>1. IInv => StreamInOrder
  BY DEF IInv
<1> QED
  BY <1>1, CacheInvariance, PTL

(* my_b_tell is the number of bytes written or read.                       *)
THEOREM TellHolds == Spec => []TellIsTrue
<1>1. IInv => TellIsTrue
  BY DEF IInv
<1> QED
  BY <1>1, CacheInvariance, PTL

(* The reader of an IO_CACHE gets every byte once and in order.            *)
THEOREM DeliveredHolds == Spec => []DeliveredInOrder
<1>1. IInv => DeliveredInOrder
  BY DEF IInv
<1> QED
  BY <1>1, CacheInvariance, PTL

(* Only my_b_write_byte after a failed write passes the end of the buffer. *)
THEOREM OverrunHolds == Spec => []OverrunOnlyAfterError
<1>1. IInv => OverrunOnlyAfterError
  BY DEF IInv
<1> QED
  BY <1>1, CacheInvariance, PTL
=============================================================================
