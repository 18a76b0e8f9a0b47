------------------------------ MODULE IoCache -------------------------------
(* The cached file of my_sys.h: the macros that read and write an IO_CACHE *)
(* in memory and fall back on read_function and write_function at the ends *)
(* of the buffer.  Pointers into the buffer are offsets from its first     *)
(* byte.  The bytes of a stream are told apart by their place in it: the   *)
(* n-th byte handed over has the value n, so that a lost, repeated or      *)
(* displaced byte is seen wherever it ends up.                             *)
EXTENDS Integers

CONSTANTS
    buffer_length,  \* size of the buffer
    Beyond,         \* bound: bytes of memory modelled behind the buffer
    FileMax,        \* bound: bytes a stream may have
    CountMax        \* bound: bytes of one my_b_read or my_b_write

ASSUME CacheAssumption ==
    /\ buffer_length \in Nat \ {0} /\ Beyond \in Nat
    /\ FileMax \in Nat /\ CountMax \in Nat

cache_type == {"READ_CACHE", "WRITE_CACHE"}
Unset == -1                     \* the content of memory nobody has written
Memory == 0 .. buffer_length + Beyond - 1
Offsets == 0 .. FileMax - 1

VARIABLES
    type,           \* of the cache
    pos_in_file,    \* offset in the file of the first byte of the buffer
    end_of_file,    \* length of the file that is read
    read_pos,       \* where the next byte is read from the buffer
    read_end,       \* the end of what may be read there
    write_pos,      \* where the next byte is written to the buffer
    write_end,      \* the end of what may be written there
    error,          \* 0, -1, or the bytes of a partial read
    buffer,         \* the content of the buffer and the memory behind it
    file,           \* the content of the file
    taken,          \* bytes the cache has taken from the writer
    consumed,       \* bytes the reader has had
    last            \* the last of them, Unset before the first

IO_CACHE == <<type, pos_in_file, end_of_file, read_pos, read_end, write_pos,
              write_end, error, buffer>>
vars == <<IO_CACHE, file, taken, consumed, last>>

(* init_io_cache: a cache to be written, or to be read from a whole file.  *)
Init ==
    /\ type \in cache_type
    /\ pos_in_file = 0
    /\ end_of_file \in IF type = "READ_CACHE" THEN 0 .. FileMax ELSE {0}
    /\ read_pos = 0 /\ read_end = 0 /\ write_pos = 0
    /\ write_end \in IF type = "WRITE_CACHE" THEN 1 .. buffer_length ELSE {0}
    /\ error = 0
    /\ buffer = [i \in Memory |-> Unset]
    /\ file = [i \in Offsets |-> IF i < end_of_file THEN i ELSE Unset]
    /\ taken = end_of_file /\ consumed = 0 /\ last = Unset
-----------------------------------------------------------------------------
current_pos == IF type = "WRITE_CACHE" THEN write_pos ELSE read_pos
current_end == IF type = "WRITE_CACHE" THEN write_end ELSE read_end
request_pos == 0
my_b_tell == pos_in_file + (current_pos - request_pos)
my_b_get_bytes_in_buffer == read_end - request_pos
my_b_bytes_in_cache == current_end - current_pos
-----------------------------------------------------------------------------
(* mutant: the bytes are copied behind the place they belong to.           *)
memcpy_Displaced(n) == [i \in Memory |->
    IF write_pos < i /\ i <= write_pos + n THEN taken + (i - write_pos)
                                           ELSE buffer[i]]
(* Writing.  The bytes to come are numbered taken, taken + 1, ...          *)
memcpy(n) == [i \in Memory |->
    IF write_pos <= i /\ i < write_pos + n THEN taken + (i - write_pos)
                                           ELSE buffer[i]]
PutInBuffer(n) ==
    /\ buffer' = memcpy(n)
    /\ write_pos' = write_pos + n
    /\ taken' = taken + n

(* What stands at an offset of the stream, in the file, in the buffer or   *)
(* in the n bytes to come.                                                 *)
StreamAt(i) == IF i < pos_in_file THEN file[i]
               ELSE IF i < pos_in_file + write_pos THEN buffer[i - pos_in_file]
               ELSE taken + (i - (pos_in_file + write_pos))

(* write_function writes the buffer out, and perhaps some of the n bytes   *)
(* to come, and keeps the rest; the new end of the buffer depends on the   *)
(* alignment of the file position.  When the disk fails, what there was    *)
(* room for is in the buffer and the buffer stays as it is.                *)
write_function(n) ==
    \/ \E p \in pos_in_file + write_pos .. pos_in_file + write_pos + n,
          e \in 1 .. buffer_length :
          LET rest == pos_in_file + write_pos + n - p
          IN /\ rest <= e
             /\ file' = [i \in Offsets |-> IF i < p THEN StreamAt(i)
                                                    ELSE file[i]]
             /\ buffer' = [i \in Memory |-> IF i < rest THEN StreamAt(p + i)
                                                        ELSE buffer[i]]
             /\ pos_in_file' = p /\ write_pos' = rest /\ write_end' = e
             /\ taken' = taken + n
             /\ error' = 0
    \/ /\ LET room == my_b_bytes_in_cache
              k == IF room < 0 THEN 0 ELSE IF n < room THEN n ELSE room
          IN PutInBuffer(k)
       /\ error' = -1
       /\ UNCHANGED <<file, pos_in_file, write_end>>

Reading == <<type, end_of_file, read_pos, read_end, consumed, last>>

(* mutant: the end of the buffer is taken for a part of it.                *)
my_b_write_OneMore(n) ==
    /\ type = "WRITE_CACHE" /\ taken + n <= FileMax
    /\ IF write_pos + n <= write_end + 1
       THEN PutInBuffer(n) /\ UNCHANGED <<file, pos_in_file, write_end, error>>
       ELSE write_function(n)
    /\ UNCHANGED Reading
my_b_write(n) ==
    /\ type = "WRITE_CACHE" /\ taken + n <= FileMax
    /\ IF write_pos + n <= write_end
       THEN PutInBuffer(n) /\ UNCHANGED <<file, pos_in_file, write_end, error>>
       ELSE write_function(n)
    /\ UNCHANGED Reading

flush_io_cache ==
    type = "WRITE_CACHE" /\ write_function(0) /\ UNCHANGED Reading

(* The byte is stored whether or not the buffer could be written out; when *)
(* it could not, the byte lands behind the end.                            *)
my_b_write_byte ==
    /\ type = "WRITE_CACHE" /\ taken < FileMax
    /\ \/ /\ write_pos < write_end
          /\ PutInBuffer(1)
          /\ UNCHANGED <<file, pos_in_file, write_end, error>>
       \/ /\ write_pos >= write_end
          /\ \E e \in 1 .. buffer_length :
                /\ file' = [i \in Offsets |-> IF i < pos_in_file + write_pos
                                              THEN StreamAt(i) ELSE file[i]]
                /\ buffer' = [buffer EXCEPT ![0] = taken]
                /\ pos_in_file' = pos_in_file + write_pos
                /\ write_pos' = 1 /\ write_end' = e
          /\ taken' = taken + 1 /\ error' = 0
       \/ /\ write_pos >= write_end /\ write_pos \in Memory
          /\ PutInBuffer(1)
          /\ error' = -1
          /\ UNCHANGED <<file, pos_in_file, write_end>>
    /\ UNCHANGED Reading
-----------------------------------------------------------------------------
(* Reading.                                                                *)
Writing == <<type, end_of_file, write_pos, write_end, file, taken>>

Deliver(n) ==
    /\ consumed' = consumed + n
    /\ last' = IF n = 0 THEN last ELSE buffer[read_pos + n - 1]

(* read_function hands over n bytes more than the buffer has, and leaves   *)
(* some of the file behind them in the buffer; or fewer than n, at the end *)
(* of the file; or only what the buffer had, when the disk fails.          *)
Refill(from, size) ==
    /\ pos_in_file' = from /\ read_pos' = 0 /\ read_end' = size
    /\ buffer' = [i \in Memory |-> IF i < size THEN file[from + i]
                                               ELSE buffer[i]]
read_function(n) ==
    LET at == pos_in_file + read_pos
        left == my_b_bytes_in_cache
    IN \/ /\ at + n <= end_of_file
          /\ \E size \in 0 .. buffer_length :
                at + n + size <= end_of_file /\ Refill(at + n, size)
          /\ consumed' = consumed + n
          /\ last' = IF n = 0 THEN last ELSE file[at + n - 1]
          /\ error' = 0
       \/ /\ at + n > end_of_file
          /\ Refill(end_of_file, 0)
          /\ consumed' = consumed + (end_of_file - at)
          /\ last' = IF at = end_of_file THEN last ELSE file[end_of_file - 1]
          /\ error' = end_of_file - at
       \/ /\ Refill(pos_in_file + my_b_get_bytes_in_buffer, 0)
          /\ Deliver(left)
          /\ error' = -1

(* mutant: one byte more than the buffer has is read from it.              *)
my_b_read_OneMore(n) ==
    /\ type = "READ_CACHE"
    /\ IF read_pos + n <= read_end + 1
       THEN /\ read_pos' = read_pos + n
            /\ Deliver(n)
            /\ UNCHANGED <<pos_in_file, read_end, buffer, error>>
       ELSE read_function(n)
    /\ UNCHANGED Writing
my_b_read(n) ==
    /\ type = "READ_CACHE"
    /\ IF read_pos + n <= read_end
       THEN /\ read_pos' = read_pos + n
            /\ Deliver(n)
            /\ UNCHANGED <<pos_in_file, read_end, buffer, error>>
       ELSE read_function(n)
    /\ UNCHANGED Writing

my_b_get ==
    /\ type = "READ_CACHE"
    /\ IF read_pos # read_end
       THEN /\ read_pos' = read_pos + 1
            /\ Deliver(1)
            /\ UNCHANGED <<pos_in_file, read_end, buffer, error>>
       ELSE read_function(1)
    /\ UNCHANGED Writing

(* The unread bytes are given up and read again.                           *)
my_b_fill_cache ==
    /\ type = "READ_CACHE"
    /\ \/ \E size \in 0 .. buffer_length :
             /\ pos_in_file + read_pos + size <= end_of_file
             /\ Refill(pos_in_file + read_pos, size)
             /\ error' = 0
       \/ Refill(pos_in_file + read_pos, 0) /\ error' = -1
    /\ UNCHANGED <<Writing, consumed, last>>

(* reinit_io_cache: what was written is read from its beginning, unless    *)
(* the buffer cannot be written out.                                       *)
reinit_io_cache ==
    /\ type = "WRITE_CACHE"
    /\ \/ /\ file' = [i \in Offsets |-> IF i < pos_in_file + write_pos
                                        THEN StreamAt(i) ELSE file[i]]
          /\ type' = "READ_CACHE"
          /\ end_of_file' = pos_in_file + write_pos
          /\ pos_in_file' = 0 /\ write_pos' = 0 /\ write_end' = 0
          /\ error' = 0
       \/ /\ error' = -1
          /\ UNCHANGED <<type, file, end_of_file, pos_in_file, write_pos,
                         write_end>>
    /\ UNCHANGED <<read_pos, read_end, buffer, taken, consumed, last>>

Next ==
    \/ \E n \in 1 .. CountMax : my_b_write(n) \/ my_b_read(n)
    \/ my_b_write_byte
    \/ flush_io_cache
    \/ my_b_get
    \/ my_b_fill_cache
    \/ reinit_io_cache

Spec == Init /\ [][Next]_vars
-----------------------------------------------------------------------------
(* Every variable stays in its type.                                       *)
TypeOK ==
    /\ type \in cache_type
    /\ pos_in_file \in 0 .. FileMax /\ end_of_file \in 0 .. FileMax
    /\ read_pos \in 0 .. buffer_length /\ read_end \in 0 .. buffer_length
    /\ write_pos \in 0 .. buffer_length + Beyond
    /\ write_end \in 0 .. buffer_length
    /\ error \in -1 .. FileMax
    /\ buffer \in [Memory -> Int]
    /\ file \in [Offsets -> Int]
    /\ taken \in 0 .. FileMax /\ consumed \in 0 .. FileMax
    /\ last \in Int

(* No byte is lost, repeated or displaced on its way through the cache:    *)
(* the file holds the first bytes of the stream in their places, and the   *)
(* buffer the ones that follow them.                                       *)
StreamInOrder ==
    /\ \A i \in Offsets : i < (IF type = "WRITE_CACHE" THEN pos_in_file
                               ELSE end_of_file) => file[i] = i
    /\ \A i \in Memory : i < (IF type = "WRITE_CACHE" THEN write_pos
                              ELSE read_end) => buffer[i] = pos_in_file + i

(* my_b_tell() is the number of bytes written to, or read from, the        *)
(* stream, wherever the buffer stands and whatever has failed.             *)
TellIsTrue ==
    my_b_tell = IF type = "WRITE_CACHE" THEN taken ELSE consumed

(* The reader gets the bytes of the file one after the other.              *)
DeliveredInOrder == last = consumed - 1

(* Nothing is written behind the end of the buffer as long as writing it   *)
(* out works: only my_b_write_byte(), which checks no error, and only      *)
(* after one.                                                              *)
OverrunOnlyAfterError ==
    type = "WRITE_CACHE" /\ write_pos > write_end => error = -1
=============================================================================
