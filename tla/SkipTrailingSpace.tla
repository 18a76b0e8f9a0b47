------------------------- MODULE SkipTrailingSpace --------------------------
(* skip_trailing_space() of m_string.h: the end of a string without the    *)
(* spaces behind it, looked for byte by byte outside the aligned words and *)
(* word by word inside.  A string is the addresses ptr .. ptr + len - 1;   *)
(* of its bytes it only matters which are spaces.                          *)
EXTENDS Integers

CONSTANTS
    SIZEOF_INT,     \* bytes of a word
    Barrier,        \* strings up to this length are not read by words: 20
    MaxLen          \* bound: length of a string

ASSUME WordAssumption ==
    /\ SIZEOF_INT \in {4, 8}
    /\ Barrier \in Nat /\ MaxLen \in Nat

VARIABLES
    ptr, len,       \* the arguments
    spaces,         \* the addresses of the string that hold a space
    end,            \* the end found so far
    loop            \* the loop the function is in

trim == <<ptr, len, spaces, end, loop>>

end_words == ((ptr + len) \div SIZEOF_INT) * SIZEOF_INT
start_words == ((ptr + SIZEOF_INT - 1) \div SIZEOF_INT) * SIZEOF_INT

TrimInit == /\ ptr = SIZEOF_INT /\ len = 0 /\ spaces = {}
            /\ end = ptr /\ loop = "idle"

(* The call.  The function asserts that ptr >= SIZEOF_INT; beyond that     *)
(* only its place in a word matters.                                       *)
Enter(p, l, s) ==
    /\ ptr' = p /\ len' = l /\ spaces' = s
    /\ end' = p + l
    /\ loop' = IF l > Barrier /\ end_words' > p THEN "tail" ELSE "bytes"

TailBytes ==
    /\ loop = "tail"
    /\ IF end > end_words /\ end - 1 \in spaces
       THEN end' = end - 1 /\ UNCHANGED loop
       ELSE /\ loop' = IF end - 1 \in spaces /\ start_words < end_words
                       THEN "words" ELSE "bytes"
            /\ UNCHANGED end
    /\ UNCHANGED <<ptr, len, spaces>>

(* mutant: only the last byte of the word is looked at.                    *)
IsSpaceInt_LastByte(word) == word + SIZEOF_INT - 1 \in spaces
IsSpaceInt(word) == word .. word + SIZEOF_INT - 1 \subseteq spaces
WholeWords ==
    /\ loop = "words"
    /\ IF end > start_words /\ IsSpaceInt(end - SIZEOF_INT)
       THEN end' = end - SIZEOF_INT /\ UNCHANGED loop
       ELSE loop' = "bytes" /\ UNCHANGED end
    /\ UNCHANGED <<ptr, len, spaces>>

LeadBytes ==
    /\ loop = "bytes"
    /\ IF end > ptr /\ end - 1 \in spaces
       THEN end' = end - 1 /\ UNCHANGED loop
       ELSE loop' = "done" /\ UNCHANGED end
    /\ UNCHANGED <<ptr, len, spaces>>

TrimReturn ==
    /\ loop = "done" /\ loop' = "idle"
    /\ ptr' = SIZEOF_INT /\ len' = 0 /\ spaces' = {} /\ end' = ptr'

TrimNext ==
    \/ loop = "idle" /\
          \E p \in SIZEOF_INT .. 2 * SIZEOF_INT - 1, l \in 0 .. MaxLen :
              \E s \in SUBSET (p .. p + l - 1) : Enter(p, l, s)
    \/ TailBytes
    \/ WholeWords
    \/ LeadBytes
    \/ TrimReturn

TrimSpec == TrimInit /\ [][TrimNext]_trim
-----------------------------------------------------------------------------
String == ptr .. ptr + len - 1

TrimTypeOK ==
    /\ ptr \in SIZEOF_INT .. 2 * SIZEOF_INT - 1 /\ len \in 0 .. MaxLen
    /\ spaces \subseteq String
    /\ end \in ptr .. ptr + len
    /\ loop \in {"idle", "tail", "words", "bytes", "done"}

(* Every byte and every word the loops are about to read lies in the       *)
(* string, and words are read where words are aligned.                     *)
ReadsInside ==
    /\ loop = "tail" => end - 1 \in String
    /\ loop = "words" /\ end > start_words =>
          /\ end - SIZEOF_INT \in String /\ end - 1 \in String
          /\ end % SIZEOF_INT = 0

(* The pointer returned stands behind the last byte that is no space, or   *)
(* at the start of a string of spaces.                                     *)
TrimmedExactly ==
    loop = "done" =>
        /\ end .. ptr + len - 1 \subseteq spaces
        /\ end = ptr \/ end - 1 \notin spaces
=============================================================================
