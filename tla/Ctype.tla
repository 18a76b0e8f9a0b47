------------------------------- MODULE Ctype --------------------------------
(* The character macros of m_ctype.h.  A char is signed on one machine and *)
(* not on another, and the tables of a character set are indexed by it:    *)
(* ctype has 257 entries, the first one for EOF, the others 256.  Two-byte *)
(* characters are put into a string from tables that one machine keeps in  *)
(* the other byte order.  A program classifies, converts and puts one      *)
(* character after the other.                                              *)
EXTENDS Integers

CONSTANT Codes          \* two-byte characters, below 65536

ASSUME CodeAssumption == \A code \in Codes : code \in Nat /\ code < 65536

VARIABLES
    signed,         \* is a char signed?
    i386,           \* is the machine an i386, which stores the low byte first?
    byte,           \* the character asked about, as it is in the string
    query,          \* the macro
    answer          \* and its result

characters == <<signed, i386, byte, query, answer>>

MY_CS_CTYPE_TABLE_SIZE == 257
MY_CS_TO_UPPER_TABLE_SIZE == 256
_MY_U == {0}
_MY_L == {1}
_MY_NMR == {2}
_MY_SPC == {3}
_MY_PNT == {4}
_MY_CTR == {5}
_MY_B == {6}
_MY_X == {7}

(* The tables of a character set of one byte with letters in both halves.  *)
Letters(first) == first .. first + 25
Accented(first) == first .. first + 30
Class(b) ==
    CASE b \in Letters(65) -> _MY_U \cup IF b < 71 THEN _MY_X ELSE {}
      [] b \in Letters(97) -> _MY_L \cup IF b < 103 THEN _MY_X ELSE {}
      [] b \in Accented(192) -> _MY_U
      [] b \in Accented(224) -> _MY_L
      [] b \in 48 .. 57 -> _MY_NMR \cup _MY_X
      [] b = 32 -> _MY_SPC \cup _MY_B
      [] b \in 9 .. 13 -> _MY_SPC \cup _MY_CTR
      [] b \in (0 .. 31 \ 9 .. 13) \cup {127} -> _MY_CTR
      [] OTHER -> _MY_PNT
ctype == [i \in 0 .. MY_CS_CTYPE_TABLE_SIZE - 1 |->
            IF i = 0 THEN {} ELSE Class(i - 1)]
to_upper == [i \in 0 .. MY_CS_TO_UPPER_TABLE_SIZE - 1 |->
    IF i \in Letters(97) \cup Accented(224) THEN i - 32 ELSE i]
to_lower == [i \in 0 .. MY_CS_TO_UPPER_TABLE_SIZE - 1 |->
    IF i \in Letters(65) \cup Accented(192) THEN i + 32 ELSE i]
-----------------------------------------------------------------------------
(* A byte of a string as a char, and the conversions of C.                 *)
char(b) == IF signed /\ b > 127 THEN b - 256 ELSE b
uchar(c) == c % 256

(* Outside the table there is anything, every bit set for example.         *)
Entry(i) == IF i \in DOMAIN ctype THEN ctype[i] ELSE 0 .. 7
(* mutant: the character is not converted first.                           *)
ClassBits_Signed(c) == Entry(1 + c)
ClassBits(c) == Entry(1 + uchar(c))
HasAny(c, mask) == ClassBits(c) \cap mask # {}

my_isascii(c) == c \in 0 .. 127         \* no other bit, nor the sign
my_toascii(c) == c % 128
my_toupper(c) == char(to_upper[uchar(c)])
my_tolower(c) == char(to_lower[uchar(c)])
my_isalpha(c) == HasAny(c, _MY_U \cup _MY_L)
my_isupper(c) == HasAny(c, _MY_U)
my_islower(c) == HasAny(c, _MY_L)
my_isdigit(c) == HasAny(c, _MY_NMR)
my_isxdigit(c) == HasAny(c, _MY_X)
my_isalnum(c) == HasAny(c, _MY_U \cup _MY_L \cup _MY_NMR)
my_isspace(c) == HasAny(c, _MY_SPC)
my_ispunct(c) == HasAny(c, _MY_PNT)
my_isprint(c) == HasAny(c, _MY_PNT \cup _MY_U \cup _MY_L \cup _MY_NMR \cup _MY_B)
my_isgraph(c) == HasAny(c, _MY_PNT \cup _MY_U \cup _MY_L \cup _MY_NMR)
my_iscntrl(c) == HasAny(c, _MY_CTR)
my_isvar(c) == my_isalnum(c) \/ c = 95
my_isvar_start(c) == my_isalpha(c) \/ c = 95

(* The tables of an i386 hold the bytes of a code swapped.                 *)
MB2(x) == IF i386 THEN (x \div 256) + 256 * (x % 256) ELSE x
MY_PUT_MB2(code) == IF i386 THEN <<code % 256, code \div 256>>
                            ELSE <<code \div 256, code % 256>>
-----------------------------------------------------------------------------
CtypeInit ==
    /\ signed \in BOOLEAN /\ i386 \in BOOLEAN
    /\ byte = 0 /\ query = "none" /\ answer = 0

Queried(b, q, result) ==
    /\ byte' = b /\ query' = q /\ answer' = result
    /\ UNCHANGED <<signed, i386>>
Classify(b) ==
    \/ Queried(b, "isascii", my_isascii(char(b)))
    \/ Queried(b, "isalpha", my_isalpha(char(b)))
    \/ Queried(b, "isupper", my_isupper(char(b)))
    \/ Queried(b, "islower", my_islower(char(b)))
    \/ Queried(b, "isdigit", my_isdigit(char(b)))
    \/ Queried(b, "isxdigit", my_isxdigit(char(b)))
    \/ Queried(b, "isalnum", my_isalnum(char(b)))
    \/ Queried(b, "isspace", my_isspace(char(b)))
    \/ Queried(b, "ispunct", my_ispunct(char(b)))
    \/ Queried(b, "isprint", my_isprint(char(b)))
    \/ Queried(b, "isgraph", my_isgraph(char(b)))
    \/ Queried(b, "iscntrl", my_iscntrl(char(b)))
    \/ Queried(b, "isvar", my_isvar(char(b)))
    \/ Queried(b, "isvar_start", my_isvar_start(char(b)))
Convert(b) ==
    \/ Queried(b, "toupper", my_toupper(char(b)))
    \/ Queried(b, "tolower", my_tolower(char(b)))
    \/ Queried(b, "toascii", my_toascii(char(b)))
Put(code) == Queried(code, "put", MY_PUT_MB2(MB2(code)))

CtypeNext == /\ query = "none"
             /\ \/ \E b \in 0 .. 255 : Classify(b) \/ Convert(b)
                \/ \E code \in Codes : Put(code)

CtypeSpec == CtypeInit /\ [][CtypeNext]_characters
-----------------------------------------------------------------------------
(* What the queries are about.                                             *)
Meaning == [
    isalpha |-> _MY_U \cup _MY_L, isupper |-> _MY_U, islower |-> _MY_L,
    isdigit |-> _MY_NMR, isxdigit |-> _MY_X, isspace |-> _MY_SPC,
    isalnum |-> _MY_U \cup _MY_L \cup _MY_NMR, ispunct |-> _MY_PNT,
    isprint |-> _MY_PNT \cup _MY_U \cup _MY_L \cup _MY_NMR \cup _MY_B,
    isgraph |-> _MY_PNT \cup _MY_U \cup _MY_L \cup _MY_NMR,
    iscntrl |-> _MY_CTR]

(* A character is classified and converted as the byte it is, in the upper *)
(* half too and whether a char is signed or not.                           *)
CharactersAsBytes ==
    /\ query \in DOMAIN Meaning => (answer <=> Class(byte) \cap Meaning[query] # {})
    /\ query = "isascii" => (answer <=> byte < 128)
    /\ query = "isvar" => 
         (answer <=> \/ Class(byte) \cap (_MY_U \cup _MY_L \cup _MY_NMR) # {}
                     \/ byte = 95)
    /\ query = "isvar_start" =>
         (answer <=> Class(byte) \cap (_MY_U \cup _MY_L) # {} \/ byte = 95)
    /\ query = "toupper" => uchar(answer) = to_upper[byte]
    /\ query = "tolower" => uchar(answer) = to_lower[byte]
    /\ query = "toascii" => answer = byte % 128

(* A two-byte character gets into a string with its high byte first, from  *)
(* the tables of either machine.                                           *)
HighByteFirst == query = "put" => answer = <<byte \div 256, byte % 256>>

(* The macros of m_ctype.h treat a character as the byte, or the two       *)
(* bytes, that it is, whatever the machine makes of a char and a word.     *)
CharactersTrue == CharactersAsBytes /\ HighByteFirst
=============================================================================
