----------------------------- MODULE ByteOrder ------------------------------
(* The macros of my_global.h that store numbers in a row or a packet and   *)
(* read them back.  Two formats: the machine independent one, low byte     *)
(* first, which a server on another machine reads (intNstore, uintNkorr,   *)
(* sintNkorr, floatNstore, floatNget), and the machine's own (shortstore,  *)
(* longstore, ...).  A platform is one of the variants the header          *)
(* compiles: i386 and Windows write through a pointer where they can,      *)
(* "little" and "big" byte by byte, and on "mixed" the integers are little *)
(* endian while the two words of a double come high word first.            *)
EXTENDS Integers, Sequences

CONSTANTS
    Byte,       \* the values of a byte: 256, or fewer to keep numbers small
    Size,       \* bytes of the memory
    Fields,     \* bound: numbers stored in it
    Storable(_) \* the numbers of so many bytes that are stored

ASSUME ByteAssumption ==
    /\ Byte \in Nat /\ Byte > 1 /\ Byte % 2 = 0
    /\ Size \in Nat /\ Fields \in Nat

Platform == {"i386", "little", "big", "mixed"}
Addresses == 0 .. Size - 1

VARIABLES
    memory,     \* the content of the memory
    fields      \* the numbers stored so far: [at, kind, by, value]

storage == <<memory, fields>>
-----------------------------------------------------------------------------
(* A number of w bytes, and the bytes it is made of, lowest first.         *)
Power[k \in 0 .. 8] == IF k = 0 THEN 1 ELSE Byte * Power[k - 1]
Digit(v, k) == (v \div Power[k]) % Byte
Unsigned(w, v) == v % Power[w]
Signed(w, v) ==
    IF Unsigned(w, v) < Power[w] \div 2 THEN Unsigned(w, v)
                                        ELSE Unsigned(w, v) - Power[w]

(* The bytes of a variable of the platform, in the order of its memory,    *)
(* and the variable that has given bytes.                                  *)
BigEndian(p) == p = "big"
NativeInt(p, w, v) ==
    [i \in 0 .. w - 1 |-> Digit(v, IF BigEndian(p) THEN w - 1 - i ELSE i)]
NativeDouble(p, v) ==
    [i \in 0 .. 7 |-> Digit(v, CASE p = "big" -> 7 - i
                                 [] p = "mixed" -> (i + 4) % 8
                                 [] OTHER -> i)]
At(m, at, w) == [i \in 0 .. w - 1 |-> m[at + i]]
Value(bytes, order(_), w) ==
    LET sum[k \in 0 .. w] == IF k = 0 THEN 0
            ELSE sum[k - 1] + bytes[order(k - 1)] * Power[k - 1]
    IN sum[w]
Low(bytes, w) == LET up(i) == i IN Value(bytes, up, w)
High(bytes, w) == LET down(i) == w - 1 - i IN Value(bytes, down, w)
FromNativeInt(p, w, bytes) ==
    IF BigEndian(p) THEN High(bytes, w) ELSE Low(bytes, w)
FromNativeDouble(p, bytes) ==
    LET swapped(i) == (i + 4) % 8
    IN CASE p = "big" -> High(bytes, 8)
         [] p = "mixed" -> Value(bytes, swapped, 8)
         [] OTHER -> Low(bytes, 8)
-----------------------------------------------------------------------------
(* The machine independent format.                                         *)
Shifts(w, v) == [i \in 0 .. w - 1 |-> Digit(v, i)]

int8store(v) ==
    [i \in 0 .. 7 |-> IF i < 4 THEN Shifts(4, v)[i]
                               ELSE Shifts(4, v \div Power[4])[i - 4]]

(* i386 writes what it has a type for through a pointer.                   *)
i386_intstore(w, v) ==
    IF w \in {2, 4, 8} THEN NativeInt("i386", w, v) ELSE Shifts(w, v)

intstore(p, w, v) ==
    CASE p = "i386" -> i386_intstore(w, v)
      [] p # "i386" /\ w = 8 -> int8store(v)
      [] OTHER -> Shifts(w, v)

(* mutant: the fourth byte that was read with the three is not masked out. *)
uint3korr_Unmasked(p, m, at) ==
    IF p = "i386" THEN FromNativeInt(p, 4, At(m, at, 4))
                  ELSE Low(At(m, at, 3), 3)
(* On i386 four bytes are read, wherever the number lies.                  *)
uint3korr(p, m, at) ==
    IF p = "i386" THEN FromNativeInt(p, 4, At(m, at, 4)) % Power[3]
                  ELSE Low(At(m, at, 3), 3)
uint8korr(m, at) ==
    Low(At(m, at, 4), 4) + Low(At(m, at + 4, 4), 4) * Power[4]
i386_uintkorr(w, m, at) ==
    IF w \in {2, 4, 8} THEN FromNativeInt("i386", w, At(m, at, w))
                       ELSE Low(At(m, at, w), w)
uintkorr(p, w, m, at) ==
    CASE w = 3 -> uint3korr(p, m, at)
      [] w # 3 /\ p = "i386" -> i386_uintkorr(w, m, at)
      [] w = 8 /\ p # "i386" -> uint8korr(m, at)
      [] OTHER -> Low(At(m, at, w), w)

(* Three bytes with their sign: the fourth is all ones when the highest    *)
(* bit of the third is set.                                                *)
sint3korr(m, at) ==
    Signed(4, (IF m[at + 2] >= Byte \div 2 THEN (Byte - 1) * Power[3] ELSE 0)
              + Low(At(m, at, 3), 3))
i386_sintkorr(w, m, at) ==
    IF w = 3 THEN sint3korr(m, at)
             ELSE Signed(w, FromNativeInt("i386", w, At(m, at, w)))
sintkorr(p, w, m, at) ==
    CASE p = "i386" /\ w \in {2, 3, 4, 8} -> i386_sintkorr(w, m, at)
      [] p # "i386" /\ w = 3 -> sint3korr(m, at)
      [] OTHER -> Signed(w, uintkorr(p, w, m, at))

(* Floating point numbers, as the number their bytes make from the lowest. *)
float4store(p, v) == [i \in 0 .. 3 |->
    IF BigEndian(p) THEN NativeInt(p, 4, v)[3 - i] ELSE NativeInt(p, 4, v)[i]]
float4get(p, m, at) ==
    FromNativeInt(p, 4, [i \in 0 .. 3 |->
        IF BigEndian(p) THEN m[at + 3 - i] ELSE m[at + i]])

(* The machine's own format of a double, except that the words are swapped *)
(* where they are kept high word first.                                    *)
i386_doublestore(v) ==              \* as two words
    [i \in 0 .. 7 |-> IF i < 4 THEN NativeDouble("i386", v)[i]
                      ELSE NativeDouble("i386", v \div Power[4])[i - 4]]
doublestore(p, v) == [i \in 0 .. 7 |->
    IF p = "i386" THEN i386_doublestore(v)[i]
    ELSE IF p = "mixed" THEN NativeDouble(p, v)[(i + 4) % 8]
                   ELSE NativeDouble(p, v)[i]]
doubleget(p, m, at) ==
    FromNativeDouble(p, [i \in 0 .. 7 |->
        IF p = "mixed" THEN m[at + ((i + 4) % 8)] ELSE m[at + i]])
float8store(p, v) == [i \in 0 .. 7 |->
    IF BigEndian(p) THEN NativeDouble(p, v)[7 - i] ELSE doublestore(p, v)[i]]
float8get(p, m, at) ==
    IF BigEndian(p)
    THEN FromNativeDouble(p, [i \in 0 .. 7 |-> m[at + 7 - i]])
    ELSE doubleget(p, m, at)

(* Network byte order: four bytes, the highest first.                      *)
int4net(m, at) == Signed(4, High(At(m, at, 4), 4))
-----------------------------------------------------------------------------
(* The machine's own format, big endian or as above.                       *)
shortstore(p, v) == IF BigEndian(p)
    THEN [i \in 0 .. 1 |-> Digit(v, 1 - i)] ELSE intstore(p, 2, v)
ushortget(p, m, at) == IF BigEndian(p)
    THEN m[at + 1] + m[at] * Byte ELSE uintkorr(p, 2, m, at)
shortget(p, m, at) == IF BigEndian(p)
    THEN Signed(2, m[at + 1] + m[at] * Byte) ELSE sintkorr(p, 2, m, at)
longstore(p, v) == IF BigEndian(p)
    THEN [i \in 0 .. 3 |-> Digit(v, 3 - i)] ELSE intstore(p, 4, v)
ulongget(p, m, at) == IF BigEndian(p)
    THEN FromNativeInt(p, 4, At(m, at, 4)) ELSE uintkorr(p, 4, m, at)
longget(p, m, at) == IF BigEndian(p)
    THEN Signed(4, FromNativeInt(p, 4, At(m, at, 4))) ELSE sintkorr(p, 4, m, at)
floatstore(p, v) == NativeInt(p, 4, v)
floatget(p, m, at) == FromNativeInt(p, 4, At(m, at, 4))
longlongstore(p, v) == NativeInt(p, 8, v)
longlongget(p, m, at) == FromNativeInt(p, 8, At(m, at, 8))
-----------------------------------------------------------------------------
Portable == {"int2", "int3", "int4", "int5", "int6", "int8", "float4",
             "float8"}
Machine == {"short", "long", "float", "double", "longlong"}
Width(kind) ==
    CASE kind \in {"int2", "short"} -> 2
      [] kind = "int3" -> 3
      [] kind \in {"int4", "long", "float4", "float"} -> 4
      [] kind = "int5" -> 5
      [] kind = "int6" -> 6
      [] OTHER -> 8
(* uint3korr needs a fourth byte to read, as its comment says.             *)
Needs(kind) == IF kind = "int3" THEN 4 ELSE Width(kind)

StoreBytes(p, kind, v) ==
    CASE kind = "float4" -> float4store(p, v)
      [] kind = "float8" -> float8store(p, v)
      [] kind = "short" -> shortstore(p, v)
      [] kind = "long" -> longstore(p, v)
      [] kind = "float" -> floatstore(p, v)
      [] kind = "double" -> doublestore(p, v)
      [] kind = "longlong" -> longlongstore(p, v)
      [] OTHER -> intstore(p, Width(kind), v)

ASSUME StorableAssumption ==
    \A w \in 2 .. 8 : Storable(w) \subseteq 0 .. Power[w] - 1

StoreInit == memory = [a \in Addresses |-> 0] /\ fields = <<>>
Store(p, kind, at, v) ==
    /\ LET bytes == StoreBytes(p, kind, v)
       IN memory' = [a \in Addresses |->
            IF a \in at .. at + Width(kind) - 1 THEN bytes[a - at] ELSE memory[a]]
    /\ fields' = Append(fields, [at |-> at, kind |-> kind, by |-> p, value |-> v])
StoreNext ==
    /\ Len(fields) < Fields
    /\ \E kind \in Portable \union Machine, p \in Platform, at \in Addresses :
          /\ at + Needs(kind) <= Size
          /\ \E v \in Storable(Width(kind)) : Store(p, kind, at, v)

StoreSpec == StoreInit /\ [][StoreNext]_storage
-----------------------------------------------------------------------------
(* The numbers no later one was stored over.                               *)
Intact == {k \in DOMAIN fields : \A j \in k + 1 .. Len(fields) :
    \/ fields[k].at + Width(fields[k].kind) <= fields[j].at
    \/ fields[j].at + Width(fields[j].kind) <= fields[k].at}

(* A number stored on any platform in the machine independent format is    *)
(* read back on every other, with its sign where it has one, whatever is   *)
(* stored beside it.                                                       *)
PortableReadsBack == \A k \in Intact, q \in Platform :
    LET f == fields[k]
        w == Width(f.kind)
        integer == f.kind \in Portable \ {"float4", "float8"}
    IN /\ f.kind = "float4" => float4get(q, memory, f.at) = f.value
       /\ f.kind = "float8" => float8get(q, memory, f.at) = f.value
       /\ integer => uintkorr(q, w, memory, f.at) = f.value
       /\ integer /\ f.kind \notin {"int5", "int6"} =>
            sintkorr(q, w, memory, f.at) = Signed(w, f.value)

(* A number stored in the machine's own format is read back on the machine *)
(* that stored it, and lies in its memory as a variable would: a pointer   *)
(* to a short or a long may be laid over it.  On a big endian machine it   *)
(* is in network byte order as well.                                       *)
MachineReadsBack == \A k \in Intact :
    LET f == fields[k]
        p == f.by
        w == Width(f.kind)
        bytes == At(memory, f.at, w)
    IN CASE f.kind = "short" ->
                /\ ushortget(p, memory, f.at) = f.value
                /\ shortget(p, memory, f.at) = Signed(w, f.value)
                /\ bytes = NativeInt(p, w, f.value)
         [] f.kind = "long" ->
                /\ ulongget(p, memory, f.at) = f.value
                /\ longget(p, memory, f.at) = Signed(w, f.value)
                /\ bytes = NativeInt(p, w, f.value)
                /\ BigEndian(p) => int4net(memory, f.at) = Signed(w, f.value)
         [] f.kind = "float" -> floatget(p, memory, f.at) = f.value
         [] f.kind = "double" ->
                /\ doubleget(p, memory, f.at) = f.value
                /\ p # "mixed" => bytes = NativeDouble(p, f.value)
         [] f.kind = "longlong" -> longlongget(p, memory, f.at) = f.value
         [] OTHER -> TRUE

(* Whoever stores a number in a row or packet, in whichever of the two     *)
(* formats, whoever is meant to read it gets the number.                   *)
NumbersReadBack == PortableReadsBack /\ MachineReadsBack
=============================================================================
