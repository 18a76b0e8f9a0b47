------------------------------ MODULE Numbers -------------------------------
(* The conversions and classifications of numbers that my_global.h writes  *)
(* itself where the platform has none, or a wrong one.  A double has DIG   *)
(* digits of precision, and a number is counted in quarters, so that the   *)
(* halves that rounding is about, and the rounding of what has too many    *)
(* digits, both show; an integer has Bits bits.                            *)
EXTENDS Integers

CONSTANTS
    DIG,            \* DBL_MANT_DIG
    Bits            \* of an unsigned long long

ASSUME NumberAssumption == DIG \in Nat \ {0, 1} /\ Bits \in Nat /\ Bits > DIG

VARIABLES
    call,           \* the function called, or "none"
    given,          \* its argument, and for my_isinf the build
    returned        \* its result

numbers == <<call, given, returned>>

(* The powers of two.                                                      *)
TwoTo[n \in Nat] == IF n = 0 THEN 1 ELSE 2 * TwoTo[n - 1]

Doubles == {0} \cup {s * n * TwoTo[e] : s \in {-1, 1}, n \in 1 .. TwoTo[DIG] - 1,
                                   e \in 0 .. Bits + 2 - DIG}
Whole(q) == q % 4 = 0
(* The double next to a number, the even one of two.                       *)
Even(q) == \E n \in 0 .. TwoTo[DIG - 1] - 1, e \in 0 .. Bits + 3 - DIG :
              q = 2 * n * TwoTo[e] \/ q = TwoTo[Bits + 2]
Distance(a, b) == IF a > b THEN a - b ELSE b - a
Nonnegative == {d \in Doubles : d >= 0} \cup {TwoTo[Bits + 2]}
Nearest(q) ==
    LET least == CHOOSE m \in {Distance(q, d) : d \in Nonnegative} :
                    \A d \in Nonnegative : m <= Distance(q, d)
        near == {d \in Nonnegative : Distance(q, d) = least}
    IN CHOOSE d \in near : (\E e \in near : Even(e)) => Even(d)
double(q) == IF q < 0 THEN -Nearest(-q) ELSE Nearest(q)

NumberInit == call = "none" /\ given = 0 /\ returned = 0
Call(f, x, result) ==
    /\ call = "none" /\ call' = f /\ given' = x /\ returned' = result
-----------------------------------------------------------------------------
MAX_EXACT_INTEGER == 4 * (TwoTo[DIG] - 1)
(* The integer part of modf, and whether C's remainder by 2 is not zero.   *)
Truncated(x) == IF x < 0 THEN -(4 * ((-x) \div 4)) ELSE 4 * (x \div 4)
Odd(i) == (i \div 4) % 2 = 1

rint(x) ==
    LET i == Truncated(x)
        f == x - i
    IN IF x > 0
       THEN i + IF f > 2 \/ (f = 2 /\ i <= MAX_EXACT_INTEGER /\ Odd(i))
                THEN 4 ELSE 0
       ELSE i - IF f < -2 \/ (f = -2 /\ i >= -MAX_EXACT_INTEGER /\ Odd(i))
                THEN 4 ELSE 0

(* The compiler cannot convert an unsigned number: what looks negative is  *)
(* converted as such and 2^Bits added.                                     *)
(* mutant: it is not added.                                                *)
my_ulonglong2double_Signed(v) ==
    LET nr == IF v < TwoTo[Bits - 1] THEN v ELSE v - TwoTo[Bits]
    IN double(4 * nr)
my_ulonglong2double(v) ==
    LET nr == IF v < TwoTo[Bits - 1] THEN v ELSE v - TwoTo[Bits]
    IN IF nr >= 0 THEN double(4 * nr) ELSE double(TwoTo[Bits + 2] + double(4 * nr))

(* Converting back, the other way round.                                   *)
my_double2ulonglong(d) ==
    LET t == d - TwoTo[Bits + 1]
    IN IF t >= 0 THEN ((t \div 4) + TwoTo[Bits - 1]) % TwoTo[Bits] ELSE d \div 4

CallRint == \E x \in Doubles : Call("rint", x, rint(x))
CallFromInteger == \E v \in 0 .. TwoTo[Bits] - 1 :
    Call("ulonglong2double", v, my_ulonglong2double(v))
CallToInteger == \E d \in Nonnegative \ {TwoTo[Bits + 2]} :
    Call("double2ulonglong", d, my_double2ulonglong(d))
-----------------------------------------------------------------------------
(* The classes of doubles: "wide" is a number beyond the doubles that an   *)
(* 80-bit register still holds, and that is infinite once it is stored.    *)
Classes == {"nan", "infinite", "wide", "zero", "finite"}
Stored(x) == IF x = "wide" THEN "infinite" ELSE x
isnan(x) == x = "nan"       \* (x) != (x)

(* What a build knows: which functions configure has found, whether        *)
(* isfinite is a macro, and the language.                                  *)
Builds == SUBSET {"isfinite", "HAVE_FINITE", "HAVE_ISINF",
                  "HAVE_BROKEN_ISINF", "__cplusplus"}
(* Where isfinite is a macro the header defines no finite.                 *)
HasFinite(build) == "isfinite" \notin build \/ "HAVE_FINITE" \in build
(* 1.0 / fabs(x) > 0.0, or a function of the platform: the answers they    *)
(* may give, as they see the register or what it is stored as.             *)
finite(x) == {seen \notin {"nan", "infinite"} : seen \in {x, Stored(x)}}

(* The isinf of the platform looks at the register where it is broken,     *)
(* which only C compilers are.                                             *)
isinf(x, broken) == IF broken THEN x = "infinite" ELSE Stored(x) = "infinite"

my_isinf(x, build) ==
    LET broken == "HAVE_BROKEN_ISINF" \in build /\ "__cplusplus" \notin build
    IN IF "HAVE_ISINF" \in build
       THEN {isinf(IF broken THEN Stored(x) ELSE x, broken)}
       ELSE {~f /\ ~isnan(x) : f \in finite(x)}
CallIsinf == \E x \in Classes, build \in Builds :
    /\ "HAVE_ISINF" \in build \/ HasFinite(build)
    /\ \E result \in my_isinf(x, build) :
          Call("my_isinf", [x |-> x, build |-> build], result)

NumberNext == CallRint \/ CallFromInteger \/ CallToInteger \/ CallIsinf

NumberSpec == NumberInit /\ [][NumberNext]_numbers
-----------------------------------------------------------------------------
(* rint rounds to the nearest integer, and a half to the even one, for     *)
(* small numbers and for those whose neighbours are further apart than 1.  *)
RoundedToEven == call = "rint" =>
    /\ Whole(returned) /\ returned \in Doubles
    /\ Distance(given, returned) <= 2
    /\ Distance(given, returned) = 2 => (returned \div 4) % 2 = 0

(* A number that a double can hold comes back as it was through both       *)
(* conversions, the upper half of the unsigned numbers included; one that  *)
(* needs more digits becomes one of the two doubles next to it.            *)
UnsignedKept ==
    /\ call = "ulonglong2double" =>
         /\ 4 * given \in Doubles => /\ returned = 4 * given
                                     /\ my_double2ulonglong(returned) = given
         /\ ~\E d \in Nonnegative :
               \/ 4 * given < d /\ d < returned
               \/ returned < d /\ d < 4 * given
    /\ call = "double2ulonglong" => returned = given \div 4

(* my_isinf is true of what is infinite as a double, in every build that   *)
(* compiles: with the platform's isinf, around a broken one, and without   *)
(* any, where one mistake is possible: a number that only a register can   *)
(* hold may be taken for finite.                                           *)
InfinityFound == call = "my_isinf" =>
    \/ returned <=> Stored(given.x) = "infinite"
    \/ given.x = "wide" /\ "HAVE_ISINF" \notin given.build /\ ~returned

(* The replacements in my_global.h compute what the functions they stand   *)
(* for promise: rint, the conversions of unsigned numbers, and isinf.      *)
NumbersTrue == RoundedToEven /\ UnsignedKept /\ InfinityFound
=============================================================================
