------------------------------- MODULE Widths -------------------------------
(* The integer types of my_global.h and the alignments of my_compiler.h,   *)
(* which it includes.  The widths follow from the SIZEOF_ macros of        *)
(* my_config.h, which was made for one machine, while the header is        *)
(* compiled for another where one build serves several architectures.  The *)
(* alignments follow from the compiler, and from what my_attribute.h does  *)
(* to it afterwards.  m_string.h, which is read last, picks the functions  *)
(* that copy, fill and convert from what both have found.                  *)
EXTENDS Naturals, TLC

VARIABLES
    system,         \* what the compiler says it is compiling for
    machine,        \* the sizes the compiler really uses
    known,          \* the macros defined so far, with their values
    types,          \* the types defined so far, with their widths
    aligned,        \* the alignment my_alignment_imp has, per one asked for
    rejected,       \* has the header stopped the compilation?
    line            \* the block of the header that is read next

headers == <<system, machine, known, types, aligned, rejected, line>>

Sizes(l, p, o, big) == [INT |-> 4, LONG |-> l, LONG_LONG |-> 8, CHARP |-> p,
                        OFF_T |-> o, big |-> big]
(* Windows; Cygwin, which looks like Windows; Mac OS X; other Unix.        *)
Machines == [
    win |-> {Sizes(4, 4, 4, FALSE), Sizes(4, 8, 4, FALSE)},
    cygwin |-> {Sizes(4, 4, 4, FALSE), Sizes(4, 4, 8, FALSE)},
    apple |-> {Sizes(4, 4, 8, b) : b \in BOOLEAN} \cup
              {Sizes(8, 8, 8, b) : b \in BOOLEAN},
    unix |-> {Sizes(l, l, o, b) : l \in {4, 8}, o \in {4, 8}, b \in BOOLEAN}]
Architecture(m) ==
    CASE m.CHARP = 4 /\ ~m.big -> {"__i386__"}
      [] m.CHARP = 8 /\ ~m.big -> {"__x86_64__"}
      [] m.CHARP = 4 /\ m.big -> {"__ppc__"}
      [] OTHER -> {"__ppc64__"}
Announced == [
    win |-> {"_WIN32"}, cygwin |-> {"_WIN32", "__CYGWIN__"},
    apple |-> {"__APPLE__"}, unix |-> {}]

(* What a compiler says of itself, in C and in C++ (cxx), before and after *)
(* the versions the headers ask for.                                       *)
Gnu(major, minor) == "__GNUC__" :> major @@ "__GNUC_MINOR__" :> minor
Gnus == {Gnu(2, 95), Gnu(3, 3), Gnu(3, 4), Gnu(4, 5),
         "__INTEL_COMPILER" :> 1100 @@ Gnu(4, 5)}
Compilers(cxx) == [
    win |-> {"_MSC_VER" :> 1500}, cygwin |-> Gnus, apple |-> Gnus,
    unix |-> Gnus \cup
        {(IF cxx THEN "__SUNPRO_CC" ELSE "__SUNPRO_C") :> v : v \in {1408, 1424}}
        \cup {"__xlC__" :> v @@ "_AIX" :> 1 : v \in {1280, 1536}} \cup
        {(IF cxx THEN "__HP_aCC" ELSE "__HP_cc") :> v : v \in {59999, 60000}}]
(* How a double is aligned in a structure, at the least.                   *)
DoubleAlignment(m) == m.CHARP
Alignments == {1, 2, 4, 8, 16}

Knows(name) == name \in DOMAIN known
Flags(names) == [n \in names |-> 1]
(* What my_config.h says: the sizes and byte order of the machine it was   *)
(* made on, which is this one except where a build has several, and what   *)
(* configure has found there.                                              *)
Found == {{"HAVE_MEMCPY", "HAVE_MEMMOVE"} \cup f : f \in SUBSET
              {"HAVE_STPCPY", "HAVE_STRTOULL", "NO_STRTOLL_PROTO",
               "NO_CLIENT_LONG_LONG"}} \cup
         SUBSET {"HAVE_MEMCPY", "HAVE_MEMMOVE", "HAVE_BFILL", "HAVE_BZERO",
                 "HAVE_DECL_BZERO"}
my_config(m) ==
    "SIZEOF_INT" :> m.INT @@ "SIZEOF_LONG" :> m.LONG @@
    "SIZEOF_LONG_LONG" :> m.LONG_LONG @@ "SIZEOF_CHARP" :> m.CHARP @@
    "SIZEOF_OFF_T" :> m.OFF_T @@
    Flags(IF m.big THEN {"WORDS_BIGENDIAN"} ELSE {})

WidthInit ==
    /\ system \in DOMAIN Machines /\ machine \in Machines[system]
    /\ \E arch \in {{}, Architecture(machine)}, cxx \in BOOLEAN :
          \E compiler \in Compilers(cxx)[system] :
             known = compiler @@ Flags(
                         Announced[system] \cup
                         (IF system = "apple" THEN arch ELSE {}) \cup
                         (IF cxx THEN {"__cplusplus"} ELSE {}))
    /\ types = [t \in {} |-> 0] /\ aligned = types /\ rejected = FALSE /\ line = 1

(* A block defines macros, or types, or stops the compilation.             *)
Block(n) == line = n /\ ~rejected /\ line' = n + 1 /\ UNCHANGED <<system, machine>>
Macros(defined) ==
    known' = defined @@ known /\ UNCHANGED <<types, aligned, rejected>>
Types(defined) ==
    types' = defined @@ types /\ UNCHANGED <<known, aligned, rejected>>
Error == rejected' = TRUE /\ UNCHANGED <<known, types, aligned>>
-----------------------------------------------------------------------------
WIN == Block(1) /\ Macros(IF Knows("_WIN32") THEN "__WIN__" :> 1 ELSE Flags({}))

CYGWIN ==
    /\ Block(2)
    /\ known' = [n \in DOMAIN known \ (IF Knows("__CYGWIN__")
                                       THEN {"_WIN32", "__WIN__"} ELSE {}) |->
                    known[n]]
    /\ UNCHANGED <<types, aligned, rejected>>

include_my_config ==
    /\ Block(3)
    /\ \E m \in (IF system = "apple" THEN Machines[system] ELSE {machine}),
          found \in Found : Macros(my_config(m) @@ Flags(found))

win_off_t ==
    /\ Block(4)
    /\ Macros(IF Knows("_WIN32") THEN "SIZEOF_OFF_T" :> 8 ELSE Flags({}))

universal_binary ==
    LET arch == {"__i386__", "__ppc__", "__x86_64__", "__ppc64__"} \cap
                DOMAIN known
        word == IF arch \cap {"__i386__", "__ppc__"} # {} THEN 4 ELSE 8
        kept == [n \in DOMAIN known \ {"WORDS_BIGENDIAN"} |-> known[n]]
    IN /\ Block(5)
       /\ IF Knows("__APPLE__")
          THEN IF arch = {} THEN Error
               ELSE /\ known' = "SIZEOF_INT" :> 4 @@ "SIZEOF_LONG_LONG" :> 8 @@
                          "SIZEOF_OFF_T" :> 8 @@ "SIZEOF_CHARP" :> word @@
                          "SIZEOF_LONG" :> word @@
                          Flags(IF arch \cap {"__ppc__", "__ppc64__"} # {}
                                THEN {"WORDS_BIGENDIAN"} ELSE {}) @@ kept
                    /\ UNCHANGED <<types, aligned, rejected>>
          ELSE Macros(Flags({}))

-----------------------------------------------------------------------------
(* my_compiler.h.  A name that is not defined counts as 0 in an #if.       *)
MacroValue(name) == IF Knows(name) THEN known[name] ELSE 0
MY_GNUC_PREREQ(major, minor) ==
    Knows("__GNUC__") /\ \/ known["__GNUC__"] > major
                         \/ /\ known["__GNUC__"] = major
                            /\ known["__GNUC_MINOR__"] >= minor

compiler_features ==
    /\ Block(6)
    /\ Macros(
         CASE Knows("__GNUC__") ->
                Flags({"MY_ALIGN_EXT"}) @@
                IF MY_GNUC_PREREQ(4, 5)
                THEN "MY_ASSERT_UNREACHABLE" :> "__builtin_unreachable"
                ELSE Flags({})
           [] Knows("_MSC_VER") ->
                "MY_ALIGNOF" :> "__alignof" @@ "MY_ALIGNED" :> "__declspec"
           [] OTHER ->
                Flags(IF \/ MacroValue("__SUNPRO_C") >= 1424
                         \/ MacroValue("__xlC__") >= 1536
                         \/ MacroValue("__HP_aCC") >= 60000
                         \/ MacroValue("__HP_cc") >= 60000
                      THEN {"MY_ALIGN_EXT"} ELSE {}))

MY_ALIGN_EXT ==
    /\ Block(7)
    /\ Macros(IF Knows("MY_ALIGN_EXT")
              THEN "MY_ALIGNOF" :> "__alignof__" @@
                   "MY_ALIGNED" :> "__attribute__"
              ELSE Flags({}))

(* What is already defined stays.                                          *)
Default(defined) == Macros(known @@ defined)
generic_features ==
    /\ Block(8)
    /\ Default("MY_ALIGNOF" :> "offsetof" @@ "MY_ASSERT_UNREACHABLE" :> "assert")

(* What MY_ALIGNED(n) gives where it is expanded now: an attribute that    *)
(* has itself become a macro is gone.                                      *)
MY_ALIGNED(n) ==
    IF \/ known["MY_ALIGNED"] = "nothing"
       \/ known["MY_ALIGNED"] = "__attribute__" /\ Knows("__attribute__")
    THEN 1 ELSE n

my_alignment_imp ==
    /\ Block(9)
    /\ aligned' = CASE ~Knows("__cplusplus") -> aligned
                    [] Knows("__cplusplus") /\ Knows("MY_ALIGNED") ->
                         [a \in Alignments |-> MY_ALIGNED(a)]
                    [] OTHER -> [a \in Alignments |-> DoubleAlignment(machine)]
    /\ UNCHANGED <<known, types, rejected>>

no_MY_ALIGNED == Block(10) /\ Default("MY_ALIGNED" :> "nothing")

(* my_attribute.h, at the end of my_compiler.h.                            *)
my_attribute ==
    LET old == \/ ~MY_GNUC_PREREQ(2, 8)
               \/ Knows("__cplusplus") /\ ~MY_GNUC_PREREQ(3, 4)
    IN /\ Block(11)
       /\ Default((IF old THEN "__attribute__" :> "nothing" ELSE Flags({})) @@
                  "ATTRIBUTE_FORMAT" :> "format" @@
                  "ATTRIBUTE_FORMAT_FPTR" :>
                     IF MY_GNUC_PREREQ(3, 1) THEN "format" ELSE "nothing")
-----------------------------------------------------------------------------
HAVE_LONG_LONG ==
    /\ Block(12)
    /\ Macros(IF known["SIZEOF_LONG_LONG"] > 4 THEN "HAVE_LONG_LONG" :> 1
                                               ELSE Flags({}))

(* The constants of limits, by the type that their suffix gives them.      *)
limits ==
    /\ Block(13)
    /\ Types("INT_MAX64" :> machine.LONG_LONG @@ "INT_MAX32" :> machine.LONG @@
             "INT_MAX24" :> machine.INT @@
             IF Knows("HAVE_LONG_LONG") THEN "LONGLONG_MAX" :> machine.LONG_LONG
                                        ELSE Flags({}))

my_ptrdiff_t ==
    /\ Block(14)
    /\ Types("my_ptrdiff_t" :> IF known["SIZEOF_CHARP"] = 4
                               THEN machine.LONG ELSE machine.LONG_LONG)

(* A platform that has one of the types is taken at its word.              *)
int32 ==
    /\ Block(15)
    /\ LET small == "int8" :> 1 @@ "int16" :> 2
       IN CASE known["SIZEOF_INT"] = 4 ->
                    Types("int32" :> machine.INT @@ small)
            [] known["SIZEOF_INT"] # 4 /\ known["SIZEOF_LONG"] = 4 ->
                    Types("int32" :> machine.LONG @@ small)
            [] OTHER -> Error

longlong ==
    /\ Block(16)
    /\ LET width == IF Knows("HAVE_LONG_LONG") /\ known["SIZEOF_LONG_LONG"] = 8
                    THEN machine.LONG_LONG ELSE machine.LONG
       IN Types("longlong" :> width @@ "int64" :> width)

my_ulonglong ==
    /\ Block(17)
    /\ Types("my_ulonglong" :> IF Knows("NO_CLIENT_LONG_LONG") THEN machine.LONG
                               ELSE machine.LONG_LONG)

intptr ==
    LET charp == known["SIZEOF_CHARP"]
    IN /\ Block(18)
       /\ CASE charp = known["SIZEOF_INT"] -> Types("intptr" :> machine.INT)
            [] charp # known["SIZEOF_INT"] /\ charp = known["SIZEOF_LONG"] ->
                    Types("intptr" :> machine.LONG)
            [] charp \notin {known["SIZEOF_INT"], known["SIZEOF_LONG"]}
               /\ charp = known["SIZEOF_LONG_LONG"] ->
                    Types("intptr" :> machine.LONG_LONG)
            [] OTHER -> Error

(* mutant: the width of off_t is not looked at.                            *)
my_off_t_Long == Block(19) /\ Types("my_off_t" :> machine.LONG)
my_off_t ==
    /\ Block(19)
    /\ Types("my_off_t" :>
         CASE Knows("_WIN32") -> machine.LONG_LONG
           [] ~Knows("_WIN32") /\ known["SIZEOF_OFF_T"] > 4 -> types["longlong"]
           [] OTHER -> machine.LONG)

(* The suffix of constants, the type LL makes them.                        *)
LL == /\ Block(20)
      /\ Types("LL" :> IF Knows("HAVE_LONG_LONG") THEN machine.LONG_LONG
                                                  ELSE machine.LONG)

-----------------------------------------------------------------------------
(* m_string.h.  A macro for memory is the call it stands for: the function *)
(* and, by their places, the arguments; 0 is a zero byte.                  *)
To(function, places) == [to |-> function, places |-> places]
memory_calls ==
    LET none == ~Knows("HAVE_MEMCPY") /\ ~Knows("HAVE_MEMMOVE")
    IN /\ Block(21)
       /\ Macros(
            (CASE none -> "memcpy" :> To("bcopy", <<2, 1, 3>>) @@
                         "memset" :> To("bfill", <<1, 3, 2>>) @@
                         "memmove" :> To("bmove", <<1, 2, 3>>)
               [] Knows("HAVE_MEMMOVE") ->
                         "bmove" :> To("memmove", <<1, 2, 3>>)
               [] OTHER -> Flags({})) @@
            (IF Knows("HAVE_BFILL") THEN Flags({})
             ELSE "bfill" :> To("memset", <<1, 3, 2>>)) @@
            (IF {"HAVE_BZERO", "HAVE_DECL_BZERO"} \subseteq DOMAIN known
                /\ ~Knows("_AIX")
             THEN Flags({}) ELSE "bzero" :> To("memset", <<1, 0, 2>>)))

strmov ==
    /\ Block(22)
    /\ Macros(CASE ~Knows("HAVE_STPCPY") -> Flags({})
                [] Knows("HAVE_STPCPY") /\ MY_GNUC_PREREQ(3, 4)
                   /\ ~Knows("__INTEL_COMPILER") ->
                     "strmov" :> "__builtin_stpcpy"
                [] OTHER -> "strmov" :> "stpcpy")
strmov_overlapp ==
    /\ Block(23)
    /\ Macros(IF Knows("strmov") THEN Flags({}) ELSE "strmov_overlapp" :> "strmov")
(* The one of the two that is a function of the library is declared.       *)
extern_strmov ==
    /\ Block(24)
    /\ Macros("extern" :> IF Knows("strmov") THEN "strmov_overlapp" ELSE "strmov")

(* The conversions of 64-bit numbers, by the type they convert.            *)
ll2str ==
    /\ Block(25)
    /\ CASE known["SIZEOF_LONG"] = known["SIZEOF_LONG_LONG"] ->
              Types("ll2str" :> machine.LONG @@ "strtoll" :> machine.LONG)
         [] known["SIZEOF_LONG"] # known["SIZEOF_LONG_LONG"]
            /\ Knows("HAVE_LONG_LONG") ->
              Types("ll2str" :> types["longlong"] @@ "strtoll" :>
                    IF ~Knows("HAVE_STRTOULL") \/ Knows("NO_STRTOLL_PROTO")
                    THEN types["longlong"] ELSE machine.LONG_LONG)
         [] OTHER -> Types(Flags({}))

WidthNext == \/ WIN \/ CYGWIN \/ include_my_config \/ win_off_t
             \/ universal_binary \/ compiler_features \/ MY_ALIGN_EXT
             \/ generic_features \/ my_alignment_imp \/ no_MY_ALIGNED
             \/ my_attribute \/ HAVE_LONG_LONG \/ limits \/ my_ptrdiff_t \/ int32
             \/ longlong \/ my_ulonglong \/ intptr \/ my_off_t \/ LL
             \/ memory_calls \/ strmov \/ strmov_overlapp \/ extern_strmov
             \/ ll2str
-----------------------------------------------------------------------------
(* The largest offset a file can have: Windows files are not read through  *)
(* the functions that use its own off_t.                                   *)
OffsetWidth == IF system = "win" THEN 8 ELSE machine.OFF_T

(* A function pointer's format is checked by a compiler that can.          *)
ChecksFormats == /\ known["ATTRIBUTE_FORMAT_FPTR"] = "format"
                 /\ ~Knows("__attribute__")

(* What the functions for memory take, and what a call of one becomes: a   *)
(* macro is not expanded again inside its own expansion.                   *)
Memory == [
    memcpy |-> <<"to", "from", "n">>, memmove |-> <<"to", "from", "n">>,
    bmove |-> <<"to", "from", "n">>, bcopy |-> <<"from", "to", "n">>,
    memset |-> <<"to", "byte", "n">>, bfill |-> <<"to", "n", "byte">>,
    bzero |-> <<"to", "n">>]
Expanded(call) ==
    IF Knows(call.f) /\ call.f \notin call.inside
    THEN LET places == known[call.f].places
         IN [f |-> known[call.f].to, inside |-> call.inside \cup {call.f},
             given |-> [k \in DOMAIN places |-> IF places[k] = 0 THEN "byte"
                                               ELSE call.given[places[k]]]]
    ELSE call
Called(f) ==
    Expanded(Expanded(Expanded([f |-> f, inside |-> {}, given |-> Memory[f]])))

(* The types of my_global.h are as wide as their names say and as what     *)
(* they have to hold on the machine the code is compiled for, its limits   *)
(* fit their constants, and the byte order it reads is that machine's.     *)
TypesWide ==
    /\ types["int8"] = 1 /\ types["int16"] = 2
    /\ types["int32"] = 4 /\ types["int64"] = 8
    /\ types["intptr"] = machine.CHARP
    /\ types["my_ptrdiff_t"] >= machine.CHARP
    /\ types["my_off_t"] >= OffsetWidth
    /\ types["LL"] = types["longlong"]
    /\ types["INT_MAX64"] >= 8 /\ types["INT_MAX32"] >= 4
    /\ types["INT_MAX24"] >= 3
    /\ "LONGLONG_MAX" \in DOMAIN types =>
          types["LONGLONG_MAX"] = types["longlong"]
    /\ Knows("NO_CLIENT_LONG_LONG") \/ types["my_ulonglong"] = types["longlong"]
    /\ Knows("WORDS_BIGENDIAN") <=> machine.big

(* The storage of my_compiler.h is aligned as asked wherever the header    *)
(* found a way to align, whatever my_attribute.h then does to attributes,  *)
(* and elsewhere as a double, as its remark at line 124 says; and formats  *)
(* of function pointers go to no compiler that cannot take them.           *)
StorageAligned ==
    /\ \A a \in DOMAIN aligned :
          aligned[a] = IF known["MY_ALIGNED"] = "nothing"
                       THEN DoubleAlignment(machine) ELSE a
    /\ ChecksFormats => /\ MY_GNUC_PREREQ(3, 1)
                        /\ Knows("__cplusplus") => MY_GNUC_PREREQ(3, 4)

(* A call that copies or fills, through all macros of m_string.h, gives    *)
(* each argument its place; one for overlapping strings reaches a function *)
(* of the library, never stpcpy; and one that converts takes a longlong.   *)
StringCallsRight ==
    /\ \A f \in DOMAIN Memory : Called(f).given = Memory[Called(f).f]
    /\ known["extern"] =
          IF ~Knows("strmov_overlapp") THEN "strmov_overlapp"
          ELSE IF Knows("strmov") THEN known["strmov"] ELSE "strmov"
    /\ \A f \in {"ll2str", "strtoll"} : types[f] = types["longlong"]

(* Wherever the headers let the compilation go on, the types, alignments   *)
(* and string calls they leave to a program are right for the machine and  *)
(* the compiler it is compiled with.                                       *)
WidthsTrue == line = 26 => TypesWide /\ StorageAligned /\ StringCallsRight
=============================================================================
