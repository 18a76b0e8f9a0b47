----------------------------- MODULE PluginVars -----------------------------
(* The macros of plugin.h by which a plugin declares system variables.  A  *)
(* declaration is a structure: the fields of the macro's DECLARE_ macro,   *)
(* initialised in order by the values the macro lists.  The server gets a  *)
(* pointer to the common header and finds the rest by the flags and by     *)
(* position only.  Flags are the sets of their bits; the value of a field  *)
(* is the name of the macro argument it is initialised with.               *)
EXTENDS Integers, Sequences

VARIABLES
    sysvar,         \* the variable declared, or Undeclared
    registered      \* has the server taken it over?

variables == <<sysvar, registered>>

PLUGIN_VAR_BOOL == {0}
PLUGIN_VAR_INT == {1}
PLUGIN_VAR_LONG == {0, 1}
PLUGIN_VAR_LONGLONG == {2}
PLUGIN_VAR_STR == {0, 2}
PLUGIN_VAR_ENUM == {1, 2}
PLUGIN_VAR_SET == {0, 1, 2}
PLUGIN_VAR_UNSIGNED == {7}
PLUGIN_VAR_THDLOCAL == {8}
PLUGIN_VAR_READONLY == {9}
PLUGIN_VAR_NOSYSVAR == {10}
PLUGIN_VAR_NOCMDOPT == {11}
PLUGIN_VAR_NOCMDARG == {12}
PLUGIN_VAR_RQCMDARG == {}
PLUGIN_VAR_OPCMDARG == {13}
PLUGIN_VAR_MEMALLOC == {15}

(* What the author of a plugin may ask for in opt.                         *)
PLUGIN_VAR_MASK ==
    PLUGIN_VAR_READONLY \cup PLUGIN_VAR_NOSYSVAR \cup PLUGIN_VAR_NOCMDOPT
    \cup PLUGIN_VAR_NOCMDARG \cup PLUGIN_VAR_OPCMDARG
    \cup PLUGIN_VAR_RQCMDARG \cup PLUGIN_VAR_MEMALLOC
AnyBit == PLUGIN_VAR_MASK \cup PLUGIN_VAR_SET \cup PLUGIN_VAR_UNSIGNED
          \cup PLUGIN_VAR_THDLOCAL

MYSQL_PLUGIN_VAR_HEADER == <<"flags", "name", "comment", "check", "update">>
DECLARE_MYSQL_SYSVAR_BASIC == MYSQL_PLUGIN_VAR_HEADER \o <<"value", "def_val">>
DECLARE_MYSQL_SYSVAR_SIMPLE == MYSQL_PLUGIN_VAR_HEADER \o
    <<"value", "def_val", "min_val", "max_val", "blk_sz">>
DECLARE_MYSQL_SYSVAR_TYPELIB == MYSQL_PLUGIN_VAR_HEADER \o
    <<"value", "def_val", "typelib">>
DECLARE_THDVAR_FUNC == <<"resolve">>
DECLARE_MYSQL_THDVAR_BASIC == MYSQL_PLUGIN_VAR_HEADER \o
    <<"offset", "def_val">> \o DECLARE_THDVAR_FUNC
DECLARE_MYSQL_THDVAR_SIMPLE == MYSQL_PLUGIN_VAR_HEADER \o
    <<"offset", "def_val", "min_val", "max_val", "blk_sz">>
    \o DECLARE_THDVAR_FUNC
DECLARE_MYSQL_THDVAR_TYPELIB == MYSQL_PLUGIN_VAR_HEADER \o
    <<"offset", "def_val">> \o DECLARE_THDVAR_FUNC \o <<"typelib">>
-----------------------------------------------------------------------------
(* A declaration: its fields, the type of the variable, its flags and the  *)
(* values behind them.                                                     *)
Declared(fields, type, flags, opt, values) ==
    [fields |-> fields, type |-> type, flags |-> flags \cup (opt \cap PLUGIN_VAR_MASK),
     values |-> <<"flags", "name", "comment", "check", "update">> \o values]

SysvarBasic == <<"&varname", "def">>
SysvarSimple == <<"&varname", "def", "min", "max", "blk">>
SysvarTypelib == <<"&varname", "def", "typelib">>
ThdvarBasic == <<"-1", "def", "NULL">>
ThdvarSimple == <<"-1", "def", "min", "max", "blk", "NULL">>
(* mutant: the values are listed in the order of the other declarations.   *)
ThdvarTypelib_Last == <<"-1", "def", "typelib", "NULL">>
ThdvarTypelib == <<"-1", "def", "NULL", "typelib">>

MYSQL_SYSVAR_BOOL(opt) == Declared(DECLARE_MYSQL_SYSVAR_BASIC, "char",
    PLUGIN_VAR_BOOL, opt, SysvarBasic)
MYSQL_SYSVAR_STR(opt) == Declared(DECLARE_MYSQL_SYSVAR_BASIC, "char *",
    PLUGIN_VAR_STR, opt, SysvarBasic)
MYSQL_SYSVAR_INT(opt) == Declared(DECLARE_MYSQL_SYSVAR_SIMPLE, "int",
    PLUGIN_VAR_INT, opt, SysvarSimple)
MYSQL_SYSVAR_UINT(opt) == Declared(DECLARE_MYSQL_SYSVAR_SIMPLE, "uint",
    PLUGIN_VAR_INT \cup PLUGIN_VAR_UNSIGNED, opt, SysvarSimple)
MYSQL_SYSVAR_LONG(opt) == Declared(DECLARE_MYSQL_SYSVAR_SIMPLE, "long",
    PLUGIN_VAR_LONG, opt, SysvarSimple)
MYSQL_SYSVAR_ULONG(opt) == Declared(DECLARE_MYSQL_SYSVAR_SIMPLE, "ulong",
    PLUGIN_VAR_LONG \cup PLUGIN_VAR_UNSIGNED, opt, SysvarSimple)
MYSQL_SYSVAR_LONGLONG(opt) == Declared(DECLARE_MYSQL_SYSVAR_SIMPLE,
    "longlong", PLUGIN_VAR_LONGLONG, opt, SysvarSimple)
MYSQL_SYSVAR_ULONGLONG(opt) == Declared(DECLARE_MYSQL_SYSVAR_SIMPLE,
    "ulonglong", PLUGIN_VAR_LONGLONG \cup PLUGIN_VAR_UNSIGNED, opt, SysvarSimple)
MYSQL_SYSVAR_ENUM(opt) == Declared(DECLARE_MYSQL_SYSVAR_TYPELIB, "ulong",
    PLUGIN_VAR_ENUM, opt, SysvarTypelib)
MYSQL_SYSVAR_SET(opt) == Declared(DECLARE_MYSQL_SYSVAR_TYPELIB, "ulonglong",
    PLUGIN_VAR_SET, opt, SysvarTypelib)

MYSQL_THDVAR_BOOL(opt) == Declared(DECLARE_MYSQL_THDVAR_BASIC, "char",
    PLUGIN_VAR_BOOL \cup PLUGIN_VAR_THDLOCAL, opt, ThdvarBasic)
MYSQL_THDVAR_STR(opt) == Declared(DECLARE_MYSQL_THDVAR_BASIC, "char *",
    PLUGIN_VAR_STR \cup PLUGIN_VAR_THDLOCAL, opt, ThdvarBasic)
MYSQL_THDVAR_INT(opt) == Declared(DECLARE_MYSQL_THDVAR_SIMPLE, "int",
    PLUGIN_VAR_INT \cup PLUGIN_VAR_THDLOCAL, opt, ThdvarSimple)
MYSQL_THDVAR_UINT(opt) == Declared(DECLARE_MYSQL_THDVAR_SIMPLE, "uint",
    PLUGIN_VAR_INT \cup PLUGIN_VAR_THDLOCAL \cup PLUGIN_VAR_UNSIGNED, opt,
    ThdvarSimple)
MYSQL_THDVAR_LONG(opt) == Declared(DECLARE_MYSQL_THDVAR_SIMPLE, "long",
    PLUGIN_VAR_LONG \cup PLUGIN_VAR_THDLOCAL, opt, ThdvarSimple)
MYSQL_THDVAR_ULONG(opt) == Declared(DECLARE_MYSQL_THDVAR_SIMPLE, "ulong",
    PLUGIN_VAR_LONG \cup PLUGIN_VAR_THDLOCAL \cup PLUGIN_VAR_UNSIGNED, opt,
    ThdvarSimple)
MYSQL_THDVAR_LONGLONG(opt) == Declared(DECLARE_MYSQL_THDVAR_SIMPLE,
    "longlong", PLUGIN_VAR_LONGLONG \cup PLUGIN_VAR_THDLOCAL, opt, ThdvarSimple)
MYSQL_THDVAR_ULONGLONG(opt) == Declared(DECLARE_MYSQL_THDVAR_SIMPLE,
    "ulonglong",
    PLUGIN_VAR_LONGLONG \cup PLUGIN_VAR_THDLOCAL \cup PLUGIN_VAR_UNSIGNED, opt,
    ThdvarSimple)
MYSQL_THDVAR_ENUM(opt) == Declared(DECLARE_MYSQL_THDVAR_TYPELIB, "ulong",
    PLUGIN_VAR_ENUM \cup PLUGIN_VAR_THDLOCAL, opt, ThdvarTypelib)
MYSQL_THDVAR_SET(opt) == Declared(DECLARE_MYSQL_THDVAR_TYPELIB, "ulonglong",
    PLUGIN_VAR_SET \cup PLUGIN_VAR_THDLOCAL, opt, ThdvarTypelib)

Declarations(opt) ==
    {MYSQL_SYSVAR_BOOL(opt), MYSQL_SYSVAR_STR(opt), MYSQL_SYSVAR_INT(opt),
     MYSQL_SYSVAR_UINT(opt), MYSQL_SYSVAR_LONG(opt), MYSQL_SYSVAR_ULONG(opt),
     MYSQL_SYSVAR_LONGLONG(opt), MYSQL_SYSVAR_ULONGLONG(opt),
     MYSQL_SYSVAR_ENUM(opt), MYSQL_SYSVAR_SET(opt),
     MYSQL_THDVAR_BOOL(opt), MYSQL_THDVAR_STR(opt), MYSQL_THDVAR_INT(opt),
     MYSQL_THDVAR_UINT(opt), MYSQL_THDVAR_LONG(opt), MYSQL_THDVAR_ULONG(opt),
     MYSQL_THDVAR_LONGLONG(opt), MYSQL_THDVAR_ULONGLONG(opt),
     MYSQL_THDVAR_ENUM(opt), MYSQL_THDVAR_SET(opt)}
-----------------------------------------------------------------------------
(* The server knows the flags only, and takes the structure for the one    *)
(* they stand for.                                                         *)
TypeBits(flags) == flags \cap PLUGIN_VAR_SET
Layout(flags) ==
    LET thd == PLUGIN_VAR_THDLOCAL \subseteq flags
    IN CASE TypeBits(flags) \in {PLUGIN_VAR_BOOL, PLUGIN_VAR_STR} ->
                IF thd THEN DECLARE_MYSQL_THDVAR_BASIC
                       ELSE DECLARE_MYSQL_SYSVAR_BASIC
         [] TypeBits(flags) \in {PLUGIN_VAR_ENUM, PLUGIN_VAR_SET} ->
                IF thd THEN DECLARE_MYSQL_THDVAR_TYPELIB
                       ELSE DECLARE_MYSQL_SYSVAR_TYPELIB
         [] OTHER -> IF thd THEN DECLARE_MYSQL_THDVAR_SIMPLE
                            ELSE DECLARE_MYSQL_SYSVAR_SIMPLE
TypeOf(flags) ==
    LET u == PLUGIN_VAR_UNSIGNED \subseteq flags
    IN CASE TypeBits(flags) = PLUGIN_VAR_BOOL -> "char"
         [] TypeBits(flags) = PLUGIN_VAR_STR -> "char *"
         [] TypeBits(flags) = PLUGIN_VAR_INT -> IF u THEN "uint" ELSE "int"
         [] TypeBits(flags) = PLUGIN_VAR_LONG -> IF u THEN "ulong" ELSE "long"
         [] TypeBits(flags) = PLUGIN_VAR_LONGLONG ->
                IF u THEN "ulonglong" ELSE "longlong"
         [] TypeBits(flags) = PLUGIN_VAR_ENUM -> "ulong"
         [] OTHER -> "ulonglong"

(* A field of a structure, by its place in the layout it is taken to have. *)
Field(values, layout, f) ==
    values[CHOOSE i \in DOMAIN layout : layout[i] = f]
SetField(values, layout, f, v) ==
    [values EXCEPT ![CHOOSE i \in DOMAIN layout : layout[i] = f] = v]

Undeclared == [flags |-> {}, values |-> <<>>]
VarInit == sysvar = Undeclared /\ registered = FALSE
Declare ==
    /\ sysvar = Undeclared
    /\ \E opt \in SUBSET AnyBit : sysvar' \in Declarations(opt)
    /\ UNCHANGED registered
(* A session's variable gets its place and the function that finds it.     *)
Register ==
    /\ sysvar # Undeclared /\ ~registered
    /\ registered' = TRUE
    /\ sysvar' = IF PLUGIN_VAR_THDLOCAL \subseteq sysvar.flags
         THEN LET layout == Layout(sysvar.flags)
                  placed == SetField(sysvar.values, layout, "offset", "place")
              IN [sysvar EXCEPT !.values =
                    SetField(placed, layout, "resolve", "resolver")]
         ELSE sysvar
VarNext == Declare \/ Register

(* What the plugin's own accessors use.                                    *)
SYSVAR == Field(sysvar.values, sysvar.fields, "value")
THDVAR == <<Field(sysvar.values, sysvar.fields, "resolve"),
            Field(sysvar.values, sysvar.fields, "offset")>>
-----------------------------------------------------------------------------
(* What a field is meant to be initialised with.                           *)
Meant == [flags |-> "flags", name |-> "name", comment |-> "comment",
          check |-> "check", update |-> "update", value |-> "&varname",
          offset |-> "-1", def_val |-> "def", min_val |-> "min",
          max_val |-> "max", blk_sz |-> "blk", typelib |-> "typelib",
          resolve |-> "NULL"]

(* The server takes every variable for what it was declared as, whatever   *)
(* options its author passed: it reads the right type, and finds every     *)
(* value of the declaration in the field it looks for it in.               *)
ServerSeesDeclaration == sysvar # Undeclared /\ ~registered =>
    LET layout == Layout(sysvar.flags)
    IN /\ TypeOf(sysvar.flags) = sysvar.type
       /\ Len(layout) = Len(sysvar.values)
       /\ \A i \in DOMAIN layout : sysvar.values[i] = Meant[layout[i]]

(* After the registration the accessors of the plugin find the variable:   *)
(* a global one where it was declared, a session's one through what the    *)
(* server has put into the structure.                                      *)
AccessorsResolve == registered =>
    IF sysvar.fields[6] = "offset" THEN THDVAR = <<"resolver", "place">>
                                   ELSE SYSVAR = "&varname"

(* A variable declared by MYSQL_SYSVAR_ or MYSQL_THDVAR_ macros is the one *)
(* the server sees before, and the plugin reaches after, its registration. *)
VariablesFound == ServerSeesDeclaration /\ AccessorsResolve
=============================================================================
