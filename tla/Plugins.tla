------------------------------ MODULE Plugins -------------------------------
(* How a library of plugins, linked into the server or loaded by it, is    *)
(* found and finds its way back: the declaration macros of plugin.h export *)
(* an interface version, the size of a structure and an array of them; the *)
(* services of service_*.h are called through tables the server fills in,  *)
(* or directly.  Libraries may be compiled as C or as C++, and with an     *)
(* older header, whose st_mysql_plugin had fewer fields.                   *)
EXTENDS Integers, Sequences

CONSTANTS
    Libraries,      \* the NAMEs the libraries are declared with
    MaxPlugins      \* the most plugins a library declares

ASSUME PluginsAssumption == MaxPlugins \in Nat \ {0}

VARIABLES
    compiler,       \* of all libraries: is it _MSC_VER, is it __cplusplus?
    libraries,      \* library -> how it is built and what it declares
    symbols,        \* <<image, name>> -> what the symbol is
    services,       \* <<library, service>> -> does the pointer have a table?
    stage,          \* library -> how far the server has come with it
    walked,         \* library -> the plugins the server has found in it
    called          \* the last service call, and what it has reached

plugging == <<compiler, libraries, symbols, services, stage, walked, called>>

MYSQL_PLUGIN_INTERFACE_VERSION == 259       \* 0x0103
MYSQL_MAX_PLUGIN_TYPE_NUM == 8
st_mysql_plugin == <<"type", "info", "name", "author", "descr", "license",
    "init", "deinit", "version", "status_vars", "system_vars",
    "__reserved1", "flags">>

(* The functions of each service, in the order of its table.               *)
thd_alloc_service_st == <<"thd_alloc", "thd_calloc", "thd_strdup",
    "thd_strmake", "thd_memdup", "thd_make_lex_string">>
thd_wait_service_st == <<"thd_wait_begin", "thd_wait_end">>
my_thread_scheduler_service == <<"my_thread_scheduler_set",
    "my_thread_scheduler_reset">>
my_snprintf_service_st == <<"my_snprintf", "my_vsnprintf">>
Tables == [
    thd_alloc_service |-> thd_alloc_service_st,
    thd_wait_service |-> thd_wait_service_st,
    my_thread_scheduler_service |-> my_thread_scheduler_service,
    my_snprintf_service |-> my_snprintf_service_st]

Unbuilt == [dynamic |-> FALSE, size |-> 0, plugins |-> <<>>]
NoCall == [call |-> "none", reached |-> "none"]
PluginsInit ==
    /\ compiler \in [msvc : BOOLEAN, cplusplus : BOOLEAN]
    /\ libraries = [l \in Libraries |-> Unbuilt]
    /\ symbols = [s \in {} |-> 0]
    /\ services = [p \in Libraries \X DOMAIN Tables |-> FALSE]
    /\ stage = [l \in Libraries |-> "source"]
    /\ walked = [l \in Libraries |-> <<>>]
    /\ called = NoCall
-----------------------------------------------------------------------------
MYSQL_PLUGIN_EXPORT(dynamic) ==
    IF compiler.msvc
    THEN (IF dynamic THEN {"__declspec(dllexport)"} ELSE {}) \cup
         (IF compiler.cplusplus THEN {"extern C"} ELSE {})
    ELSE {}

(* A plugin as its author initialises it: its type, and values that are    *)
(* not zero; and the zeros behind the last one.                            *)
Initialised(type, size) == [i \in 1 .. size |-> IF i = 1 THEN type ELSE i]
(* mutant: the array does not end.                                         *)
mysql_declare_plugin_end_None(size) == <<>>
mysql_declare_plugin_end(size) == [i \in 1 .. size |-> 0]
Array(plugins, size) ==
    [j \in 1 .. Len(plugins) * size |->
        Initialised(plugins[(j - 1) \div size + 1], size)[((j - 1) % size) + 1]]
    \o mysql_declare_plugin_end(size)

(* A library for the server has names of its own in the image of the       *)
(* server, every other one the same names in an image of its own.          *)
mysql_declare_plugin(l) == [
    version |-> <<"server", <<l, "_plugin_interface_version">>>>,
    size |-> <<"server", <<l, "_sizeof_struct_st_plugin">>>>,
    plugins |-> <<"server", <<l, "_plugin">>>>]
DynamicNames(l) == [
    version |-> <<l, <<"_mysql", "_plugin_interface_version_">>>>,
    size |-> <<l, <<"_mysql", "_sizeof_struct_st_plugin_">>>>,
    plugins |-> <<l, <<"_mysql", "_plugin_declarations_">>>>]
Names(l, dynamic) == IF dynamic THEN DynamicNames(l) ELSE mysql_declare_plugin(l)

__MYSQL_DECLARE_PLUGIN(names, export, size, plugins) ==
    [s \in {names.version, names.size, names.plugins} |-> [
        content |-> IF s = names.version THEN MYSQL_PLUGIN_INTERFACE_VERSION
                    ELSE IF s = names.size THEN size
                    ELSE Array(plugins, size),
        export |-> export]]

(* The symbols there are once some more are linked.                        *)
Linked(new) == [s \in DOMAIN new \cup DOMAIN symbols |->
    IF s \in DOMAIN new THEN new[s] ELSE symbols[s]]

Build(l) ==
    /\ stage[l] = "source"
    /\ \E dynamic \in BOOLEAN, n \in 1 .. MaxPlugins,
          size \in {Len(st_mysql_plugin) - 1, Len(st_mysql_plugin)} :
       \E plugins \in [1 .. n -> {0, MYSQL_MAX_PLUGIN_TYPE_NUM - 1}] :
          /\ ~dynamic => size = Len(st_mysql_plugin)
          /\ libraries' = [libraries EXCEPT ![l] =
                [dynamic |-> dynamic, size |-> size, plugins |-> plugins]]
          /\ symbols' = Linked(__MYSQL_DECLARE_PLUGIN(Names(l, dynamic),
                MYSQL_PLUGIN_EXPORT(dynamic), size, plugins))
    /\ stage' = [stage EXCEPT ![l] = "built"]
    /\ UNCHANGED <<compiler, services, walked, called>>
-----------------------------------------------------------------------------
(* The server.  A symbol is found where it was not mangled, as variables   *)
(* are by one compiler only, and in another image where it was exported.   *)
Visible(s, dynamic) ==
    /\ s \in DOMAIN symbols
    /\ compiler.msvc /\ compiler.cplusplus => "extern C" \in symbols[s].export
    /\ compiler.msvc /\ dynamic => "__declspec(dllexport)" \in symbols[s].export
Open(l) ==
    LET dynamic == libraries[l].dynamic
        names == Names(l, dynamic)
        ok == \A f \in DOMAIN names : Visible(names[f], dynamic)
    IN /\ stage[l] = "built"
       /\ stage' = [stage EXCEPT ![l] = IF ok THEN "opened" ELSE "refused"]
       /\ services' = [p \in DOMAIN services |->
                          services[p] \/ (ok /\ dynamic /\ p[1] = l)]
       /\ UNCHANGED <<compiler, libraries, symbols, walked, called>>

(* It goes from one structure to the next by the size the library gives,   *)
(* up to one that has no descriptor, and takes over the fields it has.     *)
WalkOn(l) ==
    LET names == Names(l, libraries[l].dynamic)
        size == symbols[names.size].content
        array == symbols[names.plugins].content
        start == Len(walked[l]) * size
    IN /\ stage[l] = "opened"
       /\ IF start + size > Len(array)
          THEN stage' = [stage EXCEPT ![l] = "overrun"] /\ UNCHANGED walked
          ELSE IF array[start + 2] = 0
          THEN stage' = [stage EXCEPT ![l] = "loaded"] /\ UNCHANGED walked
          ELSE /\ walked' = [walked EXCEPT ![l] = Append(@,
                    [i \in DOMAIN st_mysql_plugin |->
                        IF i <= size THEN array[start + i] ELSE 0])]
               /\ UNCHANGED stage
       /\ UNCHANGED <<compiler, libraries, symbols, services, called>>
-----------------------------------------------------------------------------
(* A plugin calls a service: directly in the image of the server, and      *)
(* otherwise the slot of the table that the macro names.                   *)
CallService(l, service, i, slot) ==
    LET dynamic == libraries[l].dynamic
    IN /\ stage[l] = "loaded"
       /\ called' = [call |-> Tables[service][i], reached |->
             IF ~dynamic THEN Tables[service][i]
             ELSE IF services[<<l, service>>] THEN Tables[service][slot]
             ELSE "NULL"]
       /\ UNCHANGED <<compiler, libraries, symbols, services, stage, walked>>
thd_alloc(l) == \E i \in DOMAIN thd_alloc_service_st :
    CallService(l, "thd_alloc_service", i, i)
thd_wait(l) == \E i \in DOMAIN thd_wait_service_st :
    CallService(l, "thd_wait_service", i, i)
my_thread_scheduler(l) == \E i \in DOMAIN my_thread_scheduler_service :
    CallService(l, "my_thread_scheduler_service", i, i)
my_snprintf(l) == \E i \in DOMAIN my_snprintf_service_st :
    CallService(l, "my_snprintf_service", i, i)

PluginsNext == \E l \in Libraries :
    \/ Build(l) \/ Open(l) \/ WalkOn(l)
    \/ thd_alloc(l) \/ thd_wait(l) \/ my_thread_scheduler(l) \/ my_snprintf(l)

PluginsSpec == PluginsInit /\ [][PluginsNext]_plugging
-----------------------------------------------------------------------------
(* The server finds what a library declares, and never runs past it: every *)
(* plugin in its order, whatever its type, with the fields its header had. *)
PluginsFound == \A l \in Libraries :
    /\ stage[l] # "overrun"
    /\ stage[l] = "loaded" =>
         /\ Len(walked[l]) = Len(libraries[l].plugins)
         /\ \A i \in DOMAIN walked[l] :
               SubSeq(walked[l][i], 1, libraries[l].size) =
                    Initialised(libraries[l].plugins[i], libraries[l].size)

(* Whatever compiles it, as C or as C++, for the server or not, a library  *)
(* can be opened: its names are exported, plain, and nobody else's.        *)
LibrariesOpen == \A l \in Libraries : stage[l] # "refused"

(* A service call reaches the function it names, linked or loaded.         *)
ServicesReached == called.reached = called.call

(* A library declared by the macros of plugin.h is opened, all its plugins *)
(* are found, and its service calls arrive.                                *)
PluginsWork == PluginsFound /\ LibrariesOpen /\ ServicesReached
=============================================================================
