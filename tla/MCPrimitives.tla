---------------------------- MODULE MCPrimitives ----------------------------
(* The primitives of the headers side by side.  They share no state; a     *)
(* behaviour drives one of them and leaves the others at rest.             *)
EXTENDS ByteOrder, SkipTrailingSpace, Timespec, OwnerAsserts, PluginVars,
        ThreadConfig, Widths, Numbers, Dbug, Plugins, Ctype

VARIABLE driven

(* Numbers with only the sign bit, with all the others, and with all bytes *)
(* different.                                                              *)
MCStorable(w) == {Power[w] \div 2, Power[w] \div 2 - 1,
                  Low([i \in 0 .. 7 |-> (i + 1) % Byte], w)}

(* What configure may find, topic by topic: what the blocks of one topic   *)
(* ask for varies in all combinations.                                     *)
MCTopics == {
    [vary |-> {"SAFE_MUTEX", "MY_PTHREAD_FASTMUTEX",
               "HAVE_NONPOSIX_PTHREAD_MUTEX_INIT",
               "HAVE_BROKEN_PTHREAD_COND_TIMEDWAIT",
               "HAVE_POSIX1003_4a_MUTEX", "DONT_REMAP_PTHREAD_FUNCTIONS"},
     fixed |-> {"HAVE_SCHED_YIELD", "HAVE_PTHREAD_SIGMASK",
                "HAVE_SIGACTION"}],
    [vary |-> {"SAFE_MUTEX", "USE_MUTEX_INSTEAD_OF_RW_LOCKS",
               "HAVE_PTHREAD_RWLOCK_RDLOCK", "HAVE_RWLOCK_INIT",
               "HAVE_RWLOCK_T", "HAVE_BROKEN_RWLOCK"},
     fixed |-> {"HAVE_SCHED_YIELD", "HAVE_PTHREAD_SIGMASK",
                "HAVE_SIGACTION"}],
    [vary |-> {"HAVE_SIGACTION", "HAVE_SIGSET", "HAVE_BSD_SIGNALS",
               "HAVE_NONPOSIX_SIGWAIT", "HAVE_SIGWAIT",
               "HAVE_SIGTHREADMASK", "HAVE_PTHREAD_SIGMASK"},
     fixed |-> {"HAVE_SCHED_YIELD"}],
    [vary |-> {"HAVE_PTHREAD_KEY_DELETE", "HAVE_NONPOSIX_PTHREAD_GETSPECIFIC",
               "HAVE_PTHREAD_ATTR_SETSCOPE", "HAVE_PTHREAD_ATTR_SETSTACKSIZE",
               "HAVE_THR_SETCONCURRENCY"},
     fixed |-> {"HAVE_SCHED_YIELD", "HAVE_PTHREAD_SIGMASK"}],
    [vary |-> {"HAVE_PTHREAD_YIELD_ZERO_ARG", "HAVE_PTHREAD_YIELD_ONE_ARG",
               "HAVE_SCHED_YIELD", "HAVE_PTHREAD_YIELD_NP",
               "HAVE_THR_YIELD"},
     fixed |-> {"HAVE_PTHREAD_SIGMASK"}]}

parts == <<storage, trim, deadlines, ownership, variables, configuration,
           headers, numbers, debugging, plugging, characters>>

(* One initial state of the parts that have several.                       *)
OwnerRests == SAFE_MUTEX = FALSE /\ lockKind = "safe_mutex_t"
ConfigRests == platform = "win" /\ settings = {}
WidthRests == /\ system = "win" /\ machine = Sizes(4, 4, 4, FALSE)
              /\ known = "_MSC_VER" :> 1500 @@ Flags(Announced[system])
DbugRests == dbug_off = FALSE /\ last = CHOOSE b \in Buffers : TRUE
PluginsRest == compiler = [msvc |-> FALSE, cplusplus |-> FALSE]
CtypeRests == signed = FALSE /\ i386 = FALSE

Init ==
    /\ driven \in {"storage", "trim", "deadlines", "ownership", "variables",
                   "configuration", "headers", "numbers", "debugging",
                   "plugging", "characters"}
    /\ driven # "ownership" => OwnerRests
    /\ driven # "configuration" => ConfigRests
    /\ driven # "headers" => WidthRests
    /\ driven # "debugging" => DbugRests
    /\ driven # "plugging" => PluginsRest
    /\ driven # "characters" => CtypeRests
    /\ StoreInit /\ TrimInit /\ DeadlineInit /\ OwnerInit /\ VarInit
    /\ ConfigInit /\ WidthInit /\ NumberInit /\ DbugInit
    /\ PluginsInit /\ CtypeInit

(* The part that is driven steps, and the others rest.                     *)
Drive(part, step) == driven = part /\ step /\ UNCHANGED driven

Next ==
    \/ /\ Drive("storage", StoreNext)
       /\ UNCHANGED <<trim, deadlines, ownership, variables, configuration,
                       headers, numbers, debugging, plugging, characters>>
    \/ /\ Drive("trim", TrimNext)
       /\ UNCHANGED <<storage, deadlines, ownership, variables, configuration,
                       headers, numbers, debugging, plugging, characters>>
    \/ /\ Drive("deadlines", DeadlineNext)
       /\ UNCHANGED <<storage, trim, ownership, variables, configuration, headers,
                       numbers, debugging, plugging, characters>>
    \/ /\ Drive("ownership", OwnerNext)
       /\ UNCHANGED <<storage, trim, deadlines, variables, configuration, headers,
                       numbers, debugging, plugging, characters>>
    \/ /\ Drive("variables", VarNext)
       /\ UNCHANGED <<storage, trim, deadlines, ownership, configuration, headers,
                       numbers, debugging, plugging, characters>>
    \/ /\ Drive("configuration", ConfigNext)
       /\ UNCHANGED <<storage, trim, deadlines, ownership, variables, headers,
                       numbers, debugging, plugging, characters>>
    \/ /\ Drive("headers", WidthNext)
       /\ UNCHANGED <<storage, trim, deadlines, ownership, variables,
                       configuration, numbers, debugging, plugging, characters>>
    \/ /\ Drive("numbers", NumberNext)
       /\ UNCHANGED <<storage, trim, deadlines, ownership, variables,
                       configuration, headers, debugging, plugging, characters>>
    \/ /\ Drive("debugging", DbugNext)
       /\ UNCHANGED <<storage, trim, deadlines, ownership, variables,
                       configuration, headers, numbers, plugging, characters>>
    \/ /\ Drive("plugging", PluginsNext)
       /\ UNCHANGED <<storage, trim, deadlines, ownership, variables,
                       configuration, headers, numbers, debugging, characters>>
    \/ /\ Drive("characters", CtypeNext)
       /\ UNCHANGED <<storage, trim, deadlines, ownership, variables,
                       configuration, headers, numbers, debugging, plugging>>

Spec == Init /\ [][Next]_<<parts, driven>>
=============================================================================
