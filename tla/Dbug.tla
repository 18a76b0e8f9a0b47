-------------------------------- MODULE Dbug --------------------------------
(* The macros of my_dbug.h around the functions a thread runs.  In a debug *)
(* build each of them has a frame on its own C stack in which the debugger *)
(* notes the function that called it; the debugger itself knows one thing  *)
(* only, the function that is running.  In any other build the macros are  *)
(* nothing, or plain C.  A function is the depth it runs at, 0 is the code *)
(* outside them all.  A long jump ends functions without their leaving the *)
(* frames, and so does DBUG_CRASH_RETURN.                                  *)
EXTENDS Integers

CONSTANTS
    MaxDepth,       \* bound: the deepest nesting of calls
    Buffers         \* the jmp_bufs of the program

ASSUME DepthAssumption == MaxDepth \in Nat \ {0}

VARIABLES
    dbug_off,       \* is DBUG_OFF, or _lint, defined in the end?
    depth,          \* the functions that are running: 1 .. depth
    frame,          \* their frames: frame[d] is the func of _db_stack_frame_
    func,           \* the function the debugger takes for the running one
    jmp,            \* the function _db_setjmp_ has saved, the last time
    buffer,         \* per jmp_buf, the function it goes back to, or 0
    last,           \* the jmp_buf set last
    misled,         \* where the debugger has been told nothing, or wrong
    stopped         \* has the program been ended?

debugging ==
    <<dbug_off, depth, frame, func, jmp, buffer, last, misled, stopped>>

(* DBUG_ON takes precedence over DBUG_OFF, and being forced off over both. *)
BuildIsOff(set) ==
    LET off == "DBUG_OFF" \in set /\ "DBUG_ON" \notin set
    IN off \/ set \cap {"FORCE_DBUG_OFF", "_lint"} # {}

DbugInit ==
    /\ \E set \in SUBSET {"DBUG_ON", "DBUG_OFF", "FORCE_DBUG_OFF", "_lint"} :
          dbug_off = BuildIsOff(set)
    /\ depth = 0 /\ frame = [d \in 1 .. MaxDepth |-> 0] /\ func = 0
    /\ jmp = 0 /\ buffer = [b \in Buffers |-> 0] /\ last \in Buffers
    /\ misled = {} /\ stopped = FALSE
-----------------------------------------------------------------------------
(* The debugger, which the header only declares.  What it does when it is  *)
(* left by another function than the running one is not seen here: it goes *)
(* back to what the frame says, or gives up.                               *)
_db_enter_ == /\ frame' = [frame EXCEPT ![depth + 1] = func]
              /\ func' = depth + 1
_db_return_ == /\ func' = frame[depth]
               /\ stopped' \in IF func = depth THEN {FALSE} ELSE BOOLEAN
_db_setjmp_ == jmp' = func
_db_longjmp_ == func' = jmp
_db_keyword_(on) == ~dbug_off /\ on

Jumps == <<jmp, buffer, last>>
(* A buffer is of no use once the function that has set it has ended.      *)
EndTo(d) == /\ depth' = d
            /\ buffer' = [b \in Buffers |-> IF buffer[b] > d THEN 0 ELSE buffer[b]]
            /\ UNCHANGED <<jmp, last>>
Running == ~stopped /\ depth > 0
-----------------------------------------------------------------------------
EnterFunction ==
    /\ ~stopped /\ depth < MaxDepth /\ depth' = depth + 1
    /\ IF dbug_off THEN UNCHANGED <<frame, func>> ELSE _db_enter_
    /\ UNCHANGED <<dbug_off, Jumps, misled>>
DBUG_ENTER == EnterFunction /\ UNCHANGED stopped

DBUG_LEAVE ==
    /\ IF dbug_off THEN UNCHANGED <<func, stopped>> ELSE _db_return_
    /\ misled' = misled \ {depth}
DBUG_RETURN ==
    /\ Running /\ DBUG_LEAVE /\ EndTo(depth - 1)
    /\ UNCHANGED <<dbug_off, frame>>
DBUG_VOID_RETURN ==
    /\ Running /\ DBUG_LEAVE /\ EndTo(depth - 1)
    /\ UNCHANGED <<dbug_off, frame>>

(* The debugger has one place for all buffers: the call takes no argument. *)
DBUG_SETJMP(b) ==
    /\ Running /\ buffer' = [buffer EXCEPT ![b] = depth] /\ last' = b
    /\ IF dbug_off THEN UNCHANGED jmp ELSE _db_setjmp_
    /\ UNCHANGED <<dbug_off, depth, frame, func, misled, stopped>>
(* mutant: the debugger is not told of the jump.                           *)
DBUG_LONGJMP_Plain(b) ==
    /\ Running /\ ~dbug_off /\ buffer[b] > 0 /\ EndTo(buffer[b])
    /\ misled' = (misled \cap 0 .. buffer[b]) \cup
                 (IF buffer[last] = buffer[b] THEN {} ELSE {buffer[b]})
    /\ UNCHANGED <<dbug_off, frame, func, stopped>>
(* Without a debugger the macro takes one argument and gives it to         *)
(* longjmp, which takes two: no program that jumps compiles.               *)
DBUG_LONGJMP(b) ==
    /\ Running /\ ~dbug_off /\ buffer[b] > 0
    /\ _db_longjmp_ /\ EndTo(buffer[b])
    /\ misled' = (misled \cap 0 .. buffer[b]) \cup
                 (IF buffer[last] = buffer[b] THEN {} ELSE {buffer[b]})
    /\ UNCHANGED <<dbug_off, frame, stopped>>
-----------------------------------------------------------------------------
(* A failed assertion and an abort end a program in a debug build, and are *)
(* nothing in any other.                                                   *)
DBUG_ABORT(reached) == stopped' = (~dbug_off /\ reached)
DBUG_EXECUTE_IF(on) == DBUG_ABORT(_db_keyword_(on))
DBUG_ASSERT(holds) ==
    /\ ~stopped /\ DBUG_ABORT(~holds)
    /\ UNCHANGED <<dbug_off, depth, frame, func, Jumps, misled>>
DBUG_SUICIDE == DBUG_ASSERT(FALSE)

(* The crash macros abort when the name of the function is a keyword.      *)
DBUG_CHECK_CRASH(on) == DBUG_EXECUTE_IF(on)
DBUG_CRASH_ENTER(on) == EnterFunction /\ DBUG_CHECK_CRASH(on)
(* In a debug build this does not return: the function runs on to its end, *)
(* and its frame is not left.                                              *)
DBUG_CRASH_RETURN(on) ==
    /\ Running /\ DBUG_CHECK_CRASH(on) /\ EndTo(depth - 1)
    /\ misled' = (misled \ {depth}) \cup IF dbug_off THEN {} ELSE {depth - 1}
    /\ UNCHANGED <<dbug_off, frame, func>>

DbugNext ==
    \/ DBUG_ENTER \/ DBUG_RETURN \/ DBUG_VOID_RETURN
    \/ \E b \in Buffers : DBUG_SETJMP(b) \/ DBUG_LONGJMP(b)
    \/ \E on \in BOOLEAN : \/ DBUG_ASSERT(on) \/ DBUG_CRASH_ENTER(on)
                           \/ DBUG_CRASH_RETURN(on)
    \/ DBUG_SUICIDE

DbugSpec == DbugInit /\ [][DbugNext]_debugging
-----------------------------------------------------------------------------
(* The debugger of my_dbug.h knows which function is running, and each     *)
(* frame which function called it.  It is wrong only in a function that    *)
(* called one ending in DBUG_CRASH_RETURN, or that was jumped to by another*)
(* buffer than the last one set; what such a function calls is right, and  *)
(* all is right again once it has returned.                                *)
FunctionsKnown == ~dbug_off =>
    /\ depth \notin misled => func = depth
    /\ \A d \in 1 .. depth : d - 1 \notin misled => frame[d] = d - 1
=============================================================================
