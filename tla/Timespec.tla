------------------------------ MODULE Timespec ------------------------------
(* set_timespec(), set_timespec_nsec() and cmp_timespec() of my_pthread.h: *)
(* the deadlines given to pthread_cond_timedwait().  A platform is one of  *)
(* the three variants: "win" counts ticks of 100 ns, "ts" and "tv" have    *)
(* seconds and nanoseconds, of which "ts" reads the time in whole seconds. *)
(* The units are constants, so that small numbers show the carries, and so *)
(* is the largest long of Windows; what has 64 bits there is not bounded.  *)
EXTENDS Integers, Sequences

CONSTANTS
    NsTick,         \* nanoseconds of a tick of my_getsystime(): 100
    UsecTicks,      \* ticks of a microsecond: 10
    MsecTicks,      \* ticks of a millisecond: 10 000
    SecTicks,       \* ticks of a second: 10 000 000
    LONG_MAX,       \* the largest long of Windows: 2 147 483 647
    ClockMax,       \* bound: nanoseconds the clock runs
    SecMax, NsecMax \* bounds: timeouts asked for

ASSUME UnitAssumption ==
    /\ {NsTick, UsecTicks, MsecTicks, SecTicks} \subseteq Nat \ {0}
    /\ MsecTicks % UsecTicks = 0 /\ SecTicks % MsecTicks = 0
    /\ {LONG_MAX, ClockMax, SecMax, NsecMax} \subseteq Nat

Variant == {"win", "ts", "tv"}
NsUsec == NsTick * UsecTicks
NsMsec == NsTick * MsecTicks
NsSec == NsTick * SecTicks
MsecSec == SecTicks \div MsecTicks

VARIABLES
    clock,          \* the time, in nanoseconds
    set             \* the deadlines set, with what was asked for and when

deadlines == <<clock, set>>

(* What the system calls return.                                           *)
my_getsystime == clock \div NsTick
time == clock \div NsSec
gettimeofday == [tv_sec |-> clock \div NsSec,
                 tv_usec |-> (clock % NsSec) \div NsUsec]
-----------------------------------------------------------------------------
(* Windows.  The milliseconds are cut to a long.                           *)
long(n) == ((n + LONG_MAX + 1) % (2 * (LONG_MAX + 1))) - (LONG_MAX + 1)
win_set_timespec(SEC) ==
    [tv |-> my_getsystime + SEC * SecTicks,
     max_timeout_msec |-> long(SEC * MsecSec)]
win_set_timespec_nsec(NSEC) ==
    [tv |-> my_getsystime + NSEC \div NsTick,
     max_timeout_msec |-> long(NSEC \div NsMsec)]
win_cmp_timespec(TS1, TS2) ==
    IF TS1.tv > TS2.tv THEN 1 ELSE IF TS1.tv < TS2.tv THEN -1 ELSE 0

set_timespec(p, SEC) ==
    CASE p = "win" -> win_set_timespec(SEC)
      [] p = "ts" -> [sec |-> time + SEC, nsec |-> 0]
      [] p = "tv" -> [sec |-> gettimeofday.tv_sec + SEC,
                      nsec |-> gettimeofday.tv_usec * NsUsec]

(* mutant: the nanoseconds are not carried into the seconds.               *)
set_timespec_nsec_NoCarry(p, NSEC) ==
    IF p = "win" THEN win_set_timespec_nsec(NSEC)
    ELSE [sec |-> my_getsystime \div SecTicks,
          nsec |-> (my_getsystime % SecTicks) * NsTick + NSEC]
set_timespec_nsec(p, NSEC) ==
    LET now == my_getsystime + NSEC \div NsTick
    IN IF p = "win" THEN win_set_timespec_nsec(NSEC)
       ELSE [sec |-> now \div SecTicks,
             nsec |-> (now % SecTicks) * NsTick + (NSEC % NsTick)]

cmp_timespec(p, TS1, TS2) ==
    LET after(a, b) == a.sec > b.sec \/ (a.sec = b.sec /\ a.nsec > b.nsec)
    IN IF p = "win" THEN win_cmp_timespec(TS1, TS2)
       ELSE IF after(TS1, TS2) THEN 1 ELSE IF after(TS2, TS1) THEN -1 ELSE 0
-----------------------------------------------------------------------------
DeadlineInit == clock = 0 /\ set = <<>>

Set(p, macro, asked, ts) ==
    /\ set' = Append(set, [on |-> p, macro |-> macro, at |-> clock,
                           asked |-> asked, ts |-> ts])
    /\ UNCHANGED clock

(* Two deadlines on one platform, and the clock between them.              *)
DeadlineNext ==
    /\ Len(set) < 2
    /\ \/ clock < ClockMax /\ clock' = clock + 1 /\ UNCHANGED set
       \/ \E p \in Variant :
             /\ \A k \in DOMAIN set : set[k].on = p
             /\ \/ \E s \in 0 .. SecMax :
                      Set(p, "sec", s * NsSec, set_timespec(p, s))
                \/ \E n \in 0 .. NsecMax :
                      Set(p, "nsec", n, set_timespec_nsec(p, n))

DeadlineSpec == DeadlineInit /\ [][DeadlineNext]_deadlines
-----------------------------------------------------------------------------
(* The moment a deadline stands for.                                       *)
Instant(d) == IF d.on = "win" THEN d.ts.tv * NsTick
                              ELSE d.ts.sec * NsSec + d.ts.nsec

(* How much earlier than asked a deadline may be: the resolution of the    *)
(* clock it is computed from, and on Windows that of the deadline.         *)
Resolution(d) ==
    CASE d.macro = "sec" /\ d.on = "ts" -> NsSec
      [] d.macro = "sec" /\ d.on = "tv" -> NsUsec
      [] d.macro = "nsec" /\ d.on = "win" -> 2 * NsTick - 1
      [] OTHER -> NsTick

(* The cap of a wait on Windows: the milliseconds asked for where a long   *)
(* holds them, and less, maybe less than nothing, where it does not.       *)
CappedTo(max, msec) == max <= msec /\ (max = msec <=> msec <= LONG_MAX)

(* A deadline is never late, never early by the resolution, in the form    *)
(* pthread_cond_timedwait() accepts (nanoseconds of less than a second),   *)
(* and on Windows capped to the whole milliseconds asked for, or to less   *)
(* when they are too many for max_timeout_msec.                            *)
DeadlinesAreAsked == \A k \in DOMAIN set :
    LET d == set[k]
        due == d.at + d.asked
    IN /\ Instant(d) <= due /\ due - Instant(d) < Resolution(d)
       /\ d.on # "win" => d.ts.nsec \in 0 .. NsSec - 1
       /\ d.on = "win" => CappedTo(d.ts.max_timeout_msec, d.asked \div NsMsec)

(* cmp_timespec() orders deadlines by the moments they stand for, and of   *)
(* two deadlines set by one macro the later one that asked for no less is  *)
(* not the earlier.                                                        *)
DeadlinesInOrder == Len(set) = 2 =>
    LET a == set[1]
        b == set[2]
        cmp == cmp_timespec(a.on, a.ts, b.ts)
    IN /\ cmp = 1 <=> Instant(a) > Instant(b)
       /\ cmp = -1 <=> Instant(a) < Instant(b)
       /\ a.macro = b.macro /\ a.asked <= b.asked => cmp < 1

(* The deadlines of set_timespec() and set_timespec_nsec() are the ones    *)
(* asked for, and cmp_timespec() compares them as what they stand for.     *)
DeadlinesTrue == DeadlinesAreAsked /\ DeadlinesInOrder
=============================================================================
