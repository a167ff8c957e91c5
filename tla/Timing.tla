------------------------------- MODULE Timing -------------------------------
(***************************************************************************)
(* The arithmetic on time of assignment 1 (main.c): the moment msleep hands *)
(* to clock_nanosleep, on the board where a long has 32 bits, and the       *)
(* duration main hands to usleep, an unsigned int.                          *)
(***************************************************************************)
EXTENDS Integers

MaxLong == 2147483647
UInt == 4294967296
Second == 1000000000

\* start.tv_nsec after the milliseconds are added
RawNsec(nsec, msec) == nsec + (msec % 1000) * 1000000

\* tv_sec and tv_nsec of the time that msleep sleeps until
WakeSec(sec, nsec, msec) ==
    sec + (msec \div 1000) + IF RawNsec(nsec, msec) > Second - 1 THEN 1 ELSE 0

WakeNsec(nsec, msec) ==
    IF RawNsec(nsec, msec) > Second - 1
    THEN RawNsec(nsec, msec) - Second ELSE RawNsec(nsec, msec)

\* (unsigned int) program.duration * 1000
UsleepArgument(duration) == ((duration % UInt) * 1000) % UInt
=============================================================================
