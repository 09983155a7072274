----------------------------- MODULE TimeConversion ---------------------------
(***************************************************************************)
(* The arithmetic of time: the system time as a count of ticks (FILETIME), *)
(* the timespec of POSIX, the milliseconds that a Win32 wait takes.  An    *)
(* application asks for a time some way ahead, time passes, and a timed    *)
(* wait turns what is left into milliseconds; or it asks for a delay.      *)
(*                                                                         *)
(* The units are constants: a second has 10000000 ticks and 1000000000     *)
(* nanoseconds in the code, and DWORD and int have 2^32 values.            *)
(***************************************************************************)
EXTENDS Integers

CONSTANTS
  NsPerTick, TicksPerMs, MsPerSec,
  DwordValues, \* 2^w for the width w of DWORD, and of the int that seconds
  IntValues,   \* are cast to
  Offset,      \* PTW32_TIMESPEC_TO_FILETIME_OFFSET, in ticks
  Horizon,     \* a bound: the last tick after the offset
  Lag,         \* a bound: the ticks between asking for a time and waiting
  MaxSec       \* a bound: the seconds of an interval

VARIABLES
  ft,          \* the system time
  asked,       \* when abstime was asked for
  relative,    \* the interval that was asked for
  abstime,     \* the time that the application has got
  phase,       \* "ask", "wait", "done" or "delay"
  wait         \* the milliseconds of the wait, or EINVAL

vars == <<ft, asked, relative, abstime, phase, wait>>

NsPerMs     == NsPerTick * TicksPerMs
NsPerSec    == NsPerMs * MsPerSec
TicksPerSec == TicksPerMs * MsPerSec
INFINITE    == DwordValues - 1
EINVAL      == -1

\* The cast to DWORD.
Dword(n) == n % DwordValues

\* The cast to int: the low bits, read as a signed number.
ToInt(n) == ((n + IntValues \div 2) % IntValues) - IntValues \div 2

Intervals == [tv_sec : 0..MaxSec, tv_nsec : 0..(NsPerSec - 1)]
Ns(ts)    == ts.tv_sec * NsPerSec + ts.tv_nsec

-----------------------------------------------------------------------------
(* ptw32_timespec.c *)

\* The nanoseconds are what the truncated seconds leave, truncated in turn:
\* as IntValues seconds are a whole number of them, the fraction of a second.
FiletimeToTimespec(t) ==
  [tv_sec  |-> ToInt((t - Offset) \div TicksPerSec),
   tv_nsec |-> ((t - Offset) % TicksPerSec) * NsPerTick]

TimespecToFiletime(ts) ==
  ts.tv_sec * TicksPerSec + (ts.tv_nsec + NsPerTick \div 2) \div NsPerTick + Offset

-----------------------------------------------------------------------------
(* ptw32_relmillisecs.c *)

\* pthread_win32_getabstime_np
GetAbstime(t, rel) ==
  LET now == FiletimeToTimespec(t)
      ns  == now.tv_nsec + rel.tv_nsec
  IN  IF ns >= NsPerSec
        THEN [tv_sec |-> now.tv_sec + 1 + rel.tv_sec, tv_nsec |-> ns - NsPerSec]
        ELSE [tv_sec |-> now.tv_sec + rel.tv_sec, tv_nsec |-> ns]

\* Fault: a wait too short for a millisecond is none.
RelMillisecsDown(ts, t) ==
  LET delta == Ns(ts) - Ns(FiletimeToTimespec(t))
  IN  IF delta <= 0 THEN 0
      ELSE IF delta >= INFINITE * NsPerMs THEN INFINITE - 1
      ELSE delta \div NsPerMs

\* ptw32_relmillisecs: down to a millisecond, but never 0 for a time that is
\* still to come, and never INFINITE.
RelMillisecs(ts, t) ==
  LET delta == Ns(ts) - Ns(FiletimeToTimespec(t))
      ms    == delta \div NsPerMs
  IN  IF delta <= 0 THEN 0
      ELSE IF delta >= INFINITE * NsPerMs THEN INFINITE - 1
      ELSE IF ms = 0 THEN 1 ELSE ms

-----------------------------------------------------------------------------
(* pthread_delay_np *)

\* DWORD arithmetic, rounding up; a sum that is negative as an int is refused.
DelayMillisecs(rel) ==
  LET secs == Dword(rel.tv_sec * MsPerSec)
      ms   == Dword(secs + (rel.tv_nsec + NsPerMs - 1) \div NsPerMs)
  IN  IF ms >= DwordValues \div 2 THEN EINVAL ELSE ms

-----------------------------------------------------------------------------
Init ==
  /\ ft \in Offset..(Offset + Horizon)
  /\ asked = ft
  /\ relative = [tv_sec |-> 0, tv_nsec |-> 0]
  /\ abstime = FiletimeToTimespec(ft)
  /\ phase = "ask"
  /\ wait = 0

\* The application asks for a time.
Ask(rel) ==
  /\ phase = "ask"
  /\ relative' = rel
  /\ abstime' = GetAbstime(ft, rel)
  /\ phase' = "wait"
  /\ UNCHANGED <<ft, asked, wait>>

\* The clock goes on.
Tick ==
  /\ phase = "wait" /\ ft < asked + Lag
  /\ ft' = ft + 1
  /\ UNCHANGED <<asked, relative, abstime, phase, wait>>

\* A timed wait for abstime begins.
TimedWait ==
  /\ phase = "wait"
  /\ wait' = RelMillisecs(abstime, ft)
  /\ phase' = "done"
  /\ UNCHANGED <<ft, asked, relative, abstime>>

\* pthread_delay_np; an interval of zero only yields.
Delay(rel) ==
  /\ phase = "ask" /\ Ns(rel) > 0
  /\ relative' = rel
  /\ wait' = DelayMillisecs(rel)
  /\ phase' = "delay"
  /\ UNCHANGED <<ft, asked, abstime>>

Next == Tick \/ TimedWait \/ \E rel \in Intervals : Ask(rel) \/ Delay(rel)

Spec == Init /\ [][Next]_vars

-----------------------------------------------------------------------------
\* The nanoseconds that are left of what was asked for.
Left == Ns(relative) - (ft - asked) * NsPerTick

\* The seconds of the system time have passed the largest int meanwhile.
Wraps == FiletimeToTimespec(ft).tv_sec < FiletimeToTimespec(asked).tv_sec

TypeOK ==
  /\ ft \in Offset..(Offset + Horizon + Lag)
  /\ relative \in Intervals
  /\ abstime.tv_nsec \in 0..(NsPerSec - 1)
  /\ wait \in 0..(INFINITE - 1) \union {EINVAL}

\* A timed wait waits for what is left of the interval: not at all if nothing
\* is left, else at least a millisecond, no more than that too long, less than
\* that too short, and never for ever (ptw32_relmillisecs).  So it does as long
\* as the seconds fit an int, and after they no longer do; the wait across
\* that moment is lost.
WaitAccurate ==
  phase = "done" /\ ~Wraps =>
    /\ wait = 0 <=> Left <= 0
    /\ wait < INFINITE
    /\ wait # INFINITE - 1 /\ wait > 0 =>
         /\ Left - wait * NsPerMs < NsPerMs
         /\ wait * NsPerMs - Left < NsPerMs
    /\ wait = INFINITE - 1 => Left >= wait * NsPerMs

\* A FILETIME that has been turned into a timespec can be turned back, while
\* the seconds fit an int.
RoundTrip ==
  LET ts == FiletimeToTimespec(ft)
  IN  ft - Offset < (IntValues \div 2) * TicksPerSec => TimespecToFiletime(ts) = ft

\* pthread_delay_np does not return before the end of the interval, nor more
\* than a millisecond after it, if the interval has less than DwordValues of
\* them; half of these are refused.
DelayAccurate ==
  phase = "delay" /\ Ns(relative) <= INFINITE * NsPerMs =>
    IF wait = EINVAL
      THEN Ns(relative) > (DwordValues \div 2 - 1) * NsPerMs
      ELSE /\ wait * NsPerMs >= Ns(relative)
           /\ wait * NsPerMs - Ns(relative) < NsPerMs

\* pthread_delay_np does not return before the end of the interval.
DelayNeverShort ==
  phase = "delay" /\ wait # EINVAL => wait * NsPerMs >= Ns(relative)
=============================================================================
