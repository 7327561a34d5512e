----------------------------- MODULE IdleTimer -----------------------------
(***************************************************************************)
(* When a server's loop calls idle() (SimpleServer::ThreadHandlerProc and  *)
(* calcSleepTime, which TelnetServer has too, and StopWatch).  Time passes *)
(* between any two readings of the clock, and all arithmetic is that of    *)
(* unsigned32.  What the loop does with its sockets is in SimpleServer and *)
(* Telnet.                                                                 *)
(***************************************************************************)
EXTENDS Integers

CONSTANTS
  UsPerMs, MsPerSec,  \* 1000 and 1000 in the code
  MinFreq,            \* MIN_FREQ, in milliseconds
  Freq,               \* m_nIdleFrequency, in milliseconds
  Width,              \* 2^32
  MaxNow              \* bound: the clock, in microseconds

ASSUME IdleTimerConstants ==
  /\ {UsPerMs, MsPerSec, MinFreq, Freq, Width, MaxNow} \subseteq Nat \ {0}
  /\ Freq >= MinFreq

VARIABLES
  loop,      \* where the loop is
  now,       \* gettimeofday(), in microseconds
  start,     \* the timer's m_tvStart
  timeout,   \* what select() is asked to sleep, in microseconds
  asleep,    \* when select() was called
  timedOut,  \* whether it returned 0
  idled,     \* whether idle() was called since
  slipped    \* whether the clock passed Freq between calcSleepTime()'s readings

timerVars == <<loop, now, start, timeout, asleep, timedOut, idled, slipped>>

UsPerSec == UsPerMs * MsPerSec

(* C's division, which rounds towards zero.                                *)
Quotient(a, b) == IF a >= 0 THEN a \div b ELSE -((-a) \div b)

(* elapsedMSecs(): seconds and microseconds are subtracted on their own.   *)
ElapsedMs(from, to) ==
  LET secs  == (to \div UsPerSec) - (from \div UsPerSec)
      msecs == Quotient((to % UsPerSec) - (from % UsPerSec), UsPerMs)
  IN (secs * MsPerSec + msecs) % Width

Milliseconds == ElapsedMs(start, now)

TimerInit ==
  /\ loop = "start" /\ now \in 0 .. UsPerSec - 1 /\ start = now
  /\ timeout = 0 /\ asleep = now
  /\ timedOut = FALSE /\ idled = TRUE /\ slipped = FALSE

-----------------------------------------------------------------------------
(* Between two steps of the loop, and while it sleeps: select() returns at *)
(* its timeout or any time later.                                          *)
Passes ==
  /\ now < MaxNow /\ now' = now + 1
  /\ UNCHANGED <<loop, start, timeout, asleep, timedOut, idled, slipped>>

(* idle() at the beginning takes what time it takes.                       *)
StartsTimer ==
  /\ loop = "start" /\ loop' = "calc"
  /\ start' = now
  /\ UNCHANGED <<now, timeout, asleep, timedOut, idled, slipped>>

(* calcSleepTime()'s first reading.                                        *)
TimeLeft ==
  /\ loop = "calc" /\ Milliseconds < Freq /\ loop' = "subtract"
  /\ UNCHANGED <<now, start, timeout, asleep, timedOut, idled, slipped>>

FullTime ==
  /\ loop = "calc" /\ Milliseconds >= Freq /\ loop' = "select"
  /\ timeout' = Freq * UsPerMs
  /\ slipped' = FALSE
  /\ UNCHANGED <<now, start, asleep, timedOut, idled>>

(* Its second reading: the difference and the product both wrap.           *)
Subtracts ==
  /\ loop = "subtract" /\ loop' = "select"
  /\ timeout' = (((Freq - Milliseconds) % Width) * UsPerMs) % Width
  /\ slipped' = (Milliseconds > Freq)
  /\ UNCHANGED <<now, start, asleep, timedOut, idled>>

Selects ==
  /\ loop = "select" /\ loop' = "asleep"
  /\ asleep' = now /\ idled' = FALSE
  /\ UNCHANGED <<now, start, timeout, timedOut, slipped>>

(* A socket is ready: its handlers run while the clock goes on.            *)
WakesToWork ==
  /\ loop = "asleep" /\ loop' = "check"
  /\ timedOut' = FALSE
  /\ UNCHANGED <<now, start, timeout, asleep, idled, slipped>>

WakesAtTimeout ==
  /\ loop = "asleep" /\ now - asleep >= timeout /\ loop' = "check"
  /\ timedOut' = TRUE
  /\ UNCHANGED <<now, start, timeout, asleep, idled, slipped>>

(* Slip: without the margin for a timer that is not precise.               *)
DueExactly == Milliseconds >= Freq

Due == Milliseconds >= (Freq - MinFreq) % Width

Idles ==
  /\ loop = "check" /\ Due /\ loop' = "calc"
  /\ start' = now /\ idled' = TRUE
  /\ UNCHANGED <<now, timeout, asleep, timedOut, slipped>>

IdlesNot ==
  /\ loop = "check" /\ ~Due /\ loop' = "calc"
  /\ UNCHANGED <<now, start, timeout, asleep, timedOut, idled, slipped>>

TimerNext ==
  \/ Passes \/ StartsTimer \/ TimeLeft \/ FullTime \/ Subtracts \/ Selects
  \/ WakesToWork \/ WakesAtTimeout \/ Idles \/ IdlesNot

TimerSpec == TimerInit /\ [][TimerNext]_timerVars

-----------------------------------------------------------------------------
(* "How much time we should sleep based on how much we have already        *)
(* slept": however often the loop was woken, a sleep asked for ends no     *)
(* more than a millisecond before the period is over, and is no longer     *)
(* than a period unless the clock passed it between the readings.          *)
SleepEndsWhenDue ==
  loop = "asleep" =>
     /\ asleep + timeout >= start + (Freq - 1) * UsPerMs
     /\ slipped \/ timeout <= Freq * UsPerMs

(* And the server that slept its time calls idle(): the two roundings, of  *)
(* the sleep asked for and of the time slept, never add up to a turn       *)
(* without.                                                                *)
IdlesWhenDue ==
  /\ SleepEndsWhenDue
  /\ loop = "calc" /\ timedOut => idled

(* "Repeating tasks at a regular interval": the server never asks to sleep *)
(* longer than the period.                                                 *)
SleepWithinFrequency == loop = "asleep" => timeout <= Freq * UsPerMs
=============================================================================
