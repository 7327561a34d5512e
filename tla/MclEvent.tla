------------------------------ MODULE MclEvent ------------------------------
(***************************************************************************)
(* The event of mclevent.cpp: a flag behind m_mutexSignal, a condition     *)
(* variable threads sleep on with m_mutexEvent.  Set() takes m_mutexSignal *)
(* only, so it runs between any two steps of Wait().                       *)
(*                                                                         *)
(* A section that holds m_mutexSignal is one step.  m_mutexEvent is held   *)
(* from Wait()'s test of the flag until it sleeps or returns, and again    *)
(* from waking up until it returns.                                        *)
(***************************************************************************)
EXTENDS Naturals, FiniteSets

CONSTANTS
  Waiter,         \* threads that call Wait()
  TimedWaits,     \* whether they pass a time or INFINITE
  MaxSpurious,    \* how often pthread_cond_wait() may return for no reason
  Resets,         \* whether Reset() is called
  MaxSets,        \* bound: calls of Set()
  MaxReturns      \* bound: a waiter's Wait()s that returned WAIT_OBJECT_0

ASSUME EventConstants ==
  /\ IsFiniteSet(Waiter)
  /\ TimedWaits \in BOOLEAN /\ Resets \in BOOLEAN
  /\ MaxSpurious \in Nat /\ MaxSets \in Nat /\ MaxReturns \in Nat

Nobody == "nobody"
ASSUME NobodyWaits == Nobody \notin Waiter

VARIABLES
  autoSignal,  \* m_bAutoSignal: waiting consumes the signal
  signaled,    \* m_bSignaled
  mutexEvent,  \* who holds m_mutexEvent
  inWait,      \* where each waiter is in Wait()
  result,      \* what its last Wait() returned
  missed,      \* Set() was called after it found the flag unset, in time
  sets,        \* calls of Set()
  spurious,    \* wakeups for no reason
  returns      \* how many of each waiter's Wait()s returned WAIT_OBJECT_0

eventVars == <<autoSignal, signaled, mutexEvent, inWait, result, missed, sets,
               spurious, returns>>

Results == {"none", "WAIT_OBJECT_0", "WAIT_TIMEOUT"}

(* found: the flag was set; blocks: it was not, and Wait() is about to     *)
(* sleep; woken, timedOut: out of pthread_cond_wait() but for m_mutexEvent;*)
(* reset, resetTimeout: about to call autoResetSignal() and return.        *)
WaitPlace == {"out", "found", "blocks", "asleep", "woken", "timedOut",
          "reset", "resetTimeout"}

At(p) == {t \in Waiter : inWait[t] = p}

EventInit ==
  /\ autoSignal \in BOOLEAN
  /\ signaled = FALSE /\ mutexEvent = Nobody
  /\ inWait = [t \in Waiter |-> "out"]
  /\ result = [t \in Waiter |-> "none"]
  /\ missed = [t \in Waiter |-> FALSE]
  /\ sets = 0 /\ spurious = 0
  /\ returns = [t \in Waiter |-> 0]

-----------------------------------------------------------------------------
(* Wait()                                                                  *)

(* Slip: the flag is not looked at.                                        *)
TestsNothing(t) ==
  /\ inWait[t] = "out" /\ mutexEvent = Nobody /\ returns[t] < MaxReturns
  /\ mutexEvent' = t
  /\ inWait' = [inWait EXCEPT ![t] = "blocks"]
  /\ missed' = [missed EXCEPT ![t] = FALSE]
  /\ UNCHANGED <<autoSignal, signaled, result, sets, spurious, returns>>

Tests(t) ==
  /\ inWait[t] = "out" /\ mutexEvent = Nobody /\ returns[t] < MaxReturns
  /\ mutexEvent' = t
  /\ inWait' = [inWait EXCEPT ![t] = IF signaled THEN "found" ELSE "blocks"]
  /\ missed' = [missed EXCEPT ![t] = FALSE]
  /\ UNCHANGED <<autoSignal, signaled, result, sets, spurious, returns>>

Sleeps(t) ==
  /\ inWait[t] = "blocks"
  /\ mutexEvent' = Nobody
  /\ inWait' = [inWait EXCEPT ![t] = "asleep"]
  /\ UNCHANGED <<autoSignal, signaled, result, missed, sets, spurious, returns>>

TimesOut(t) ==
  /\ TimedWaits /\ inWait[t] = "asleep"
  /\ inWait' = [inWait EXCEPT ![t] = "timedOut"]
  /\ UNCHANGED <<autoSignal, signaled, mutexEvent, result, missed, sets, spurious,
                 returns>>

WakesForNothing(t) ==
  /\ inWait[t] = "asleep" /\ spurious < MaxSpurious
  /\ inWait' = [inWait EXCEPT ![t] = "woken"]
  /\ spurious' = spurious + 1
  /\ UNCHANGED <<autoSignal, signaled, mutexEvent, result, missed, sets, returns>>

Reacquires(t) ==
  /\ inWait[t] \in {"woken", "timedOut"} /\ mutexEvent = Nobody
  /\ mutexEvent' = t
  /\ inWait' = [inWait EXCEPT ![t] = IF inWait[t] = "woken" THEN "reset" ELSE "resetTimeout"]
  /\ UNCHANGED <<autoSignal, signaled, result, missed, sets, spurious, returns>>

(* Slip: a thread that found the flag set leaves it set.                   *)
ReturnsKeepingFlag(t) ==
  /\ inWait[t] \in {"found", "reset", "resetTimeout"}
  /\ signaled' = (signaled /\ ~(autoSignal /\ inWait[t] # "found"))
  /\ mutexEvent' = Nobody
  /\ inWait' = [inWait EXCEPT ![t] = "out"]
  /\ IF inWait[t] = "resetTimeout"
       THEN /\ result' = [result EXCEPT ![t] = "WAIT_TIMEOUT"]
            /\ UNCHANGED returns
       ELSE /\ result' = [result EXCEPT ![t] = "WAIT_OBJECT_0"]
            /\ returns' = [returns EXCEPT ![t] = @ + 1]
  /\ UNCHANGED <<autoSignal, missed, sets, spurious>>

(* autoResetSignal(), the unlock and the return: whatever the flag says by *)
(* now, and whether or not this thread was signaled.                       *)
Returns(t) ==
  /\ inWait[t] \in {"found", "reset", "resetTimeout"}
  /\ signaled' = (signaled /\ ~autoSignal)
  /\ mutexEvent' = Nobody
  /\ inWait' = [inWait EXCEPT ![t] = "out"]
  /\ IF inWait[t] = "resetTimeout"
       THEN /\ result' = [result EXCEPT ![t] = "WAIT_TIMEOUT"]
            /\ UNCHANGED returns
       ELSE /\ result' = [result EXCEPT ![t] = "WAIT_OBJECT_0"]
            /\ returns' = [returns EXCEPT ![t] = @ + 1]
  /\ UNCHANGED <<autoSignal, missed, sets, spurious>>

-----------------------------------------------------------------------------
(* Set() and Reset()                                                       *)

Set ==
  /\ sets < MaxSets
  /\ sets' = sets + 1
  /\ signaled' = TRUE
  /\ missed' = [t \in Waiter |-> missed[t] \/ inWait[t] \in {"blocks", "asleep"}]
  /\ IF At("asleep") = {}
       THEN UNCHANGED inWait
       ELSE \E t \in At("asleep") : inWait' = [inWait EXCEPT ![t] = "woken"]
  /\ UNCHANGED <<autoSignal, mutexEvent, result, spurious, returns>>

Reset ==
  /\ Resets /\ signaled
  /\ signaled' = FALSE
  /\ UNCHANGED <<autoSignal, mutexEvent, inWait, result, missed, sets, spurious, returns>>

Wait(t) == Tests(t) \/ Sleeps(t) \/ Reacquires(t) \/ Returns(t)

EventNext ==
  \/ \E t \in Waiter : Wait(t) \/ TimesOut(t) \/ WakesForNothing(t)
  \/ Set
  \/ Reset

EventSpec == EventInit /\ [][EventNext]_eventVars

-----------------------------------------------------------------------------
(* The type invariant; m_mutexEvent is held by the thread between its two  *)
(* sleeping places, and by one thread at a time.                           *)
EventTypeOK ==
  /\ autoSignal \in BOOLEAN /\ signaled \in BOOLEAN
  /\ mutexEvent \in Waiter \cup {Nobody}
  /\ inWait \in [Waiter -> WaitPlace]
  /\ result \in [Waiter -> Results]
  /\ missed \in [Waiter -> BOOLEAN]
  /\ sets \in Nat /\ spurious \in Nat /\ returns \in [Waiter -> Nat]
  /\ \A t \in Waiter :
       mutexEvent = t <=> inWait[t] \in {"found", "blocks", "reset", "resetTimeout"}

(* A thread that is about to sleep, or sleeps, beside a flag that is set   *)
(* looked at it before the Set(): Wait() never sleeps on a signal that was *)
(* there when it came.                                                     *)
SleeperPredatesSet ==
  \A t \in Waiter : signaled /\ inWait[t] \in {"blocks", "asleep"} => missed[t]

(* An auto-reset event lets a thread through no more often than it is set, *)
(* or pthread_cond_wait() returns for nothing: the wakeup and the flag of  *)
(* one Set() never serve the same thread twice.                            *)
OncePerThread ==
  autoSignal => \A t \in Waiter : returns[t] <= sets + spurious
=============================================================================
