------------------------------- MODULE RWLock -------------------------------
(***************************************************************************)
(* The readers-writer lock of threadutils.cpp: two counters behind a mutex *)
(* and one condition variable on which readers and writers both wait.      *)
(*                                                                         *)
(* The mutex is held throughout each operation except inside               *)
(* pthread_cond_wait(), which lets go of it and falls asleep in one step,  *)
(* so an operation is one action up to there, and one more for every time  *)
(* the thread has been woken and holds the mutex again.                    *)
(*                                                                         *)
(* Threads call runlock() and wunlock() only for a lock they took: the     *)
(* early returns for a lock nobody holds are then never taken.             *)
(***************************************************************************)
EXTENDS Naturals, FiniteSets

CONSTANT Thread   \* the threads that share the lock

ASSUME ThreadsFinite == IsFiniteSet(Thread)

VARIABLES
  nReadersReading,  \* m_nReadersReading
  nWriterWriting,   \* m_nWriterWriting
  place                \* what each thread does with the lock

lockVars == <<nReadersReading, nWriterWriting, place>>

(* asleep: in pthread_cond_wait(); woken: out of it, but not yet back      *)
(* round the while loop with the mutex.                                    *)
LockPlace == {"out", "rasleep", "wasleep", "rwoken", "wwoken", "reading", "writing"}

Asleep(t) == place[t] \in {"rasleep", "wasleep"}
Woken(t)  == place[t] \in {"rwoken", "wwoken"}

Wake(t) == IF place[t] = "rasleep" THEN "rwoken" ELSE "wwoken"

Readers == {t \in Thread : place[t] = "reading"}
Writers == {t \in Thread : place[t] = "writing"}

Free == nReadersReading = 0 /\ nWriterWriting = 0

LockInit ==
  /\ nReadersReading = 0 /\ nWriterWriting = 0
  /\ place = [t \in Thread |-> "out"]

-----------------------------------------------------------------------------
(* rlock()                                                                 *)

(* Slip: nobody looks for a writer.                                        *)
GetsReadAnyhow(t) ==
  /\ place[t] \in {"out", "rwoken"}
  /\ nReadersReading' = nReadersReading + 1
  /\ place' = [place EXCEPT ![t] = "reading"]
  /\ UNCHANGED nWriterWriting

GetsRead(t) ==
  /\ place[t] \in {"out", "rwoken"}
  /\ nWriterWriting = 0
  /\ nReadersReading' = nReadersReading + 1
  /\ place' = [place EXCEPT ![t] = "reading"]
  /\ UNCHANGED nWriterWriting

WaitsToRead(t) ==
  /\ place[t] \in {"out", "rwoken"}
  /\ nWriterWriting # 0
  /\ place' = [place EXCEPT ![t] = "rasleep"]
  /\ UNCHANGED <<nReadersReading, nWriterWriting>>

(* wlock()                                                                 *)

GetsWrite(t) ==
  /\ place[t] \in {"out", "wwoken"}
  /\ Free
  /\ nWriterWriting' = nWriterWriting + 1
  /\ place' = [place EXCEPT ![t] = "writing"]
  /\ UNCHANGED nReadersReading

WaitsToWrite(t) ==
  /\ place[t] \in {"out", "wwoken"}
  /\ ~Free
  /\ place' = [place EXCEPT ![t] = "wasleep"]
  /\ UNCHANGED <<nReadersReading, nWriterWriting>>

(* runlock(): the last reader out signals, which wakes one sleeper.        *)

MoreReaders(t) ==
  /\ place[t] = "reading" /\ nReadersReading > 1
  /\ nReadersReading' = nReadersReading - 1
  /\ place' = [place EXCEPT ![t] = "out"]
  /\ UNCHANGED nWriterWriting

(* Slip: no signal.                                                        *)
LastReaderSilent(t) ==
  /\ place[t] = "reading" /\ nReadersReading = 1
  /\ nReadersReading' = 0
  /\ place' = [place EXCEPT ![t] = "out"]
  /\ UNCHANGED nWriterWriting

LastReader(t) ==
  /\ place[t] = "reading" /\ nReadersReading = 1
  /\ nReadersReading' = 0
  /\ IF \E u \in Thread : Asleep(u)
       THEN \E u \in Thread :
              /\ Asleep(u)
              /\ place' = [place EXCEPT ![t] = "out", ![u] = Wake(u)]
       ELSE place' = [place EXCEPT ![t] = "out"]
  /\ UNCHANGED nWriterWriting

(* wunlock(): a broadcast, which wakes them all.                           *)

(* Slip: a signal, not a broadcast.                                        *)
WUnlockSignals(t) ==
  /\ place[t] = "writing" /\ nWriterWriting # 0
  /\ nWriterWriting' = 0
  /\ IF \E u \in Thread : Asleep(u)
       THEN \E u \in Thread :
              /\ Asleep(u)
              /\ place' = [place EXCEPT ![t] = "out", ![u] = Wake(u)]
       ELSE place' = [place EXCEPT ![t] = "out"]
  /\ UNCHANGED nReadersReading

WUnlock(t) ==
  /\ place[t] = "writing" /\ nWriterWriting # 0
  /\ nWriterWriting' = 0
  /\ place' = [u \in Thread |-> IF u = t THEN "out"
                             ELSE IF Asleep(u) THEN Wake(u) ELSE place[u]]
  /\ UNCHANGED nReadersReading

(* pthread_cond_wait() may return for no reason.                           *)
Spurious(t) ==
  /\ Asleep(t)
  /\ place' = [place EXCEPT ![t] = Wake(t)]
  /\ UNCHANGED <<nReadersReading, nWriterWriting>>

RLock(t)   == GetsRead(t) \/ WaitsToRead(t)
WLock(t)   == GetsWrite(t) \/ WaitsToWrite(t)
RUnlock(t) == MoreReaders(t) \/ LastReader(t)

LockNext ==
  \E t \in Thread :
    RLock(t) \/ WLock(t) \/ RUnlock(t) \/ WUnlock(t) \/ Spurious(t)

LockSpec == LockInit /\ [][LockNext]_lockVars

(* A thread that is woken gets the mutex in the end, and one that holds    *)
(* the lock lets go of it: the callers' duty, see AutoLock for Lock.       *)
MovesOn(t) ==
  \/ Woken(t) /\ (RLock(t) \/ WLock(t))
  \/ RUnlock(t) \/ WUnlock(t)

FairLockSpec == LockSpec /\ \A t \in Thread : WF_lockVars(MovesOn(t))

-----------------------------------------------------------------------------
(* The type invariant.                                                     *)
LockTypeOK ==
  /\ nReadersReading \in Nat /\ nWriterWriting \in 0 .. 1
  /\ place \in [Thread -> LockPlace]

(* The counters are what they are named after, and a writer is alone.      *)
Exclusion ==
  /\ nReadersReading = Cardinality(Readers)
  /\ nWriterWriting = Cardinality(Writers)
  /\ nWriterWriting # 0 => nReadersReading = 0

(* No wakeup is lost, although runlock() signals where wunlock()           *)
(* broadcasts: while a thread sleeps the lock is held, or some thread has  *)
(* been woken that will look at it again.  A reader sleeps only while a    *)
(* writer holds the lock, so runlock() never spends its one signal on a    *)
(* reader while a writer waits.                                            *)
NoLostWakeup ==
  /\ (\E t \in Thread : Asleep(t)) => ~Free \/ \E t \in Thread : Woken(t)
  /\ (\E t \in Thread : place[t] = "rasleep") => nWriterWriting # 0

(* Once no more threads come for the lock, every thread that waits for it  *)
(* gets in.  While they keep coming it need not: neither readers nor       *)
(* writers queue.                                                          *)
Comes == \E t \in Thread : place[t] = "out" /\ (RLock(t) \/ WLock(t))

Progress ==
  <>[][~Comes]_lockVars =>
    \A t \in Thread :
      Asleep(t) \/ Woken(t) ~> place[t] \in {"reading", "writing"}

(* RWLock implements the readers-writer lock ReadersWriter.tla states.     *)
Abstract(p) ==
  CASE p \in {"rasleep", "rwoken"} -> "wantsRead"
    [] p \in {"wasleep", "wwoken"} -> "wantsWrite"
    [] p = "reading" -> "reads"
    [] p = "writing" -> "writes"
    [] OTHER -> "out"

RW == INSTANCE ReadersWriter WITH status <- [t \in Thread |-> Abstract(place[t])]

ImplementsReadersWriter == RW!RWSpec
=============================================================================
