---------------------------- MODULE Objects_proofs ----------------------------
(***************************************************************************)
(* What the objects the servers are built on guarantee, each on its own:   *)
(* for any threads the lock of threadutils.cpp, the event of mclevent.cpp, *)
(* and the queue and the message numbers of packetmessageque.cpp; for any  *)
(* period the timer of idle(); and the buffers of a ServerSocket for every *)
(* buffer size, header size and choice of packet sizes, so for the 8000    *)
(* byte buffers, 8 byte headers and 32 bit sizes of the code.              *)
(***************************************************************************)
EXTENDS Utilities, ServerSocket, SequenceTheorems, FiniteSetTheorems, TLAPS

-----------------------------------------------------------------------------
(* The lock.                                                               *)

(* The whole invariant is inductive.                                       *)
LockInv == LockTypeOK /\ Exclusion /\ NoLostWakeup

-----------------------------------------------------------------------------
(* How a set picked from the threads changes when one thread moves.        *)

LEMMA CountType ==
  ASSUME NEW S \in SUBSET Thread
  PROVE  IsFiniteSet(S) /\ Cardinality(S) \in Nat
BY ThreadsFinite, FS_Subset, FS_CardinalityType

LEMMA CountGrows ==
  ASSUME NEW S \in SUBSET Thread, NEW t \in Thread \ S
  PROVE  Cardinality(S \cup {t}) = Cardinality(S) + 1
BY CountType, FS_AddElement

LEMMA CountShrinks ==
  ASSUME NEW S \in SUBSET Thread, NEW t \in S
  PROVE  Cardinality(S \ {t}) = Cardinality(S) - 1
BY CountType, FS_RemoveElement

LEMMA CountZero ==
  ASSUME NEW S \in SUBSET Thread
  PROVE  Cardinality(S) = 0 <=> S = {}
<1>1. IsFiniteSet(S)
  BY CountType
<1> QED
  BY <1>1, FS_EmptySet

-----------------------------------------------------------------------------
LEMMA LockInitInv == LockInit => LockInv
<1> SUFFICES ASSUME LockInit PROVE LockInv
  OBVIOUS
<1>1. LockTypeOK
  BY DEF LockInit, LockTypeOK, LockPlace
<1>2. Readers = {} /\ Writers = {}
  BY DEF LockInit, Readers, Writers
<1>3. Exclusion
  BY <1>2, FS_EmptySet DEF LockInit, Exclusion
<1>4. NoLostWakeup
  BY DEF LockInit, NoLostWakeup, Asleep
<1> QED
  BY <1>1, <1>3, <1>4 DEF LockInv

(* What Exclusion says of the holders themselves.                          *)
LEMMA HoldersKnown ==
  ASSUME LockInv
  PROVE  /\ nReadersReading = 0 <=> Readers = {}
         /\ nWriterWriting = 0 <=> Writers = {}
         /\ \A t, u \in Writers : t = u
<1>0. Readers \in SUBSET Thread /\ Writers \in SUBSET Thread
  BY DEF Readers, Writers
<1>1. nReadersReading = 0 <=> Readers = {}
  BY <1>0, CountZero DEF LockInv, Exclusion
<1>2. nWriterWriting = 0 <=> Writers = {}
  BY <1>0, CountZero DEF LockInv, Exclusion
<1>3. ASSUME NEW t \in Writers, NEW u \in Writers PROVE t = u
  <2>1. nWriterWriting = 1
    BY <1>2, <1>3 DEF LockInv, LockTypeOK
  <2>2. \E x : Writers = {x}
    BY <1>0, <2>1, CountType, FS_Singleton DEF LockInv, Exclusion
  <2> QED
    BY <1>3, <2>2
<1> QED
  BY <1>1, <1>2, <1>3

(* One thread moves between places outside the lock.                       *)
LEMMA MoveOutside ==
  ASSUME LockInv, NEW t \in Thread, NEW p \in LockPlace,
         place[t] \notin {"reading", "writing"}, p \notin {"reading", "writing"},
         place' = [place EXCEPT ![t] = p],
         UNCHANGED <<nReadersReading, nWriterWriting>>
  PROVE  LockTypeOK' /\ Exclusion'
<1>1. LockTypeOK'
  BY DEF LockInv, LockTypeOK
<1>2. Readers' = Readers /\ Writers' = Writers
  BY DEF LockInv, LockTypeOK, Readers, Writers
<1> QED
  BY <1>1, <1>2 DEF LockInv, Exclusion

LEMMA LockStepInv == LockInv /\ [LockNext]_lockVars => LockInv'
<1> SUFFICES ASSUME LockInv, [LockNext]_lockVars PROVE LockInv'
  OBVIOUS
<1> USE DEF LockPlace
<1>0. Readers \in SUBSET Thread /\ Writers \in SUBSET Thread
  BY DEF Readers, Writers
<1>1. ASSUME NEW t \in Thread, GetsRead(t) PROVE LockInv'
  <2>1. LockTypeOK'
    BY <1>1 DEF GetsRead, LockInv, LockTypeOK
  <2>2. t \notin Readers /\ Readers' = Readers \cup {t} /\ Writers' = Writers
    BY <1>1 DEF GetsRead, LockInv, LockTypeOK, Readers, Writers
  <2>3. Exclusion'
    BY <1>0, <1>1, <2>2, CountGrows DEF GetsRead, LockInv, Exclusion
  <2>4. NoLostWakeup'
    BY <1>1 DEF GetsRead, LockInv, LockTypeOK, NoLostWakeup, Asleep, Woken, Free
  <2> QED
    BY <2>1, <2>3, <2>4 DEF LockInv
<1>2. ASSUME NEW t \in Thread, WaitsToRead(t) PROVE LockInv'
  <2>1. LockTypeOK' /\ Exclusion'
    BY <1>2, MoveOutside DEF WaitsToRead
  <2>2. NoLostWakeup'
    BY <1>2 DEF WaitsToRead, LockInv, LockTypeOK, NoLostWakeup, Asleep, Woken, Free
  <2> QED
    BY <2>1, <2>2 DEF LockInv
<1>3. ASSUME NEW t \in Thread, GetsWrite(t) PROVE LockInv'
  <2>1. LockTypeOK'
    BY <1>3 DEF GetsWrite, Free, LockInv, LockTypeOK
  <2>2. t \notin Writers /\ Writers' = Writers \cup {t} /\ Readers' = Readers
    BY <1>3 DEF GetsWrite, LockInv, LockTypeOK, Readers, Writers
  <2>3. Exclusion'
    BY <1>0, <1>3, <2>2, CountGrows DEF GetsWrite, Free, LockInv, Exclusion
  <2>4. NoLostWakeup'
    BY <1>3 DEF GetsWrite, LockInv, LockTypeOK, NoLostWakeup, Asleep, Woken, Free
  <2> QED
    BY <2>1, <2>3, <2>4 DEF LockInv
<1>4. ASSUME NEW t \in Thread, WaitsToWrite(t) PROVE LockInv'
  <2>1. LockTypeOK' /\ Exclusion'
    <3>1. place[t] \notin {"reading", "writing"} /\ place' = [place EXCEPT ![t] = "wasleep"]
      BY <1>4 DEF WaitsToWrite
    <3>2. UNCHANGED <<nReadersReading, nWriterWriting>>
      BY <1>4 DEF WaitsToWrite
    <3> QED
      BY <3>1, <3>2, MoveOutside
  <2>2. NoLostWakeup'
    BY <1>4 DEF WaitsToWrite, LockInv, LockTypeOK, NoLostWakeup, Asleep, Woken, Free
  <2> QED
    BY <2>1, <2>2 DEF LockInv
<1>5. ASSUME NEW t \in Thread, MoreReaders(t) PROVE LockInv'
  <2>1. LockTypeOK'
    BY <1>5 DEF MoreReaders, LockInv, LockTypeOK
  <2>2. t \in Readers /\ Readers' = Readers \ {t} /\ Writers' = Writers
    BY <1>5 DEF MoreReaders, LockInv, LockTypeOK, Readers, Writers
  <2>3. Exclusion'
    BY <1>0, <1>5, <2>2, CountShrinks DEF MoreReaders, LockInv, LockTypeOK, Exclusion
  <2>4. NoLostWakeup'
    BY <1>5 DEF MoreReaders, LockInv, LockTypeOK, NoLostWakeup, Asleep, Woken, Free
  <2> QED
    BY <2>1, <2>3, <2>4 DEF LockInv
<1>6. ASSUME NEW t \in Thread, LastReader(t) PROVE LockInv'
  <2>0. /\ nWriterWriting' = nWriterWriting /\ nWriterWriting = 0
        /\ nReadersReading = 1 /\ nReadersReading' = 0
    BY <1>6 DEF LastReader, LockInv, LockTypeOK, Exclusion
  <2>1. CASE \E u \in Thread : Asleep(u)
    <3>1. PICK u \in Thread : /\ Asleep(u)
                              /\ place' = [place EXCEPT ![t] = "out", ![u] = Wake(u)]
      BY <1>6, <2>1 DEF LastReader
    <3>2. u # t /\ place[u] = "wasleep" /\ Wake(u) = "wwoken"
      BY <1>6, <2>0, <3>1 DEF LastReader, LockInv, NoLostWakeup, Asleep, Wake
    <3>3. place' = [place EXCEPT ![t] = "out", ![u] = "wwoken"]
      BY <3>1, <3>2
    <3>4. LockTypeOK'
      BY <1>6, <3>3 DEF LastReader, LockInv, LockTypeOK
    <3>5. t \in Readers /\ Readers' = Readers \ {t} /\ Writers' = Writers
      BY <1>6, <3>2, <3>3 DEF LastReader, LockInv, LockTypeOK, Readers, Writers
    <3>6. Exclusion'
      <4>1. Cardinality(Readers') = Cardinality(Readers) - 1
        BY <1>0, <3>5, CountShrinks
      <4>2. Cardinality(Readers) = 1
        BY <2>0 DEF LockInv, Exclusion
      <4>3. Cardinality(Readers') = 0
        BY <4>1, <4>2
      <4>4. nWriterWriting = Cardinality(Writers)
        BY DEF LockInv, Exclusion
      <4> QED
        BY <2>0, <3>5, <4>3, <4>4 DEF Exclusion
    <3>7. place'[u] = "wwoken" /\ \A v \in Thread : place'[v] # "rasleep"
      BY <2>0, <3>2, <3>3 DEF LockInv, LockTypeOK, NoLostWakeup
    <3>8. NoLostWakeup'
      BY <3>7 DEF NoLostWakeup, Woken
    <3> QED
      BY <3>4, <3>6, <3>8 DEF LockInv
  <2>2. CASE ~ \E u \in Thread : Asleep(u)
    <3>1. place' = [place EXCEPT ![t] = "out"]
      BY <1>6, <2>2 DEF LastReader
    <3>2. LockTypeOK'
      BY <1>6, <3>1 DEF LastReader, LockInv, LockTypeOK
    <3>3. t \in Readers /\ Readers' = Readers \ {t} /\ Writers' = Writers
      BY <1>6, <3>1 DEF LastReader, LockInv, LockTypeOK, Readers, Writers
    <3>4. Exclusion'
      <4>1. Cardinality(Readers') = Cardinality(Readers) - 1
        BY <1>0, <3>3, CountShrinks
      <4>2. Cardinality(Readers) = 1
        BY <2>0 DEF LockInv, Exclusion
      <4>3. Cardinality(Readers') = 0
        BY <4>1, <4>2
      <4>4. nWriterWriting = Cardinality(Writers)
        BY DEF LockInv, Exclusion
      <4> QED
        BY <2>0, <3>3, <4>3, <4>4 DEF Exclusion
    <3>5. NoLostWakeup'
      BY <2>2, <3>1 DEF LockInv, LockTypeOK, NoLostWakeup, Asleep
    <3> QED
      BY <3>2, <3>4, <3>5 DEF LockInv
  <2> QED
    BY <2>1, <2>2
<1>7. ASSUME NEW t \in Thread, WUnlock(t) PROVE LockInv'
  <2>1. LockTypeOK'
    BY <1>7 DEF WUnlock, Asleep, Wake, LockInv, LockTypeOK
  <2>2. Writers = {t}
    BY <1>7, HoldersKnown DEF WUnlock, Writers
  <2>3. Readers' = Readers /\ Writers' = {}
    BY <1>7, <2>2 DEF WUnlock, Asleep, Wake, Readers, Writers
  <2>4. Exclusion'
    BY <1>7, <2>3, FS_EmptySet DEF WUnlock, LockInv, Exclusion
  <2>5. \A u \in Thread : place'[u] \notin {"rasleep", "wasleep"}
    BY <1>7 DEF WUnlock, Asleep, Wake
  <2>6. NoLostWakeup'
    BY <2>5 DEF NoLostWakeup, Asleep
  <2> QED
    BY <2>1, <2>4, <2>6 DEF LockInv
<1>8. ASSUME NEW t \in Thread, Spurious(t) PROVE LockInv'
  <2>1. Wake(t) \in {"rwoken", "wwoken"}
    BY DEF Wake
  <2>2. LockTypeOK' /\ Exclusion'
    BY <1>8, <2>1, MoveOutside DEF Spurious, Asleep
  <2>3. place'[t] \in {"rwoken", "wwoken"} /\ \A u \in Thread : u # t => place'[u] = place[u]
    BY <1>8, <2>1 DEF Spurious, LockInv, LockTypeOK
  <2>4. NoLostWakeup'
    BY <1>8, <2>3 DEF Spurious, LockInv, NoLostWakeup, Woken
  <2> QED
    BY <2>2, <2>4 DEF LockInv
<1>9. CASE UNCHANGED lockVars
  BY <1>9 DEF lockVars, LockInv, LockTypeOK, Exclusion, Readers, Writers, NoLostWakeup,
              Asleep, Woken, Free
<1> QED
  BY <1>1, <1>2, <1>3, <1>4, <1>5, <1>6, <1>7, <1>8, <1>9
     DEF LockNext, RLock, WLock, RUnlock

-----------------------------------------------------------------------------
(* In every behaviour of the lock the counters keep their types and every  *)
(* thread is at a place of the code.                                       *)
THEOREM LockTypeCorrect == LockSpec => []LockTypeOK
<1>1. LockInv => LockTypeOK
  BY DEF LockInv
<1> QED
  BY LockInitInv, LockStepInv, <1>1, PTL DEF LockSpec

(* rlock() and wlock() keep writers alone, for any number of threads, and  *)
(* the counters are the numbers of holders.                                *)
THEOREM ExclusionHolds == LockSpec => []Exclusion
<1>1. LockInv => Exclusion
  BY DEF LockInv
<1> QED
  BY LockInitInv, LockStepInv, <1>1, PTL DEF LockSpec

(* runlock()'s single signal is enough: no thread sleeps beside a free     *)
(* lock with nobody on the way to it.                                      *)
THEOREM WakeupsKept == LockSpec => []NoLostWakeup
<1>1. LockInv => NoLostWakeup
  BY DEF LockInv
<1> QED
  BY LockInitInv, LockStepInv, <1>1, PTL DEF LockSpec

-----------------------------------------------------------------------------
(* The refinement of ReadersWriter.                                        *)

Stands == [t \in Thread |-> Abstract(place[t])]

(* Only the threads at these places stand in the lock.                     *)
LEMMA AbstractPlaces ==
  ASSUME LockTypeOK, NEW t \in Thread
  PROVE  /\ Stands[t] = Abstract(place[t])
         /\ Stands[t] = "reads" <=> place[t] = "reading"
         /\ Stands[t] = "writes" <=> place[t] = "writing"
         /\ place[t] \in {"out", "rwoken"} => Stands[t] \in {"out", "wantsRead"}
         /\ place[t] \in {"out", "wwoken"} => Stands[t] \in {"out", "wantsWrite"}
BY DEF LockTypeOK, LockPlace, Stands, Abstract

(* A thread that moves changes its own place and no other.              *)
LEMMA StandsMove ==
  ASSUME LockTypeOK, NEW t \in Thread, NEW p, place' = [place EXCEPT ![t] = p]
  PROVE  Stands' = [Stands EXCEPT ![t] = Abstract(p)]
BY DEF LockTypeOK, Stands

LEMMA StepRefines == LockInv /\ [LockNext]_lockVars => [RW!RWNext]_Stands
<1> SUFFICES ASSUME LockInv, [LockNext]_lockVars PROVE [RW!RWNext]_Stands
  OBVIOUS
<1> USE DEF Stands
<1>0. LockTypeOK
  BY DEF LockInv
<1>a. ASSUME NEW t \in Thread, NEW p, place' = [place EXCEPT ![t] = p],
             Abstract(p) = Abstract(place[t])
      PROVE  UNCHANGED Stands
  BY <1>0, <1>a, StandsMove DEF LockTypeOK
<1>b. ASSUME NEW t \in Thread, NEW p, place' = [place EXCEPT ![t] = p],
             place[t] = "out", Abstract(p) \in {"wantsRead", "wantsWrite"}
      PROVE  RW!Asks(t)
  BY <1>0, <1>b, StandsMove, AbstractPlaces DEF RW!Asks, Abstract
<1>1. ASSUME NEW t \in Thread, GetsRead(t) PROVE RW!Reads(t)
  <2>1. Stands' = [Stands EXCEPT ![t] = "reads"]
    BY <1>0, <1>1, StandsMove DEF GetsRead, Abstract
  <2>2. \A u \in Thread : Stands[u] # "writes"
    BY <1>0, <1>1, HoldersKnown, AbstractPlaces DEF GetsRead, Writers
  <2>3. Stands[t] \in {"out", "wantsRead"}
    BY <1>0, <1>1, AbstractPlaces DEF GetsRead
  <2> QED
    BY <2>1, <2>2, <2>3 DEF RW!Reads
<1>2. ASSUME NEW t \in Thread, WaitsToRead(t) PROVE RW!Asks(t) \/ UNCHANGED Stands
  <2>1. CASE place[t] = "out"
    BY <1>2, <1>b, <2>1 DEF WaitsToRead, Abstract
  <2>2. CASE place[t] = "rwoken"
    BY <1>2, <1>a, <2>2 DEF WaitsToRead, Abstract
  <2> QED
    BY <1>2, <2>1, <2>2 DEF WaitsToRead
<1>3. ASSUME NEW t \in Thread, GetsWrite(t) PROVE RW!Writes(t)
  <2>1. Stands' = [Stands EXCEPT ![t] = "writes"]
    BY <1>0, <1>3, StandsMove DEF GetsWrite, Abstract
  <2>2. \A u \in Thread : Stands[u] \notin {"reads", "writes"}
    BY <1>0, <1>3, HoldersKnown, AbstractPlaces DEF GetsWrite, Free, Readers, Writers
  <2>3. Stands[t] \in {"out", "wantsWrite"}
    BY <1>0, <1>3, AbstractPlaces DEF GetsWrite
  <2> QED
    BY <2>1, <2>2, <2>3 DEF RW!Writes, RW!Holds
<1>4. ASSUME NEW t \in Thread, WaitsToWrite(t) PROVE RW!Asks(t) \/ UNCHANGED Stands
  <2>1. CASE place[t] = "out"
    BY <1>4, <1>b, <2>1 DEF WaitsToWrite, Abstract
  <2>2. CASE place[t] = "wwoken"
    BY <1>4, <1>a, <2>2 DEF WaitsToWrite, Abstract
  <2> QED
    BY <1>4, <2>1, <2>2 DEF WaitsToWrite
<1>5. ASSUME NEW t \in Thread, RUnlock(t) PROVE RW!Leaves(t)
  <2>1. Stands[t] = "reads"
    BY <1>0, <1>5, AbstractPlaces DEF RUnlock, MoreReaders, LastReader
  <2>2. Stands' = [Stands EXCEPT ![t] = "out"]
    <3>1. CASE place' = [place EXCEPT ![t] = "out"]
      BY <1>0, <3>1, StandsMove DEF Abstract
    <3>2. CASE \E u \in Thread :
                 Asleep(u) /\ place' = [place EXCEPT ![t] = "out", ![u] = Wake(u)]
      <4>1. PICK u \in Thread :
              Asleep(u) /\ place' = [place EXCEPT ![t] = "out", ![u] = Wake(u)]
        BY <3>2
      <4>2. u # t /\ Abstract(Wake(u)) = Abstract(place[u])
        BY <1>5, <4>1 DEF RUnlock, MoreReaders, LastReader, Asleep, Wake, Abstract
      <4>3. \A v \in Thread :
              Abstract(place'[v]) = IF v = t THEN "out" ELSE Abstract(place[v])
        BY <1>0, <4>1, <4>2 DEF LockTypeOK, Abstract
      <4> QED
        BY <4>3
    <3> QED
      BY <1>5, <3>1, <3>2 DEF RUnlock, MoreReaders, LastReader
  <2> QED
    BY <2>1, <2>2 DEF RW!Leaves, RW!Holds
<1>6. ASSUME NEW t \in Thread, WUnlock(t) PROVE RW!Leaves(t)
  <2>1. Stands[t] = "writes"
    BY <1>0, <1>6, AbstractPlaces DEF WUnlock
  <2>2. \A u \in Thread : Asleep(u) => Abstract(Wake(u)) = Abstract(place[u])
    BY DEF Asleep, Wake, Abstract
  <2>3. \A u \in Thread :
          Abstract(place'[u]) = IF u = t THEN "out" ELSE Abstract(place[u])
    <3> SUFFICES ASSUME NEW u \in Thread
                 PROVE  Abstract(place'[u]) = IF u = t THEN "out" ELSE Abstract(place[u])
      OBVIOUS
    <3>1. place'[u] = IF u = t THEN "out" ELSE IF Asleep(u) THEN Wake(u) ELSE place[u]
      BY <1>6 DEF WUnlock
    <3>2. Abstract("out") = "out"
      BY DEF Abstract
    <3> QED
      BY <2>2, <3>1, <3>2
  <2>4. Stands' = [Stands EXCEPT ![t] = "out"]
    BY <2>3
  <2> QED
    BY <2>1, <2>4 DEF RW!Leaves, RW!Holds
<1>7. ASSUME NEW t \in Thread, Spurious(t) PROVE UNCHANGED Stands
  <2>1. Abstract(Wake(t)) = Abstract(place[t])
    BY <1>7 DEF Spurious, Asleep, Wake, Abstract
  <2> QED
    BY <1>7, <1>a, <2>1 DEF Spurious
<1>8. CASE UNCHANGED lockVars
  BY <1>8 DEF lockVars
<1> QED
  BY <1>1, <1>2, <1>3, <1>4, <1>5, <1>6, <1>7, <1>8
     DEF LockNext, RLock, WLock, RW!RWNext

(* Every behaviour of the lock is one a readers-writer lock may show: who  *)
(* waits, sleeps or is woken spuriously makes no difference to its users.  *)
THEOREM ReadersWriterImplemented == LockSpec => ImplementsReadersWriter
<1>1. LockInit => RW!RWInit
  BY DEF LockInit, RW!RWInit, Abstract
<1>2. LockInv /\ [LockNext]_lockVars => [RW!RWNext]_Stands
  BY StepRefines
<1> QED
  BY LockInitInv, LockStepInv, <1>1, <1>2, PTL
     DEF LockSpec, ImplementsReadersWriter, RW!RWSpec, Stands

-----------------------------------------------------------------------------
(* The event.                                                              *)

(* A waiter that is on its way out with WAIT_OBJECT_0, or would be let     *)
(* through by the flag.                                                    *)
Admitted(t) == signaled \/ inWait[t] \in {"found", "woken", "reset"}

Credit ==
  autoSignal =>
    \A t \in Waiter : returns[t] + (IF Admitted(t) THEN 1 ELSE 0) <= sets + spurious

LEMMA InitInv == EventInit => EventTypeOK /\ SleeperPredatesSet /\ Credit
<1> SUFFICES ASSUME EventInit PROVE EventTypeOK /\ SleeperPredatesSet /\ Credit
  OBVIOUS
<1>1. EventTypeOK
  BY NobodyWaits DEF EventInit, EventTypeOK, WaitPlace, Results
<1>2. SleeperPredatesSet /\ Credit
  BY DEF EventInit, SleeperPredatesSet, Credit, Admitted
<1> QED
  BY <1>1, <1>2

LEMMA TypeStep == EventTypeOK /\ [EventNext]_eventVars => EventTypeOK'
<1> SUFFICES ASSUME EventTypeOK, [EventNext]_eventVars PROVE EventTypeOK'
  OBVIOUS
<1> USE NobodyWaits DEF EventTypeOK, WaitPlace, Results
<1>1. ASSUME NEW t \in Waiter, Tests(t) PROVE EventTypeOK'
  BY <1>1 DEF Tests
<1>2. ASSUME NEW t \in Waiter, Sleeps(t) PROVE EventTypeOK'
  BY <1>2 DEF Sleeps
<1>3. ASSUME NEW t \in Waiter, TimesOut(t) \/ WakesForNothing(t) PROVE EventTypeOK'
  BY <1>3 DEF TimesOut, WakesForNothing
<1>4. ASSUME NEW t \in Waiter, Reacquires(t) PROVE EventTypeOK'
  BY <1>4 DEF Reacquires
<1>5. ASSUME NEW t \in Waiter, Returns(t) PROVE EventTypeOK'
  BY <1>5 DEF Returns
<1>6. CASE Set
  BY <1>6 DEF Set, At
<1>7. CASE Reset
  BY <1>7 DEF Reset
<1>8. CASE UNCHANGED eventVars
  BY <1>8 DEF eventVars
<1> QED
  BY <1>1, <1>2, <1>3, <1>4, <1>5, <1>6, <1>7, <1>8 DEF EventNext, Wait

LEMMA SleeperStep ==
  EventTypeOK /\ SleeperPredatesSet /\ [EventNext]_eventVars => SleeperPredatesSet'
<1> SUFFICES ASSUME EventTypeOK, SleeperPredatesSet, [EventNext]_eventVars,
                    NEW u \in Waiter, signaled', inWait'[u] \in {"blocks", "asleep"}
             PROVE  missed'[u]
  BY DEF SleeperPredatesSet
<1> USE DEF EventTypeOK, SleeperPredatesSet
<1>1. ASSUME NEW t \in Waiter, Tests(t) PROVE missed'[u]
  BY <1>1 DEF Tests
<1>2. ASSUME NEW t \in Waiter, Sleeps(t) \/ TimesOut(t) \/ WakesForNothing(t) \/ Reacquires(t)
      PROVE  missed'[u]
  BY <1>2 DEF Sleeps, TimesOut, WakesForNothing, Reacquires
<1>3. ASSUME NEW t \in Waiter, Returns(t) PROVE missed'[u]
  BY <1>3 DEF Returns
<1>4. CASE Set
  <2>1. inWait[u] \in {"blocks", "asleep"}
    BY <1>4 DEF Set
  <2> QED
    BY <1>4, <2>1 DEF Set
<1>5. CASE Reset \/ UNCHANGED eventVars
  BY <1>5 DEF Reset, eventVars
<1> QED
  BY <1>1, <1>2, <1>3, <1>4, <1>5 DEF EventNext, Wait

LEMMA CreditStep == EventTypeOK /\ Credit /\ [EventNext]_eventVars => Credit'
<1> DEFINE Covered(u) == returns[u] + (IF Admitted(u) THEN 1 ELSE 0) <= sets + spurious
<1> SUFFICES ASSUME EventTypeOK, Credit, [EventNext]_eventVars, autoSignal', NEW u \in Waiter
             PROVE  Covered(u)'
  BY DEF Credit
<1>0. /\ autoSignal
      /\ returns[u] \in Nat /\ sets \in Nat /\ spurious \in Nat
      /\ Admitted(u) => returns[u] + 1 <= sets + spurious
      /\ ~Admitted(u) => returns[u] <= sets + spurious
  <2>1. autoSignal
    BY DEF EventNext, Wait, Tests, Sleeps, Reacquires, Returns, TimesOut,
           WakesForNothing, Set, Reset, eventVars
  <2> QED
    BY <2>1 DEF EventTypeOK, Credit
<1>1. ASSUME returns'[u] = returns[u], sets' = sets, spurious' = spurious,
             Admitted(u)' => Admitted(u)
      PROVE  Covered(u)'
  BY <1>0, <1>1
<1>2. ASSUME NEW t \in Waiter, Tests(t) PROVE Covered(u)'
  BY <1>1, <1>2 DEF Tests, Admitted, EventTypeOK
<1>3. ASSUME NEW t \in Waiter, Sleeps(t) \/ TimesOut(t) \/ Reacquires(t)
      PROVE  Covered(u)'
  BY <1>1, <1>3 DEF Sleeps, TimesOut, Reacquires, Admitted, EventTypeOK
<1>4. ASSUME NEW t \in Waiter, Returns(t) PROVE Covered(u)'
  <2>1. signaled' = FALSE /\ sets' = sets /\ spurious' = spurious
    BY <1>0, <1>4 DEF Returns
  <2>2. CASE t = u /\ inWait[t] \in {"found", "reset"}
    <3>1. Admitted(u) /\ ~Admitted(u)' /\ returns'[u] = returns[u] + 1
      BY <1>4, <2>1, <2>2 DEF Returns, Admitted, EventTypeOK
    <3> QED
      BY <1>0, <2>1, <3>1
  <2>3. CASE ~(t = u /\ inWait[t] \in {"found", "reset"})
    <3>1. returns'[u] = returns[u]
      BY <1>4, <2>3 DEF Returns, EventTypeOK
    <3>2. Admitted(u)' => Admitted(u)
      BY <1>4, <2>1 DEF Returns, Admitted, EventTypeOK
    <3> QED
      BY <1>1, <2>1, <3>1, <3>2
  <2> QED
    BY <2>2, <2>3
<1>5. CASE Set
  BY <1>0, <1>5 DEF Set
<1>6. ASSUME NEW t \in Waiter, WakesForNothing(t) PROVE Covered(u)'
  BY <1>0, <1>6 DEF WakesForNothing
<1>7. CASE Reset
  BY <1>1, <1>7 DEF Reset, Admitted
<1>8. CASE UNCHANGED eventVars
  BY <1>1, <1>8 DEF eventVars, Admitted
<1> QED
  BY <1>2, <1>3, <1>4, <1>5, <1>6, <1>7, <1>8 DEF EventNext, Wait

-----------------------------------------------------------------------------
(* m_mutexEvent is held by one waiter at a time, and by the right one.     *)
THEOREM TypeCorrect == EventSpec => []EventTypeOK
BY InitInv, TypeStep, PTL DEF EventSpec

(* Wait() never goes to sleep on a signal that was there when it came.     *)
THEOREM SleepersPredate == EventSpec => []SleeperPredatesSet
BY InitInv, TypeStep, SleeperStep, PTL DEF EventSpec

(* An auto-reset event lets no thread through more often than Set() was    *)
(* called or a wait returned for nothing.                                  *)
THEOREM OneReturnPerSet == EventSpec => []OncePerThread
<1>1. EventTypeOK /\ Credit => OncePerThread
  <2> SUFFICES ASSUME EventTypeOK, Credit, autoSignal, NEW t \in Waiter
               PROVE  returns[t] <= sets + spurious
    BY DEF OncePerThread
  <2>1. returns[t] \in Nat /\ sets \in Nat /\ spurious \in Nat
    BY DEF EventTypeOK
  <2>2. returns[t] + (IF Admitted(t) THEN 1 ELSE 0) <= sets + spurious
    BY DEF Credit
  <2> QED
    BY <2>1, <2>2
<1> QED
  BY InitInv, TypeStep, CreditStep, <1>1, PTL DEF EventSpec

-----------------------------------------------------------------------------
(* The message queue.                                                      *)

(* Where a thread holds m_lockID, and where m_lock.                        *)
Counts(u)  == at[u] \in {"id", "counted"}
Holds(u)   == at[u] \in {"add", "link", "signal", "get", "remove"}
Carries(u) == at[u] \in {"counted", "made", "add", "link"}

QueTypeOK ==
  /\ counter \in Nat /\ idLock \in User \cup {Unheld} /\ ids \in Seq(Nat)
  /\ list \in Seq(Message) /\ lock \in User \cup {Unheld} /\ event \in BOOLEAN
  /\ at \in [User -> Stage] /\ mine \in [User -> 0 .. MaxMessages]
  /\ tail \in [User -> Seq(Message)]
  /\ taken \in Seq(Message) /\ purged \subseteq Message
  /\ Len(ids) <= MaxMessages
  /\ \A u \in User : Carries(u) => mine[u] \in 1 .. Len(ids)
  /\ \A u \in User : at[u] = "remove" => mine[u] # 0

LocksHeld ==
  /\ \A u \in User : Counts(u) <=> idLock = u
  /\ \A u \in User : Holds(u) <=> lock = u

(* The counter is that of the next message, or while it is being written,  *)
(* still that of the last.                                                 *)
Counted ==
  /\ (\A u \in User : at[u] # "counted") => counter = Len(ids) % Ids
  /\ \A u \in User : at[u] = "counted" =>
       mine[u] = Len(ids) /\ ids # << >> /\ counter = (Len(ids) - 1) % Ids

Put == ToSet(list) \cup ToSet(taken) \cup purged

(* A message is carried by one thread, or was put.                         *)
OnePlace ==
  /\ Put \subseteq 1 .. Len(ids)
  /\ \A u \in User : Carries(u) =>
       /\ mine[u] \notin Put
       /\ \A v \in User \ {u} : Carries(v) => mine[v] # mine[u]

(* What a thread looked up under m_lock still is so.                       *)
LookedUp ==
  /\ \A u \in User : at[u] = "link" => tail[u] = list
  /\ \A u \in User : at[u] = "remove" => list # << >> /\ mine[u] = Head(list)

QueInv == QueTypeOK /\ LocksHeld /\ Counted /\ IdsInTurn /\ OnePlace /\ LookedUp

LEMMA ToSetFacts ==
  ASSUME NEW S, NEW s \in Seq(S)
  PROVE  /\ \A x \in S : ToSet(Append(s, x)) = ToSet(s) \cup {x}
         /\ s # << >> => /\ ToSet(Tail(s)) \subseteq ToSet(s)
                         /\ Head(s) \in ToSet(s)
<1>1. ASSUME NEW x \in S PROVE ToSet(Append(s, x)) = ToSet(s) \cup {x}
  <2> DEFINE t == Append(s, x)
  <2>1. /\ t \in Seq(S) /\ Len(t) = Len(s) + 1 /\ t[Len(s) + 1] = x
        /\ \A i \in 1 .. Len(s) : t[i] = s[i]
    BY AppendProperties
  <2>2. DOMAIN s = 1 .. Len(s) /\ DOMAIN t = 1 .. Len(t) /\ Len(s) \in Nat
    BY <2>1, LenProperties
  <2> HIDE DEF t
  <2>3. ToSet(t) = ToSet(s) \cup {x}
    BY <2>1, <2>2 DEF ToSet
  <2> QED
    BY <2>3 DEF t
<1>2. ASSUME s # << >> PROVE ToSet(Tail(s)) \subseteq ToSet(s) /\ Head(s) \in ToSet(s)
  <2>1. /\ Tail(s) \in Seq(S) /\ Len(Tail(s)) = Len(s) - 1
        /\ \A i \in 1 .. Len(Tail(s)) : Tail(s)[i] = s[i + 1]
        /\ Len(s) \in Nat \ {0} /\ Head(s) = s[1]
    BY <1>2, HeadTailProperties, EmptySeq
  <2>2. DOMAIN s = 1 .. Len(s) /\ DOMAIN Tail(s) = 1 .. Len(s) - 1
    BY <2>1, LenProperties
  <2> QED
    BY <2>1, <2>2 DEF ToSet
<1> QED
  BY <1>1, <1>2

LEMMA DivMod ==
  ASSUME NEW n \in Nat, NEW b \in Nat \ {0}
  PROVE  n % b \in 0 .. b - 1 /\ n \div b \in Nat /\ n = b * (n \div b) + (n % b)
BY SMT

LEMMA MultipleIsLarger ==
  ASSUME NEW b \in Nat \ {0}, NEW z \in Nat \ {0}
  PROVE  b * z \in Nat /\ b * z >= b
BY SMT

LEMMA RemainderUnique ==
  ASSUME NEW b \in Nat \ {0}, NEW x \in Int, NEW y \in Int,
         NEW r \in 0 .. b - 1, NEW s \in 0 .. b - 1, b * x + r = b * y + s
  PROVE  r = s
<1>1. CASE x = y
  BY <1>1
<1>2. CASE x < y
  <2>1. b * (y - x) >= b
    BY <1>2, MultipleIsLarger
  <2>2. b * (y - x) = b * y - b * x
    BY SMT
  <2>3. b * y \in Int /\ b * x \in Int /\ b * (y - x) \in Int
    BY SMT
  <2> QED
    BY <2>1, <2>2, <2>3
<1>3. CASE y < x
  <2>1. b * (x - y) >= b
    BY <1>3, MultipleIsLarger
  <2>2. b * (x - y) = b * x - b * y
    BY SMT
  <2>3. b * y \in Int /\ b * x \in Int /\ b * (x - y) \in Int
    BY SMT
  <2> QED
    BY <2>1, <2>2, <2>3
<1> QED
  BY <1>1, <1>2, <1>3

LEMMA Modulo ==
  ASSUME NEW n \in Nat, NEW b \in Nat \ {0}, NEW q \in Int, NEW r \in 0 .. b - 1, n = b * q + r
  PROVE  n % b = r
BY DivMod, RemainderUnique

LEMMA NextModulo ==
  ASSUME NEW n \in Nat, NEW b \in Nat \ {0}
  PROVE  ((n % b) + 1) % b = (n + 1) % b
<1> DEFINE q == n \div b
           r == n % b
<1>1. q \in Nat /\ r \in 0 .. b - 1 /\ n = b * q + r
  BY DivMod
<1> HIDE DEF q, r
<1>2. CASE r = b - 1
  <2>1. b * (q + 1) = b * q + b /\ b * 1 = b /\ b * q \in Nat
    BY <1>1
  <2>2. n + 1 = b * (q + 1) + 0 /\ b = b * 1 + 0
    BY <1>1, <1>2, <2>1
  <2>3. (n + 1) % b = 0 /\ b % b = 0
    BY <1>1, <2>2, Modulo
  <2> QED
    BY <1>2, <2>3 DEF r
<1>3. CASE r + 1 \in 0 .. b - 1
  <2>1. n + 1 = b * q + (r + 1) /\ r + 1 = b * 0 + (r + 1)
    BY <1>1
  <2>2. (n + 1) % b = r + 1
    BY <1>1, <1>3, <2>1, Modulo
  <2>3. (r + 1) % b = r + 1
    BY <1>1, <1>3, <2>1, Modulo
  <2> QED
    BY <2>2, <2>3 DEF r
<1>4. r = b - 1 \/ r + 1 \in 0 .. b - 1
  BY <1>1
<1> QED
  BY <1>2, <1>3, <1>4

LEMMA QueInitInv == QueInit => QueInv
<1> SUFFICES ASSUME QueInit PROVE QueInv
  OBVIOUS
<1> USE DEF QueInit
<1>1. QueTypeOK
  <2>1. << >> \in Seq(Message) /\ << >> \in Seq(Nat) /\ Len(ids) = 0
    BY EmptySeq
  <2>2. /\ counter \in Nat /\ idLock \in User \cup {Unheld} /\ ids \in Seq(Nat)
        /\ list \in Seq(Message) /\ taken \in Seq(Message) /\ tail \in [User -> Seq(Message)]
        /\ purged \subseteq Message /\ Len(ids) <= MaxMessages
    BY <2>1, MessageQueConstants
  <2>3. lock \in User \cup {Unheld} /\ event \in BOOLEAN
    OBVIOUS
  <2>4. at \in [User -> Stage] /\ \A u \in User : at[u] = "out"
    BY DEF Stage
  <2>5. mine \in [User -> 0 .. MaxMessages]
    BY MessageQueConstants
  <2> HIDE DEF QueInit
  <2> QED
    BY <2>2, <2>3, <2>4, <2>5 DEF QueTypeOK, Carries
<1>2. LocksHeld
  BY UnheldUses DEF LocksHeld, Counts, Holds
<1>3. Counted /\ IdsInTurn
  BY MessageQueConstants DEF Counted, IdsInTurn
<1>4. OnePlace /\ LookedUp
  BY MessageQueConstants DEF OnePlace, LookedUp, Carries, Put, ToSet
<1> QED
  BY <1>1, <1>2, <1>3, <1>4 DEF QueInv

LEMMA QueTypeStep == QueTypeOK /\ [QueNext]_queVars => QueTypeOK'
<1> SUFFICES ASSUME QueTypeOK, [QueNext]_queVars PROVE QueTypeOK'
  OBVIOUS
<1> USE MessageQueConstants DEF QueTypeOK, Stage, Goes, Carries, idVars, Message
<1>0. Len(ids) \in Nat
  BY LenProperties
<1>1. ASSUME NEW u \in User, LockId(u) PROVE QueTypeOK'
  BY <1>1 DEF LockId
<1>2. ASSUME NEW u \in User, ReadId(u) PROVE QueTypeOK'
  <2>1. ids' \in Seq(Nat) /\ Len(ids') = Len(ids) + 1
    BY <1>2, AppendProperties DEF ReadId
  <2>2. Len(ids') \in 1 .. MaxMessages
    BY <1>0, <1>2, <2>1 DEF ReadId
  <2>3. \A v \in User : Carries(v)' => mine'[v] \in 1 .. Len(ids')
    BY <1>0, <1>2, <2>1, <2>2 DEF ReadId
  <2> QED
    BY <1>2, <2>1, <2>2, <2>3, SMTT(20) DEF ReadId
<1>3. ASSUME NEW u \in User, WriteId(u) PROVE QueTypeOK'
  <2>1. ids[mine[u]] \in Nat
    BY <1>3, ElementOfSeq DEF WriteId
  <2> DEFINE n == ids[mine[u]] + 1
  <2>2. n \in Nat
    BY <2>1, SMTT(20)
  <2>4. counter' = n % Ids
    BY <1>3 DEF WriteId
  <2> HIDE DEF n
  <2>3. n % Ids \in Nat
    BY <2>2, DivMod
  <2> QED
    BY <1>3, <2>3, <2>4 DEF WriteId
<1>4. ASSUME NEW u \in User, LockToAdd(u) PROVE QueTypeOK'
  BY <1>4 DEF LockToAdd, Locks
<1>5. ASSUME NEW u \in User, FindTail(u) PROVE QueTypeOK'
  BY <1>5 DEF FindTail
<1>6. ASSUME NEW u \in User, LinkTail(u) PROVE QueTypeOK'
  <2>1. mine[u] \in Message
    BY <1>0, <1>6 DEF LinkTail
  <2>2. list' \in Seq(Message)
    BY <1>6, <2>1, AppendProperties DEF LinkTail
  <2>3. << >> \in Seq(Message)
    BY EmptySeq
  <2> QED
    BY <1>6, <2>2, <2>3, SMTT(20) DEF LinkTail
<1>7. ASSUME NEW u \in User, Signal(u) PROVE QueTypeOK'
  BY <1>7 DEF Signal
<1>8. ASSUME NEW u \in User, LockToGet(u) PROVE QueTypeOK'
  BY <1>8 DEF LockToGet, Locks
<1>9. ASSUME NEW u \in User, GetHead(u) PROVE QueTypeOK'
  <2>1. CASE list = << >>
    BY <1>9, <2>1 DEF GetHead
  <2>2. CASE list # << >>
    <3>1. Head(list) \in Message
      BY <2>2, HeadTailProperties
    <3>2. /\ mine' = [mine EXCEPT ![u] = Head(list)] /\ at' = [at EXCEPT ![u] = "remove"]
          /\ UNCHANGED <<counter, idLock, ids, list, lock, event, tail, taken, purged>>
      BY <1>9, <2>2 DEF GetHead
    <3>3. mine' \in [User -> 0 .. MaxMessages] /\ at' \in [User -> Stage]
      BY <3>1, <3>2, SMTT(20)
    <3>4. \A v \in User : Carries(v)' => mine'[v] \in 1 .. Len(ids')
      BY <3>2
    <3>5. \A v \in User : at'[v] = "remove" => mine'[v] # 0
      BY <3>1, <3>2
    <3> QED
      BY <3>2, <3>3, <3>4, <3>5
  <2> QED
    BY <2>1, <2>2
<1>10. ASSUME NEW u \in User, RemoveHead(u) PROVE QueTypeOK'
  <2>1. list' \in Seq(Message)
    BY <1>10, HeadTailProperties DEF RemoveHead
  <2>2. mine[u] \in Message
    BY <1>10 DEF RemoveHead
  <2>3. taken' \in Seq(Message)
    BY <1>10, <2>2, AppendProperties DEF RemoveHead
  <2>4. /\ mine' = [mine EXCEPT ![u] = 0] /\ at' = [at EXCEPT ![u] = "out"] /\ lock' = Unheld
        /\ UNCHANGED <<counter, idLock, ids, event, tail, purged>>
    BY <1>10 DEF RemoveHead
  <2> QED
    BY <2>1, <2>3, <2>4, SMTT(20)
<1>11. ASSUME Purge PROVE QueTypeOK'
  <2>1. ToSet(list) \subseteq Message
    BY LenProperties, SMTT(20) DEF ToSet
  <2>2. << >> \in Seq(Message)
    BY EmptySeq
  <2> QED
    BY <1>11, <2>1, <2>2 DEF Purge
<1>12. ASSUME UNCHANGED queVars PROVE QueTypeOK'
  BY <1>12 DEF queVars
<1> QED
  BY <1>1, <1>2, <1>3, <1>4, <1>5, <1>6, <1>7, <1>8, <1>9, <1>10, <1>11, <1>12 DEF QueNext

(* Each lock is with the thread that is between its lock and its unlock.   *)
LEMMA LocksStep == QueTypeOK /\ LocksHeld /\ [QueNext]_queVars => LocksHeld'
<1> SUFFICES ASSUME QueTypeOK, LocksHeld, [QueNext]_queVars PROVE LocksHeld'
  OBVIOUS
<1>0. at \in [User -> Stage] /\ idLock \in User \cup {Unheld} /\ lock \in User \cup {Unheld}
  BY DEF QueTypeOK
<1> USE <1>0, UnheldUses DEF LocksHeld, Counts, Holds, Goes, idVars
<1>1. ASSUME NEW u \in User, LockId(u) PROVE LocksHeld'
  BY <1>1 DEF LockId
<1>2. ASSUME NEW u \in User, ReadId(u) PROVE LocksHeld'
  BY <1>2 DEF ReadId
<1>3. ASSUME NEW u \in User, WriteId(u) PROVE LocksHeld'
  BY <1>3 DEF WriteId
<1>4. ASSUME NEW u \in User, LockToAdd(u) PROVE LocksHeld'
  BY <1>4 DEF LockToAdd, Locks
<1>5. ASSUME NEW u \in User, FindTail(u) PROVE LocksHeld'
  BY <1>5 DEF FindTail
<1>6. ASSUME NEW u \in User, LinkTail(u) PROVE LocksHeld'
  BY <1>6 DEF LinkTail
<1>7. ASSUME NEW u \in User, Signal(u) PROVE LocksHeld'
  BY <1>7 DEF Signal
<1>8. ASSUME NEW u \in User, LockToGet(u) PROVE LocksHeld'
  BY <1>8 DEF LockToGet, Locks
<1>9. ASSUME NEW u \in User, GetHead(u) PROVE LocksHeld'
  <2>1. CASE list = << >>
    BY <1>9, <2>1 DEF GetHead
  <2>2. CASE list # << >>
    BY <1>9, <2>2 DEF GetHead
  <2> QED
    BY <2>1, <2>2
<1>10. ASSUME NEW u \in User, RemoveHead(u) PROVE LocksHeld'
  BY <1>10 DEF RemoveHead
<1>11. ASSUME Purge \/ UNCHANGED queVars PROVE LocksHeld'
  BY <1>11 DEF Purge, queVars
<1> QED
  BY <1>1, <1>2, <1>3, <1>4, <1>5, <1>6, <1>7, <1>8, <1>9, <1>10, <1>11 DEF QueNext

(* uniqueID(): what was read is still there when it is written.            *)
LEMMA CountStep ==
  QueTypeOK /\ LocksHeld /\ Counted /\ IdsInTurn /\ [QueNext]_queVars => (Counted /\ IdsInTurn)'
<1> SUFFICES ASSUME QueTypeOK, LocksHeld, Counted, IdsInTurn, [QueNext]_queVars
             PROVE  (Counted /\ IdsInTurn)'
  OBVIOUS
<1>0. /\ ids \in Seq(Nat) /\ Len(ids) \in Nat /\ at \in [User -> Stage]
      /\ mine \in [User -> 0 .. MaxMessages] /\ counter \in Nat
      /\ Ids \in Nat \ {0} /\ DOMAIN ids = 1 .. Len(ids)
  BY MessageQueConstants, LenProperties DEF QueTypeOK
<1>1. ASSUME NEW u \in User, ReadId(u) PROVE (Counted /\ IdsInTurn)'
  <2>1. /\ ids' \in Seq(Nat) /\ Len(ids') = Len(ids) + 1 /\ ids'[Len(ids) + 1] = counter
        /\ \A i \in 1 .. Len(ids) : ids'[i] = ids[i]
    BY <1>0, <1>1, AppendProperties DEF ReadId
  <2>2. DOMAIN ids' = 1 .. Len(ids) + 1
    BY <2>1, LenProperties
  <2>3. \A v \in User : at[v] = "counted" => FALSE
    BY <1>0, <1>1 DEF ReadId, LocksHeld, Counts
  <2>4. counter = Len(ids) % Ids
    BY <2>3 DEF Counted
  <2>5. ids'[Len(ids) + 1] = ((Len(ids) + 1) - 1) % Ids
    BY <1>0, <2>1, <2>4
  <2>6. ASSUME NEW m \in DOMAIN ids' PROVE ids'[m] = (m - 1) % Ids
    <3>1. CASE m \in 1 .. Len(ids)
      <4>1. ids'[m] = ids[m] /\ ids[m] = (m - 1) % Ids
        BY <1>0, <2>1, <3>1 DEF IdsInTurn
      <4> QED
        BY <4>1
    <3>2. CASE m = Len(ids) + 1
      BY <2>5, <3>2
    <3> QED
      BY <1>0, <2>2, <3>1, <3>2
  <2>7. \A v \in User : at'[v] = "counted" <=> v = u
    BY <1>0, <1>1, <2>3 DEF ReadId, Goes
  <2>8. mine'[u] = Len(ids') /\ ids' # << >> /\ counter' = (Len(ids') - 1) % Ids
    <3>1. Len(ids') - 1 = Len(ids) /\ mine'[u] = Len(ids') /\ counter' = counter
      BY <1>0, <1>1, <2>1 DEF ReadId
    <3>2. ids' # << >>
      BY <1>0, <2>1, EmptySeq
    <3> QED
      BY <2>4, <3>1, <3>2
  <2> QED
    BY <2>6, <2>7, <2>8 DEF Counted, IdsInTurn
<1>2. ASSUME NEW u \in User, WriteId(u) PROVE (Counted /\ IdsInTurn)'
  <2> DEFINE n == Len(ids) - 1
  <2>1. mine[u] = Len(ids) /\ ids # << >>
    BY <1>2 DEF WriteId, Counted
  <2>2. n \in Nat /\ Len(ids) \in 1 .. Len(ids) /\ n + 1 = Len(ids)
    BY <1>0, <2>1, EmptySeq
  <2>3. ids[Len(ids)] = n % Ids
    BY <1>0, <2>2 DEF IdsInTurn
  <2>4. counter' = (ids[Len(ids)] + 1) % Ids /\ ids' = ids
    BY <1>2, <2>1 DEF WriteId
  <2> HIDE DEF n
  <2>5. counter' = Len(ids) % Ids
    BY <1>0, <2>2, <2>3, <2>4, NextModulo
  <2>6. \A v \in User : at'[v] # "counted"
    BY <1>0, <1>2 DEF WriteId, Goes, LocksHeld, Counts
  <2> QED
    BY <2>4, <2>5, <2>6 DEF Counted, IdsInTurn
<1>3. ASSUME UNCHANGED <<ids, counter>>,
             \A v \in User : at'[v] = "counted" <=> at[v] = "counted",
             \A v \in User : at[v] = "counted" => mine'[v] = mine[v]
      PROVE (Counted /\ IdsInTurn)'
  BY <1>3 DEF Counted, IdsInTurn
<1> USE <1>0, <1>3 DEF Goes, idVars
<1>4. ASSUME NEW u \in User, LockId(u) PROVE (Counted /\ IdsInTurn)'
  BY <1>4 DEF LockId
<1>5. ASSUME NEW u \in User, LockToAdd(u) PROVE (Counted /\ IdsInTurn)'
  BY <1>5 DEF LockToAdd
<1>6. ASSUME NEW u \in User, FindTail(u) PROVE (Counted /\ IdsInTurn)'
  BY <1>6 DEF FindTail
<1>7. ASSUME NEW u \in User, LinkTail(u) PROVE (Counted /\ IdsInTurn)'
  BY <1>7 DEF LinkTail
<1>8. ASSUME NEW u \in User, Signal(u) PROVE (Counted /\ IdsInTurn)'
  BY <1>8 DEF Signal
<1>9. ASSUME NEW u \in User, LockToGet(u) PROVE (Counted /\ IdsInTurn)'
  BY <1>9 DEF LockToGet
<1>10. ASSUME NEW u \in User, GetHead(u) PROVE (Counted /\ IdsInTurn)'
  <2>1. CASE list = << >>
    BY <1>10, <2>1 DEF GetHead
  <2>2. CASE list # << >>
    BY <1>10, <2>2 DEF GetHead
  <2> QED
    BY <2>1, <2>2
<1>11. ASSUME NEW u \in User, RemoveHead(u) PROVE (Counted /\ IdsInTurn)'
  BY <1>11 DEF RemoveHead
<1>12. ASSUME Purge \/ UNCHANGED queVars PROVE (Counted /\ IdsInTurn)'
  BY <1>12 DEF Purge, queVars
<1> QED
  BY <1>1, <1>2, <1>4, <1>5, <1>6, <1>7, <1>8, <1>9, <1>10, <1>11, <1>12 DEF QueNext

(* Whichever threads make messages at once, each gets the number that is   *)
(* its turn: of the 2^32 numbers none is given twice before all are.       *)
THEOREM NumbersInTurn == QueSpec => []IdsInTurn
<1>1. QueInit => QueTypeOK /\ LocksHeld /\ Counted /\ IdsInTurn
  BY QueInitInv DEF QueInv
<1> QED
  BY <1>1, QueTypeStep, LocksStep, CountStep, PTL DEF QueSpec

(* Nobody else carries what a thread makes, and what it puts was carried.  *)
LEMMA PlaceStep ==
  QueTypeOK /\ LocksHeld /\ Counted /\ OnePlace /\ LookedUp /\ ~PurgeShared /\ [QueNext]_queVars
    => OnePlace'
<1> SUFFICES ASSUME QueTypeOK, LocksHeld, Counted, OnePlace, LookedUp, ~PurgeShared,
                    [QueNext]_queVars
             PROVE  OnePlace'
  OBVIOUS
<1>0. /\ ids \in Seq(Nat) /\ Len(ids) \in Nat /\ at \in [User -> Stage]
      /\ mine \in [User -> 0 .. MaxMessages] /\ list \in Seq(Message) /\ taken \in Seq(Message)
      /\ \A u \in User : Carries(u) => mine[u] \in 1 .. Len(ids)
  BY LenProperties DEF QueTypeOK
<1>1. ASSUME NEW u \in User, ReadId(u) PROVE OnePlace'
  <2>1. Len(ids') = Len(ids) + 1
    BY <1>0, <1>1, AppendProperties DEF ReadId
  <2>2. /\ at' = [at EXCEPT ![u] = "counted"] /\ mine' = [mine EXCEPT ![u] = Len(ids')]
        /\ Put' = Put
    BY <1>1 DEF ReadId, Goes, Put
  <2>3. \A v \in User \ {u} : (Carries(v)' <=> Carries(v)) /\ mine'[v] = mine[v]
    BY <1>0, <2>2 DEF Carries
  <2>4. mine'[u] = Len(ids) + 1
    BY <1>0, <2>1, <2>2
  <2>5. Put \subseteq 1 .. Len(ids)
    BY DEF OnePlace
  <2>6. Put' \subseteq 1 .. Len(ids')
    BY <1>0, <2>1, <2>2, <2>5
  <2>7. ASSUME NEW v \in User, Carries(v)' PROVE mine'[v] \notin Put'
    <3>1. CASE v = u
      BY <1>0, <2>2, <2>4, <2>5, <3>1
    <3>2. CASE v # u
      BY <2>2, <2>3, <2>7, <3>2 DEF OnePlace
    <3> QED
      BY <3>1, <3>2
  <2>8. ASSUME NEW v \in User, NEW w \in User \ {v}, Carries(v)', Carries(w)'
        PROVE  mine'[w] # mine'[v]
    <3>1. ASSUME NEW x \in User \ {u}, Carries(x)' PROVE mine'[x] # Len(ids) + 1
      BY <1>0, <2>3, <3>1
    <3>2. CASE v = u
      BY <2>4, <2>8, <3>1, <3>2
    <3>3. CASE w = u
      BY <2>4, <2>8, <3>1, <3>3
    <3>4. CASE v # u /\ w # u
      BY <2>3, <2>8, <3>4 DEF OnePlace
    <3> QED
      BY <3>2, <3>3, <3>4
  <2> QED
    BY <2>6, <2>7, <2>8 DEF OnePlace
(* A step that changes no message's place.                                 *)
<1>2. ASSUME UNCHANGED ids, Put' \subseteq Put,
             \A v \in User : Carries(v)' => Carries(v) /\ mine'[v] = mine[v]
      PROVE OnePlace'
  BY <1>2 DEF OnePlace
<1>3. ASSUME NEW u \in User, LinkTail(u) PROVE OnePlace'
  <2>1. tail[u] = list /\ mine[u] \in Message /\ Carries(u)
    BY <1>3, <1>0 DEF LinkTail, LookedUp, Carries, QueTypeOK, Message
  <2>2. /\ list' = Append(list, mine[u]) /\ UNCHANGED <<ids, taken, purged>>
        /\ at' = [at EXCEPT ![u] = "signal"] /\ mine' = [mine EXCEPT ![u] = 0]
    BY <1>3, <2>1 DEF LinkTail, Goes, idVars
  <2>3. Put' = Put \cup {mine[u]}
    BY <1>0, <2>1, <2>2, ToSetFacts DEF Put
  <2>4. \A v \in User : Carries(v)' => v # u /\ Carries(v) /\ mine'[v] = mine[v]
    BY <1>0, <2>2 DEF Carries
  <2> QED
    BY <1>0, <2>1, <2>2, <2>3, <2>4 DEF OnePlace
<1>4. ASSUME NEW u \in User, RemoveHead(u) PROVE OnePlace'
  <2>1. list # << >> /\ mine[u] = Head(list)
    BY <1>4 DEF RemoveHead, LookedUp
  <2>2. /\ list' = Tail(list) /\ taken' = Append(taken, Head(list)) /\ UNCHANGED <<ids, purged>>
        /\ at' = [at EXCEPT ![u] = "out"] /\ mine' = [mine EXCEPT ![u] = 0]
    BY <1>4, <2>1 DEF RemoveHead, Goes, idVars
  <2>3. Head(list) \in Message
    BY <1>0, <2>1, HeadTailProperties
  <2>4. ToSet(list') \subseteq ToSet(list) /\ ToSet(taken') = ToSet(taken) \cup {Head(list)}
    BY <1>0, <2>1, <2>2, <2>3, ToSetFacts
  <2>5. Head(list) \in ToSet(list)
    BY <1>0, <2>1, ToSetFacts
  <2>6. Put' \subseteq Put
    BY <2>2, <2>4, <2>5 DEF Put
  <2>7. \A v \in User : Carries(v)' => Carries(v) /\ mine'[v] = mine[v]
    BY <1>0, <2>2 DEF Carries
  <2> QED
    BY <1>2, <2>2, <2>6, <2>7
<1>5. ASSUME Purge PROVE OnePlace'
  <2>1. Put' \subseteq Put
    BY <1>5 DEF Purge, Put, ToSet
  <2> QED
    BY <1>2, <1>5, <2>1 DEF Purge, idVars, Carries
<1>6. ASSUME UNCHANGED <<ids, list, taken, purged>>,
             \A v \in User : Carries(v)' => Carries(v) /\ mine'[v] = mine[v]
      PROVE OnePlace'
  BY <1>2, <1>6 DEF Put
<1> USE <1>0, <1>6 DEF Goes, idVars, Carries
<1>7. ASSUME NEW u \in User, LockId(u) PROVE OnePlace'
  BY <1>7 DEF LockId
<1>8. ASSUME NEW u \in User, WriteId(u) PROVE OnePlace'
  BY <1>8 DEF WriteId
<1>9. ASSUME NEW u \in User, LockToAdd(u) PROVE OnePlace'
  BY <1>9 DEF LockToAdd
<1>10. ASSUME NEW u \in User, FindTail(u) PROVE OnePlace'
  BY <1>10 DEF FindTail
<1>11. ASSUME NEW u \in User, Signal(u) PROVE OnePlace'
  BY <1>11 DEF Signal
<1>12. ASSUME NEW u \in User, LockToGet(u) PROVE OnePlace'
  BY <1>12 DEF LockToGet
<1>13. ASSUME NEW u \in User, GetHead(u) PROVE OnePlace'
  <2>1. CASE list = << >>
    BY <1>13, <2>1 DEF GetHead
  <2>2. CASE list # << >>
    BY <1>13, <2>2 DEF GetHead
  <2> QED
    BY <2>1, <2>2
<1>14. ASSUME UNCHANGED queVars PROVE OnePlace'
  BY <1>14 DEF queVars
<1> QED
  BY <1>1, <1>3, <1>4, <1>5, <1>7, <1>8, <1>9, <1>10, <1>11, <1>12, <1>13, <1>14 DEF QueNext

(* Under m_lock, what was looked up stays so: whoever changes the list     *)
(* holds the lock, and purge() finds it free.                              *)
LEMMA LookStep ==
  QueTypeOK /\ LocksHeld /\ LookedUp /\ ~PurgeShared /\ [QueNext]_queVars => LookedUp'
<1> SUFFICES ASSUME QueTypeOK, LocksHeld, LookedUp, ~PurgeShared, [QueNext]_queVars
             PROVE  LookedUp'
  OBVIOUS
<1>0. /\ at \in [User -> Stage] /\ mine \in [User -> 0 .. MaxMessages]
      /\ tail \in [User -> Seq(Message)]
  BY DEF QueTypeOK
<1>1. ASSUME NEW u \in User, Holds(u), NEW v \in User, v # u
      PROVE  at[v] \notin {"link", "remove"}
  BY <1>1 DEF LocksHeld, Holds
(* A step of the thread that holds the lock, after which it is at neither. *)
<1>2. ASSUME NEW u \in User, Holds(u), NEW p, p \notin {"link", "remove"},
             at' = [at EXCEPT ![u] = p]
      PROVE LookedUp'
  BY <1>0, <1>1, <1>2 DEF LookedUp
<1>3. ASSUME NEW u \in User, FindTail(u) PROVE LookedUp'
  <2>1. \A v \in User : v # u => at'[v] \notin {"link", "remove"}
    BY <1>0, <1>1, <1>3 DEF FindTail, Goes, Holds
  <2>2. at'[u] = "link" /\ tail'[u] = list'
    BY <1>0, <1>3 DEF FindTail, Goes
  <2> QED
    BY <2>1, <2>2 DEF LookedUp
<1>4. ASSUME NEW u \in User, LinkTail(u) PROVE LookedUp'
  BY <1>2, <1>4 DEF LinkTail, Goes, Holds
<1>5. ASSUME NEW u \in User, RemoveHead(u) PROVE LookedUp'
  BY <1>2, <1>5 DEF RemoveHead, Goes, Holds
<1>6. ASSUME NEW u \in User, Signal(u) PROVE LookedUp'
  BY <1>2, <1>6 DEF Signal, Goes, Holds
<1>7. ASSUME NEW u \in User, GetHead(u) PROVE LookedUp'
  <2>1. CASE list = << >>
    BY <1>2, <1>7, <2>1 DEF GetHead, Goes, Holds
  <2>2. CASE list # << >>
    <3>1. /\ at' = [at EXCEPT ![u] = "remove"] /\ mine' = [mine EXCEPT ![u] = Head(list)]
          /\ list' = list
      BY <1>7, <2>2 DEF GetHead, Goes
    <3>2. \A v \in User : v # u => at'[v] \notin {"link", "remove"}
      BY <1>0, <1>1, <1>7, <3>1 DEF GetHead, Holds
    <3>3. at'[u] = "remove" /\ mine'[u] = Head(list') /\ list' # << >>
      BY <1>0, <2>2, <3>1
    <3> QED
      BY <3>2, <3>3 DEF LookedUp
  <2> QED
    BY <2>1, <2>2
<1>8. ASSUME Purge PROVE LookedUp'
  <2>1. \A v \in User : at[v] \notin {"link", "remove"}
    BY <1>8, UnheldUses DEF Purge, LocksHeld, Holds
  <2> QED
    BY <1>8, <2>1 DEF Purge, LookedUp
<1>9. ASSUME UNCHANGED <<list, tail>>,
             \A v \in User : at'[v] \in {"link", "remove"} => at'[v] = at[v] /\ mine'[v] = mine[v]
      PROVE LookedUp'
  BY <1>9 DEF LookedUp
<1> USE <1>0, <1>9 DEF Goes, idVars
<1>10. ASSUME NEW u \in User, LockId(u) PROVE LookedUp'
  BY <1>10 DEF LockId
<1>11. ASSUME NEW u \in User, ReadId(u) PROVE LookedUp'
  BY <1>11 DEF ReadId
<1>12. ASSUME NEW u \in User, WriteId(u) PROVE LookedUp'
  BY <1>12 DEF WriteId
<1>13. ASSUME NEW u \in User, LockToAdd(u) PROVE LookedUp'
  BY <1>13 DEF LockToAdd
<1>14. ASSUME NEW u \in User, LockToGet(u) PROVE LookedUp'
  BY <1>14 DEF LockToGet
<1>15. ASSUME UNCHANGED queVars PROVE LookedUp'
  BY <1>15 DEF queVars
<1> QED
  BY <1>3, <1>4, <1>5, <1>6, <1>7, <1>8, <1>10, <1>11, <1>12, <1>13, <1>14, <1>15 DEF QueNext

LEMMA QueStepInv == ~PurgeShared /\ QueInv /\ [QueNext]_queVars => QueInv'
BY QueTypeStep, LocksStep, CountStep, PlaceStep, LookStep DEF QueInv

(* Linking behind the tail puts a message, removing the head takes one,    *)
(* purge() clears, and every other step is none of the queue's.            *)
LEMMA FifoStep ==
  ~PurgeShared /\ QueInv /\ [QueNext]_queVars => [Promise!FifoNext]_(Promise!fifoVars)
<1> SUFFICES ASSUME ~PurgeShared, QueInv, [QueNext]_queVars
             PROVE  Promise!FifoNext \/ UNCHANGED <<list, taken, purged>>
  BY DEF Promise!fifoVars
<1> USE DEF idVars
<1>1. ASSUME NEW u \in User, LinkTail(u) PROVE Promise!FifoNext
  <2>1. /\ tail[u] = list /\ mine[u] \in Message
        /\ mine[u] \notin ToSet(list) \cup ToSet(taken) \cup purged
    BY <1>1 DEF LinkTail, QueInv, LookedUp, OnePlace, Carries, QueTypeOK, Message, Put
  <2>2. list' = Append(list, mine[u]) /\ UNCHANGED <<taken, purged>>
    BY <1>1, <2>1 DEF LinkTail
  <2>3. Promise!Put(mine[u])
    BY <2>1, <2>2 DEF Promise!Put, Promise!ToSet, ToSet
  <2> QED
    BY <2>1, <2>3 DEF Promise!FifoNext
<1>2. ASSUME NEW u \in User, RemoveHead(u) PROVE Promise!FifoNext
  <2>1. list # << >> /\ mine[u] = Head(list)
    BY <1>2 DEF RemoveHead, QueInv, LookedUp
  <2>2. Promise!Take
    BY <1>2, <2>1 DEF RemoveHead, Promise!Take
  <2> QED
    BY <2>2 DEF Promise!FifoNext
<1>3. ASSUME Purge PROVE Promise!FifoNext
  BY <1>3 DEF Purge, Promise!FifoNext, Promise!Clear, Promise!ToSet, ToSet
<1>4. ASSUME NEW u \in User, LockId(u) \/ ReadId(u) \/ WriteId(u)
      PROVE UNCHANGED <<list, taken, purged>>
  BY <1>4 DEF LockId, ReadId, WriteId
<1>5. ASSUME NEW u \in User, LockToAdd(u) \/ FindTail(u) \/ Signal(u)
      PROVE UNCHANGED <<list, taken, purged>>
  BY <1>5 DEF LockToAdd, FindTail, Signal
<1>6. ASSUME NEW u \in User, LockToGet(u) \/ GetHead(u)
      PROVE UNCHANGED <<list, taken, purged>>
  BY <1>6 DEF LockToGet, GetHead
<1>7. ASSUME UNCHANGED queVars PROVE UNCHANGED <<list, taken, purged>>
  BY <1>7 DEF queVars
<1> QED
  BY <1>1, <1>2, <1>3, <1>4, <1>5, <1>6, <1>7 DEF QueNext

(* However many threads add and get at once, PacketMessageQue is a FIFO    *)
(* that loses nothing and hands nothing out twice, where purge() does not  *)
(* come while another thread is in a call.                                 *)
THEOREM FifoImplemented == ~PurgeShared /\ QueSpec => ImplementsFifo
<1> SUFFICES ASSUME ~PurgeShared PROVE QueSpec => ImplementsFifo
  OBVIOUS
<1>1. QueInit => Promise!FifoInit
  BY DEF QueInit, Promise!FifoInit
<1>2. QueInv /\ [QueNext]_queVars => QueInv'
  BY QueStepInv
<1>3. QueInv /\ [QueNext]_queVars => [Promise!FifoNext]_(Promise!fifoVars)
  BY FifoStep
<1> QED
  BY QueInitInv, <1>1, <1>2, <1>3, PTL DEF QueSpec, ImplementsFifo, Promise!FifoSpec

-----------------------------------------------------------------------------
(* The timer of idle().                                                    *)

TimerTypeOK ==
  /\ loop \in {"start", "calc", "subtract", "select", "asleep", "check"}
  /\ now \in Nat /\ start \in Nat /\ timeout \in Nat /\ asleep \in Nat
  /\ timedOut \in BOOLEAN /\ idled \in BOOLEAN /\ slipped \in BOOLEAN
  /\ start <= now /\ asleep <= now

(* What is asked of select() holds from where it is computed, and a sleep  *)
(* that was slept to its end has brought the clock to the end of the       *)
(* period, to within the millisecond the two readings may round away.      *)
AskedInTime ==
  loop = "select" =>
     /\ now + timeout >= start + (Freq - 1) * UsPerMs
     /\ slipped \/ timeout <= Freq * UsPerMs

SleptInTime ==
  loop = "check" /\ timedOut => now >= start + (Freq - 1) * UsPerMs

TimerInv ==
  /\ TimerTypeOK /\ SleepEndsWhenDue /\ AskedInTime /\ SleptInTime
  /\ loop \in {"start", "calc"} /\ timedOut => idled

(* What the theorem needs of the program: the period is one unsigned32     *)
(* holds in microseconds (71 minutes), and no turn of the loop is so long  *)
(* that the milliseconds since start() wrap (49 days).                     *)
PeriodFits == Freq * UsPerMs < Width

TurnsInTime == now - start <= (Width - 1) * UsPerMs

-----------------------------------------------------------------------------
LEMMA TimesLess ==
  ASSUME NEW b \in Nat \ {0}, NEW x \in Int, NEW y \in Int, x < y
  PROVE  b * x + b <= b * y
<1>1. PICK k \in Nat : k = y - x - 1
  OBVIOUS
<1>2. b * k \in Nat
  OBVIOUS
<1>3. b * y = b * x + b + b * k
  <2>1. y = x + 1 + k
    BY <1>1
  <2> QED
    BY <2>1
<1> QED
  BY <1>2, <1>3

LEMMA TimesLessInverse ==
  ASSUME NEW b \in Nat \ {0}, NEW x \in Int, NEW y \in Int, b * x < b * y
  PROVE  x < y
<1>1. CASE x = y
  BY <1>1
<1>2. CASE y < x
  <2>1. b * y + b <= b * x
    BY <1>2, TimesLess
  <2>2. b * x \in Int /\ b * y \in Int
    OBVIOUS
  <2> QED
    BY <2>1, <2>2
<1> QED
  BY <1>1, <1>2

(* C's division is less than one off, on either side of zero.              *)
LEMMA QuotientBounds ==
  ASSUME NEW a \in Int, NEW b \in Nat \ {0}
  PROVE  /\ Quotient(a, b) \in Int
         /\ b * Quotient(a, b) < a + b /\ b * Quotient(a, b) > a - b
<1>1. CASE a >= 0
  <2>1. a \in Nat
    BY <1>1
  <2>2. PICK q, r : q = a \div b /\ r = a % b
    OBVIOUS
  <2>3. r \in 0 .. b - 1 /\ q \in Nat /\ a = b * q + r
    BY <2>1, <2>2, DivMod
  <2>4. Quotient(a, b) = q
    BY <1>1, <2>2 DEF Quotient
  <2> QED
    BY <2>3, <2>4
<1>2. CASE a < 0
  <2>1. PICK n \in Nat : n = -a
    BY <1>2
  <2>2. PICK q, r : q = n \div b /\ r = n % b
    OBVIOUS
  <2>3. r \in 0 .. b - 1 /\ q \in Nat /\ n = b * q + r
    BY <2>2, DivMod
  <2>4. Quotient(a, b) = -q
    BY <1>2, <2>1, <2>2 DEF Quotient
  <2>5. b * (-q) = -(b * q)
    BY <2>3
  <2> QED
    BY <2>1, <2>3, <2>4, <2>5
<1> QED
  BY <1>1, <1>2

LEMMA TimerConstants ==
  /\ UsPerMs \in Nat \ {0} /\ MsPerSec \in Nat \ {0} /\ MinFreq \in Nat \ {0}
  /\ Freq \in Nat \ {0} /\ Width \in Nat \ {0} /\ MaxNow \in Nat /\ Freq >= MinFreq
  /\ UsPerSec \in Nat \ {0}
<1>1. /\ UsPerMs \in Nat \ {0} /\ MsPerSec \in Nat \ {0} /\ MinFreq \in Nat \ {0}
      /\ Freq \in Nat \ {0} /\ Width \in Nat \ {0} /\ MaxNow \in Nat /\ Freq >= MinFreq
  BY IdleTimerConstants
<1>2. UsPerMs * 0 + UsPerMs <= UsPerMs * MsPerSec
  BY <1>1, TimesLess
<1> QED
  BY <1>1, <1>2 DEF UsPerSec

(* The difference of the seconds and the difference of the microseconds,   *)
(* each rounded as it is, together are less than a millisecond off.        *)
LEMMA ElapsedBounds ==
  ASSUME NEW from \in Nat, NEW to \in Nat, from <= to
  PROVE  /\ ElapsedMs(from, to) \in 0 .. Width - 1
         /\ to - from <= (Width - 1) * UsPerMs =>
              /\ UsPerMs * ElapsedMs(from, to) < to - from + UsPerMs
              /\ UsPerMs * ElapsedMs(from, to) > to - from - UsPerMs
<1> USE TimerConstants
<1>1. PICK s1, u1 : s1 = to \div UsPerSec /\ u1 = to % UsPerSec
  OBVIOUS
<1>2. PICK s0, u0 : s0 = from \div UsPerSec /\ u0 = from % UsPerSec
  OBVIOUS
<1>3. u1 \in Nat /\ s1 \in Nat /\ to = UsPerSec * s1 + u1
  BY <1>1, DivMod
<1>4. u0 \in Nat /\ s0 \in Nat /\ from = UsPerSec * s0 + u0
  BY <1>2, DivMod
<1>5. PICK q : q = Quotient(u1 - u0, UsPerMs)
  OBVIOUS
<1>6. /\ q \in Int
      /\ UsPerMs * q < (u1 - u0) + UsPerMs /\ UsPerMs * q > (u1 - u0) - UsPerMs
  <2>1. u1 - u0 \in Int
    BY <1>3, <1>4
  <2> QED
    BY <1>5, <2>1, QuotientBounds
<1>7. PICK m : m = (s1 - s0) * MsPerSec + q
  OBVIOUS
<1>8. m \in Int /\ ElapsedMs(from, to) = m % Width
  <2>1. (s1 - s0) * MsPerSec \in Int
    BY <1>3, <1>4
  <2> QED
    BY <1>1, <1>2, <1>5, <1>6, <1>7, <2>1 DEF ElapsedMs
<1>9. UsPerMs * m = (UsPerSec * s1 - UsPerSec * s0) + UsPerMs * q
  <2>1. PICK d \in Int : d = s1 - s0
    BY <1>3, <1>4
  <2>2. UsPerMs * (d * MsPerSec + q) = (UsPerMs * MsPerSec) * d + UsPerMs * q
    BY <1>6, <2>1
  <2>3. UsPerSec * d = UsPerSec * s1 - UsPerSec * s0
    BY <1>3, <1>4, <2>1
  <2> QED
    BY <1>7, <2>1, <2>2, <2>3 DEF UsPerSec
<1>10. UsPerMs * m < to - from + UsPerMs /\ UsPerMs * m > to - from - UsPerMs
  <2>1. PICK x \in Int, y \in Int, z \in Int :
          x = UsPerSec * s1 /\ y = UsPerSec * s0 /\ z = UsPerMs * q
    BY <1>3, <1>4, <1>6
  <2> QED
    BY <1>3, <1>4, <1>6, <1>9, <2>1
<1>11. m \in Nat
  <2>1. UsPerMs * (-1) < UsPerMs * m
    BY <1>8, <1>10
  <2>2. -1 < m
    BY <1>8, <2>1, TimesLessInverse
  <2> QED
    BY <1>8, <2>2
<1>12. m % Width \in 0 .. Width - 1
  BY <1>11, DivMod
<1>13. ASSUME to - from <= (Width - 1) * UsPerMs PROVE m % Width = m
  <2>1. (Width - 1) * UsPerMs + UsPerMs = UsPerMs * Width
    OBVIOUS
  <2>2. UsPerMs * m < UsPerMs * Width
    BY <1>8, <1>10, <1>13, <2>1
  <2>3. m < Width
    BY <1>8, <2>2, TimesLessInverse
  <2>4. m = Width * 0 + m
    BY <1>11
  <2> QED
    BY <1>11, <2>3, <2>4, Modulo
<1> QED
  BY <1>8, <1>10, <1>12, <1>13

-----------------------------------------------------------------------------
LEMMA TimerInitInv == TimerInit => TimerInv
<1> SUFFICES ASSUME TimerInit PROVE TimerInv
  OBVIOUS
<1>1. TimerTypeOK
  <2>1. now \in Nat
    BY TimerConstants DEF TimerInit
  <2>2. /\ loop = "start" /\ start = now /\ asleep = now /\ timeout = 0
        /\ timedOut = FALSE /\ idled = TRUE /\ slipped = FALSE
    BY DEF TimerInit
  <2>3. now <= now
    BY <2>1
  <2> QED
    BY <2>1, <2>2, <2>3 DEF TimerTypeOK
<1> QED
  BY <1>1 DEF TimerInit, TimerInv, SleepEndsWhenDue, AskedInTime, SleptInTime

(* What the loop knows of the time since start() from its readings.        *)
LEMMA Readings ==
  ASSUME TimerTypeOK
  PROVE  /\ Milliseconds \in 0 .. Width - 1
         /\ TurnsInTime => /\ UsPerMs * Milliseconds < now - start + UsPerMs
                           /\ UsPerMs * Milliseconds > now - start - UsPerMs
BY ElapsedBounds DEF TimerTypeOK, TurnsInTime, Milliseconds

(* The period itself does not wrap.                                        *)
LEMMA Period ==
  ASSUME PeriodFits
  PROVE  /\ Freq * UsPerMs \in Nat /\ Freq * UsPerMs = UsPerMs * Freq
         /\ (Freq - 1) * UsPerMs = UsPerMs * Freq - UsPerMs
         /\ (Freq - 1) * UsPerMs \in Nat
         /\ Freq < Width /\ UsPerMs * Freq < Width
<1> USE TimerConstants
<1>1. Freq * UsPerMs \in Nat /\ Freq * UsPerMs = UsPerMs * Freq /\ UsPerMs * Freq < Width
  BY DEF PeriodFits
<1>2. (Freq - 1) * UsPerMs = UsPerMs * Freq - UsPerMs
  OBVIOUS
<1>3. Freq <= UsPerMs * Freq
  <2>1. UsPerMs * Freq = Freq * UsPerMs
    OBVIOUS
  <2> QED
    BY <2>1, MultipleIsLarger
<1>4. UsPerMs <= UsPerMs * Freq
  BY MultipleIsLarger
<1> QED
  BY <1>1, <1>2, <1>3, <1>4

LEMMA SubtractsInTime ==
  ASSUME TimerTypeOK, PeriodFits, TurnsInTime, Subtracts
  PROVE  /\ timeout' \in Nat
         /\ now + timeout' >= start + (Freq - 1) * UsPerMs
         /\ slipped' \/ timeout' <= Freq * UsPerMs
<1> USE TimerConstants
<1>1. PICK m, z \in Int : m = Milliseconds /\ z = UsPerMs * m
  BY Readings
<1>2. m \in 0 .. Width - 1 /\ z < now - start + UsPerMs /\ z > now - start - UsPerMs
  BY <1>1, Readings
<1>3. now \in Nat /\ start \in Nat
  BY DEF TimerTypeOK
<1>4. PICK f \in Nat : f = UsPerMs * Freq
  OBVIOUS
<1>5. Freq * UsPerMs = f /\ (Freq - 1) * UsPerMs = f - UsPerMs /\ f < Width /\ Freq < Width
  BY <1>4, Period
<1>6. timeout' = (((Freq - m) % Width) * UsPerMs) % Width /\ slipped' = (m > Freq)
  BY <1>1 DEF Subtracts
<1>7. CASE m <= Freq
  <2>1. PICK left \in Nat : left = Freq - m
    BY <1>2, <1>7
  <2>2. left % Width = left
    <3>1. left = Width * 0 + left /\ left < Width
      BY <1>2, <1>5, <2>1
    <3> QED
      BY <2>1, <3>1, Modulo
  <2>3. left * UsPerMs = f - z
    BY <1>1, <1>2, <1>4, <2>1
  <2>4. z >= 0 /\ f - z \in Nat
    <3>1. z \in Nat /\ left * UsPerMs \in Nat
      BY <1>1, <1>2, <2>1
    <3> QED
      BY <2>3, <3>1
  <2>5. (f - z) % Width = f - z
    <3>1. f - z = Width * 0 + (f - z) /\ f - z < Width
      BY <1>1, <1>5, <2>4
    <3> QED
      BY <2>4, <3>1, Modulo
  <2>6. timeout' = f - z
    BY <1>6, <2>1, <2>2, <2>3, <2>5
  <2> QED
    BY <1>1, <1>2, <1>3, <1>4, <1>5, <2>4, <2>6
<1>8. CASE m > Freq
  <2>1. f + UsPerMs <= z
    BY <1>1, <1>2, <1>4, <1>8, TimesLess
  <2>2. timeout' \in Nat
    <3>1. (Freq - m) % Width \in Nat
      OBVIOUS
    <3>2. ((Freq - m) % Width) * UsPerMs \in Nat
      BY <3>1
    <3> QED
      BY <1>6, <3>2, DivMod
  <2>3. f < now - start
    BY <1>1, <1>2, <1>3, <1>4, <2>1
  <2>4. PICK t \in Nat : t = timeout'
    BY <2>2
  <2>5. now + t >= start + (f - UsPerMs)
    BY <1>3, <1>4, <2>3
  <2>6. slipped'
    BY <1>6, <1>8
  <2> QED
    BY <1>5, <2>4, <2>5, <2>6
<1> QED
  BY <1>2, <1>7, <1>8

LEMMA DueInTime ==
  ASSUME TimerTypeOK, PeriodFits, TurnsInTime, now >= start + (Freq - 1) * UsPerMs
  PROVE  Due
<1> USE TimerConstants
<1>1. PICK m, z \in Int : m = Milliseconds /\ z = UsPerMs * m
  BY Readings
<1>2. m \in 0 .. Width - 1 /\ z > now - start - UsPerMs
  BY <1>1, Readings
<1>3. now \in Nat /\ start \in Nat
  BY DEF TimerTypeOK
<1>4. UsPerMs * (Freq - 2) < UsPerMs * m
  <2>1. UsPerMs * (Freq - 2) = (Freq - 1) * UsPerMs - UsPerMs
    OBVIOUS
  <2>2. (Freq - 1) * UsPerMs \in Nat
    BY Period
  <2> QED
    BY <1>1, <1>2, <1>3, <2>1, <2>2
<1>5. Freq - 2 < m
  BY <1>2, <1>4, TimesLessInverse
<1>6. (Freq - MinFreq) % Width = Freq - MinFreq
  <2>1. /\ Freq - MinFreq \in Nat /\ Freq - MinFreq < Width
        /\ Freq - MinFreq = Width * 0 + (Freq - MinFreq)
    BY Period
  <2> QED
    BY <2>1, Modulo
<1> QED
  BY <1>1, <1>2, <1>5, <1>6 DEF Due

LEMMA TimerStepInv ==
  ASSUME PeriodFits, TimerInv, TurnsInTime, [TimerNext]_timerVars
  PROVE  TimerInv'
<1> USE TimerConstants
<1>a. TimerTypeOK
  BY DEF TimerInv
<1>b. PICK f \in Nat, g \in Nat : f = Freq * UsPerMs /\ g = (Freq - 1) * UsPerMs /\ g <= f
  BY Period
<1>1. CASE Passes
  BY <1>1, <1>b DEF Passes, TimerInv, TimerTypeOK, SleepEndsWhenDue, AskedInTime, SleptInTime
<1>2. CASE StartsTimer
  BY <1>2 DEF StartsTimer, TimerInv, TimerTypeOK, SleepEndsWhenDue, AskedInTime, SleptInTime
<1>3. CASE TimeLeft
  BY <1>3 DEF TimeLeft, TimerInv, TimerTypeOK, SleepEndsWhenDue, AskedInTime, SleptInTime
<1>4. CASE FullTime
  <2>1. timeout' = f /\ now' = now /\ start' = start /\ loop' = "select"
    BY <1>4, <1>b DEF FullTime
  <2>2. AskedInTime' /\ timeout' \in Nat
    BY <1>a, <1>b, <2>1 DEF TimerTypeOK, AskedInTime
  <2> QED
    BY <1>4, <2>2 DEF FullTime, TimerInv, TimerTypeOK, SleepEndsWhenDue, SleptInTime
<1>5. CASE Subtracts
  <2>1. /\ timeout' \in Nat
        /\ now + timeout' >= start + (Freq - 1) * UsPerMs
        /\ slipped' \/ timeout' <= Freq * UsPerMs
    BY <1>5, <1>a, SubtractsInTime
  <2>2. slipped' \in BOOLEAN
    BY <1>5 DEF Subtracts
  <2>3. /\ loop' = "select"
        /\ UNCHANGED <<now, start, asleep, timedOut, idled>>
    BY <1>5 DEF Subtracts
  <2> QED
    BY <2>1, <2>2, <2>3 DEF TimerInv, TimerTypeOK, SleepEndsWhenDue, AskedInTime, SleptInTime
<1>6. CASE Selects
  <2>1. /\ loop' = "asleep" /\ asleep' = now /\ idled' = FALSE
        /\ UNCHANGED <<now, start, timeout, timedOut, slipped>>
    BY <1>6 DEF Selects
  <2>2. SleepEndsWhenDue'
    BY <1>6, <1>b, <2>1 DEF Selects, TimerInv, AskedInTime, SleepEndsWhenDue
  <2>3. TimerTypeOK'
    <3>1. now \in Nat /\ now <= now
      BY <1>a DEF TimerTypeOK
    <3>2. now' \in Nat /\ start' \in Nat /\ timeout' \in Nat /\ asleep' \in Nat
      BY <1>a, <2>1 DEF TimerTypeOK
    <3>3. start' <= now' /\ asleep' <= now'
      BY <1>a, <2>1, <3>1 DEF TimerTypeOK
    <3>4. timedOut' \in BOOLEAN /\ idled' \in BOOLEAN /\ slipped' \in BOOLEAN
      BY <1>a, <2>1 DEF TimerTypeOK
    <3> QED
      BY <2>1, <3>2, <3>3, <3>4 DEF TimerTypeOK
  <2> QED
    BY <2>1, <2>2, <2>3 DEF TimerInv, AskedInTime, SleptInTime
<1>7. CASE WakesToWork
  BY <1>7 DEF WakesToWork, TimerInv, TimerTypeOK, SleepEndsWhenDue, AskedInTime, SleptInTime
<1>8. CASE WakesAtTimeout
  BY <1>8, <1>b DEF WakesAtTimeout, TimerInv, TimerTypeOK, SleepEndsWhenDue, AskedInTime, SleptInTime
<1>9. CASE Idles
  BY <1>9 DEF Idles, TimerInv, TimerTypeOK, SleepEndsWhenDue, AskedInTime, SleptInTime
<1>10. CASE IdlesNot
  <2>1. ~timedOut
    BY <1>10, <1>a, DueInTime DEF IdlesNot, TimerInv, SleptInTime
  <2> QED
    BY <1>10, <2>1
       DEF IdlesNot, TimerInv, TimerTypeOK, SleepEndsWhenDue, AskedInTime, SleptInTime
<1>11. CASE UNCHANGED timerVars
  BY <1>11 DEF timerVars, TimerInv, TimerTypeOK, SleepEndsWhenDue, AskedInTime, SleptInTime
<1> QED
  BY <1>1, <1>2, <1>3, <1>4, <1>5, <1>6, <1>7, <1>8, <1>9, <1>10, <1>11 DEF TimerNext

-----------------------------------------------------------------------------
(* Whatever the period and however often the loop was woken: a server that *)
(* slept the time it asked for calls idle(), and never asks for less than  *)
(* what is left of the period but a millisecond.  It holds while no turn   *)
(* of the loop takes the 49 days after which elapsed milliseconds wrap.    *)
THEOREM IdlesOnTime == PeriodFits /\ TimerSpec /\ []TurnsInTime => []IdlesWhenDue
<1> SUFFICES ASSUME PeriodFits PROVE TimerSpec /\ []TurnsInTime => []IdlesWhenDue
  OBVIOUS
<1>1. TimerInv => IdlesWhenDue
  BY DEF TimerInv, IdlesWhenDue
<1>2. TimerInv /\ TurnsInTime /\ [TimerNext]_timerVars => TimerInv'
  BY TimerStepInv
<1> QED
  BY TimerInitInv, <1>1, <1>2, PTL DEF TimerSpec

-----------------------------------------------------------------------------
(* What is proved of the lock, the event, the queue and the timer on its   *)
(* own holds where they are driven side by side: a behaviour of Utilities  *)
(* is one of each, for the steps of the others change nothing of it.       *)
THEOREM EachAlone == Spec => LockSpec /\ EventSpec /\ QueSpec /\ TimerSpec
<1>1. Init => LockInit /\ EventInit /\ QueInit /\ TimerInit
  BY DEF Init
<1>2. [Next]_vars => /\ [LockNext]_lockVars /\ [EventNext]_eventVars
                     /\ [QueNext]_queVars /\ [TimerNext]_timerVars
  BY DEF Next, LockStep, EventStep, QueStep, TimerStep, vars
<1> QED
  BY <1>1, <1>2, PTL DEF Spec, LockSpec, EventSpec, QueSpec, TimerSpec

-----------------------------------------------------------------------------
(* The buffers of a ServerSocket.                                          *)

(* Each packet ends at least a header after the one before it.             *)
Marks ==
  \A i \in 1 .. Len(ends) :
    /\ ends[i] >= HeaderSize
    /\ \A j \in 1 .. i - 1 : ends[i] >= ends[j] + HeaderSize

(* When extractPacket() has returned NULL no whole packet is left.         *)
CutWhenReady == pc = "ready" /\ HeaderHere => bytesIn < ends[1]

InInv  == InBufferSafe /\ FramingKept /\ Marks /\ CutWhenReady
OutInv == OverrunBounded /\ OutputConserved /\ outPtr >= bytesOut
SocketInv   == TypeOK /\ InInv /\ OutInv

-----------------------------------------------------------------------------
(* A header is only looked at when the packet it begins is known.          *)
LEMMA HeaderBeginsPacket ==
  ASSUME SocketInv, HeaderHere
  PROVE  /\ Len(ends) \in Nat \ {0} /\ ends # << >>
         /\ ends[1] \in Nat /\ ends[1] >= HeaderSize
         /\ HeadSize \in Nat /\ PacketSize(HeadSize) = ends[1]
<1>1. ends # << >>
  BY SocketConstants DEF SocketInv, TypeOK, InInv, FramingKept, StreamEnd, HeaderHere
<1>2. Len(ends) \in Nat \ {0} /\ ends[1] \in Nat
  BY <1>1 DEF SocketInv, TypeOK
<1>3. ends[1] >= HeaderSize
  BY <1>1 DEF SocketInv, InInv, Marks
<1> QED
  BY <1>1, <1>2, <1>3, SocketConstants DEF HeadSize, PacketSize

(* sendBuffer() never sends more than there is, wherever it stops.         *)
LEMMA SendBufferOut ==
  ASSUME NEW have \in Nat, NEW ptr \in Nat, ptr >= have,
         TypeOK, SendBuffer(have, ptr)
  PROVE  /\ bytesOut' \in 0 .. have /\ outPtr' \in Nat /\ outPtr' >= bytesOut'
         /\ written' \in Nat /\ written' + bytesOut' = written + have
         /\ pc' \in {pc, "closed"}
BY DEF SendBuffer, TypeOK

(* The test of sendPacket() is exact as long as packets are in memory.     *)
LEMMA FitsExact ==
  ASSUME SocketInv, NEW n \in AppSizes
  PROVE  n \in Nat /\ (Fits(n) <=> n + bytesOut <= BufferMax)
<1>1. n \in Nat /\ n + bytesOut \in Nat /\ n + bytesOut < Unsigned
  BY SocketConstants DEF SocketInv, TypeOK, OutInv, OverrunBounded
<1>2. (n + bytesOut) % Unsigned = n + bytesOut
  BY <1>1, SocketConstants
<1> QED
  BY <1>1, <1>2 DEF Fits

-----------------------------------------------------------------------------
LEMMA SocketInitInv == SocketInit => SocketInv
<1> SUFFICES ASSUME SocketInit PROVE SocketInv
  OBVIOUS
<1>1. TypeOK
  <2>1. ends \in Seq(Nat)
    BY DEF SocketInit
  <2> QED
    BY <2>1 DEF SocketInit, TypeOK
<1>2. InBufferSafe /\ FramingKept /\ Marks
  BY SocketConstants DEF SocketInit, InBufferSafe, FramingKept, StreamEnd, Marks
<1>3. CutWhenReady
  BY SocketConstants DEF SocketInit, CutWhenReady, HeaderHere
<1>4. OutInv
  BY SocketConstants DEF SocketInit, OutInv, OverrunBounded, OutputConserved
<1> QED
  BY <1>1, <1>2, <1>3, <1>4 DEF SocketInv, InInv

(* What neither direction disturbs of the other.                           *)
LEMMA InKept ==
  ASSUME InInv, UNCHANGED inVars, pc' \in {pc, "closed"}
  PROVE  InInv'
BY DEF InInv, inVars, InBufferSafe, FramingKept, StreamEnd, Marks, CutWhenReady,
       HeaderHere

LEMMA OutKept ==
  ASSUME OutInv, UNCHANGED outVars
  PROVE  OutInv'
BY DEF OutInv, outVars, OverrunBounded, OutputConserved

LEMMA SocketStepInv == SocketInv /\ [SocketNext]_socketVars => SocketInv'
<1> SUFFICES ASSUME SocketInv, [SocketNext]_socketVars PROVE SocketInv'
  OBVIOUS
<1>1. ASSUME NEW n \in PeerSizes, PeerSends(n) PROVE SocketInv'
  <2>1. n \in Nat /\ PacketSize(n) \in Nat /\ PacketSize(n) >= HeaderSize
    BY SocketConstants DEF PacketSize
  <2>2. StreamEnd \in Nat /\ Len(ends) \in Nat
    BY DEF StreamEnd, SocketInv, TypeOK
  <2> DEFINE last == StreamEnd + PacketSize(n)
  <2>3. ends' = Append(ends, last) /\ last \in Nat
    BY <1>1, <2>1, <2>2 DEF PeerSends
  <2>4. /\ ends' \in Seq(Nat) /\ ends' # << >> /\ Len(ends') = Len(ends) + 1
        /\ ends'[Len(ends) + 1] = last
        /\ \A i \in 1 .. Len(ends) : ends'[i] = ends[i]
    BY <2>2, <2>3 DEF SocketInv, TypeOK
  <2>5. StreamEnd' = last
    BY <2>4 DEF StreamEnd
  <2>6. TypeOK'
    BY <1>1, <2>1, <2>4 DEF PeerSends, SocketInv, TypeOK, outVars
  <2>7. InBufferSafe' /\ FramingKept'
    <3>1. InBufferSafe'
      BY <1>1 DEF PeerSends, SocketInv, InInv, InBufferSafe
    <3>2. /\ bytesIn \in Nat /\ inFlight \in Nat /\ bytesIn + inFlight = StreamEnd
          /\ bytesIn' = bytesIn /\ inFlight' = inFlight + PacketSize(n)
      BY <1>1 DEF PeerSends, SocketInv, TypeOK, InInv, FramingKept
    <3>3. bytesIn' + inFlight' = last
      BY <2>1, <2>2, <3>2
    <3> QED
      BY <2>5, <3>1, <3>3 DEF FramingKept
  <2>8. Marks'
    <3>1. last >= HeaderSize /\ \A j \in 1 .. Len(ends) : last >= ends[j] + HeaderSize
      <4>1. CASE ends = << >>
        BY <2>1, <2>2, <4>1, SocketConstants
      <4>2. CASE ends # << >>
        <5>1. StreamEnd = ends[Len(ends)] /\ Len(ends) \in Nat \ {0}
          BY <2>2, <4>2 DEF StreamEnd, SocketInv, TypeOK
        <5>2. \A j \in 1 .. Len(ends) : ends[j] \in Nat /\ StreamEnd >= ends[j]
          BY <5>1, SocketConstants DEF SocketInv, TypeOK, InInv, Marks
        <5> QED
          BY <2>1, <2>2, <5>2, SocketConstants
      <4> QED
        BY <4>1, <4>2
    <3> HIDE DEF last
    <3>2. \A i \in 1 .. Len(ends) :
            /\ ends'[i] >= HeaderSize
            /\ \A j \in 1 .. i - 1 : ends'[i] >= ends'[j] + HeaderSize
      BY <2>2, <2>4 DEF SocketInv, InInv, Marks
    <3>3. /\ ends'[Len(ends) + 1] >= HeaderSize
          /\ \A j \in 1 .. Len(ends) : ends'[Len(ends) + 1] >= ends'[j] + HeaderSize
      BY <2>4, <3>1
    <3> QED
      BY <2>2, <2>4, <3>2, <3>3 DEF Marks
  <2>9. CutWhenReady'
    <3> SUFFICES ASSUME (pc = "ready" /\ HeaderHere)' PROVE bytesIn' < ends'[1]
      BY DEF CutWhenReady
    <3>1. pc = "ready" /\ HeaderHere /\ bytesIn' = bytesIn
      BY <1>1 DEF PeerSends, HeaderHere
    <3>2. ends'[1] = ends[1]
      BY <2>4, <3>1, HeaderBeginsPacket
    <3> QED
      BY <3>1, <3>2 DEF SocketInv, InInv, CutWhenReady
  <2> QED
    BY <1>1, <2>6, <2>7, <2>8, <2>9, OutKept DEF PeerSends, SocketInv, InInv
<1>2. CASE PeerCloses
  <2>1. TypeOK'
    BY <1>2 DEF PeerCloses, SocketInv, TypeOK, outVars
  <2>2. InInv'
    BY <1>2 DEF PeerCloses, SocketInv, InInv, InBufferSafe, FramingKept, StreamEnd,
                Marks, CutWhenReady, HeaderHere
  <2> QED
    BY <1>2, <2>1, <2>2, OutKept DEF PeerCloses, SocketInv
<1>3. ASSUME NEW k \in 1 .. BufferMax, ReadData(k) PROVE SocketInv'
  <2>1. TypeOK'
    BY <1>3, SocketConstants DEF ReadData, SocketInv, TypeOK, outVars
  <2>2. InInv'
    <3>1. InBufferSafe' /\ FramingKept'
      BY <1>3, SocketConstants
         DEF ReadData, Room, SocketInv, TypeOK, InInv, InBufferSafe, FramingKept, StreamEnd
    <3>2. Marks' /\ CutWhenReady'
      BY <1>3 DEF ReadData, SocketInv, InInv, Marks, CutWhenReady
    <3> QED
      BY <3>1, <3>2 DEF InInv
  <2> QED
    BY <1>3, <2>1, <2>2, OutKept DEF ReadData, SocketInv
<1>4. CASE ReadFails \/ ExtractInvalid
  <2>1. TypeOK'
    BY <1>4 DEF ReadFails, ExtractInvalid, SocketInv, TypeOK, inVars, outVars
  <2> QED
    BY <1>4, <2>1, InKept, OutKept DEF ReadFails, ExtractInvalid, SocketInv
<1>5. CASE ExtractNone
  <2>1. TypeOK'
    BY <1>5 DEF ExtractNone, SocketInv, TypeOK, inVars, outVars
  <2>2. InBufferSafe' /\ FramingKept' /\ Marks'
    BY <1>5 DEF ExtractNone, inVars, SocketInv, InInv, InBufferSafe, FramingKept,
                StreamEnd, Marks
  <2>3. HeaderHere => bytesIn < ends[1]
    BY <1>5, HeaderBeginsPacket DEF ExtractNone, PacketHere, SocketInv, TypeOK
  <2>4. CutWhenReady'
    BY <1>5, <2>3 DEF ExtractNone, inVars, CutWhenReady, HeaderHere
  <2> QED
    BY <1>5, <2>1, <2>2, <2>4, OutKept DEF ExtractNone, SocketInv, InInv
<1>6. CASE ExtractPacket
  <2>1. /\ Len(ends) \in Nat \ {0} /\ ends # << >>
        /\ ends[1] \in Nat /\ ends[1] >= HeaderSize
        /\ PacketSize(HeadSize) = ends[1] /\ bytesIn >= ends[1]
    BY <1>6, HeaderBeginsPacket DEF ExtractPacket, PacketHere
  <2> DEFINE rest == [i \in 1 .. Len(ends) - 1 |-> ends[i + 1] - ends[1]]
  <2>2. \A i \in 1 .. Len(ends) :
          /\ ends[i] \in Nat
          /\ \A j \in 1 .. i - 1 : ends[i] >= ends[j] + HeaderSize
    BY DEF SocketInv, TypeOK, InInv, Marks
  <2>3. \A i \in 1 .. Len(ends) - 1 : rest[i] \in Nat /\ rest[i] >= HeaderSize
    BY <2>1, <2>2, SocketConstants
  <2>4. rest \in Seq(Nat) /\ Len(rest) = Len(ends) - 1
    BY <2>1, <2>3
  <2>5. ends' = rest
    BY <1>6 DEF ExtractPacket
  <2>6. TypeOK'
    <3> HIDE DEF rest
    <3>1. /\ bytesIn' \in Nat /\ inPtr' = bytesIn' /\ received' \in Nat
      BY <1>6, <2>1 DEF ExtractPacket, SocketInv, TypeOK
    <3> QED
      BY <1>6, <2>4, <2>5, <3>1 DEF ExtractPacket, SocketInv, TypeOK, outVars
  <2>7. StreamEnd' = StreamEnd - ends[1]
    <3>1. StreamEnd = ends[Len(ends)]
      BY <2>1 DEF StreamEnd
    <3>2. CASE Len(ends) = 1
      BY <2>1, <2>4, <2>5, <3>1, <3>2 DEF StreamEnd
    <3>3. CASE Len(ends) > 1
      <4>1. Len(rest) \in 1 .. Len(ends) - 1 /\ Len(rest) + 1 = Len(ends)
        BY <2>1, <2>4, <3>3
      <4>2. rest # << >> /\ rest[Len(rest)] = ends[Len(ends)] - ends[1]
        BY <4>1
      <4> QED
        BY <2>5, <3>1, <4>2 DEF StreamEnd
    <3>4. \A n \in Nat \ {0} : n = 1 \/ n > 1
      OBVIOUS
    <3> QED
      BY <2>1, <3>2, <3>3, <3>4
  <2>8. InBufferSafe' /\ FramingKept'
    <3>1. StreamEnd \in Nat
      BY DEF StreamEnd, SocketInv, TypeOK
    <3> QED
      BY <1>6, <2>1, <2>7, <3>1, SocketConstants
         DEF ExtractPacket, SocketInv, TypeOK, InInv, InBufferSafe, FramingKept
  <2>9. Marks'
    <3>1. ASSUME NEW i \in 1 .. Len(rest), NEW j \in 1 .. i - 1
          PROVE  rest[i] >= rest[j] + HeaderSize
      <4>1. /\ i \in 1 .. Len(ends) - 1 /\ j \in 1 .. Len(ends) - 1
            /\ i + 1 \in 1 .. Len(ends) /\ j + 1 \in 1 .. i
            /\ j + 1 \in 1 .. Len(ends)
        BY <2>1, <2>4
      <4>2. /\ rest[i] = ends[i + 1] - ends[1] /\ rest[j] = ends[j + 1] - ends[1]
        BY <4>1
      <4>3. /\ ends[i + 1] \in Nat /\ ends[j + 1] \in Nat
            /\ ends[i + 1] >= ends[j + 1] + HeaderSize
        BY <2>2, <4>1
      <4> QED
        BY <2>1, <4>2, <4>3, SocketConstants
    <3> HIDE DEF rest
    <3> QED
      BY <2>3, <2>4, <2>5, <3>1 DEF Marks
  <2>10. CutWhenReady'
    BY <1>6 DEF ExtractPacket, CutWhenReady
  <2> QED
    BY <1>6, <2>6, <2>8, <2>9, <2>10, OutKept DEF ExtractPacket, SocketInv, InInv
<1>7. ASSUME NEW n \in AppSizes, SendPacket(n) PROVE SocketInv'
  <2>1. n \in Nat /\ PacketSize(n) \in Nat /\ n + bytesOut <= BufferMax
    BY <1>7, FitsExact, SocketConstants DEF SendPacket, PacketSize
  <2> DEFINE have == bytesOut + PacketSize(n)
             ptr  == outPtr + PacketSize(n)
  <2>2. have \in Nat /\ ptr \in Nat /\ ptr >= have /\ have <= BufferMax + HeaderSize
    BY <2>1, SocketConstants DEF SocketInv, TypeOK, OutInv, PacketSize
  <2>3. /\ bytesOut' \in 0 .. have /\ outPtr' \in Nat /\ outPtr' >= bytesOut'
        /\ written' \in Nat /\ written' + bytesOut' = written + have
        /\ pc' \in {pc, "closed"}
    <3> HIDE DEF have, ptr
    <3>1. SendBuffer(have, ptr)
      BY <1>7 DEF SendPacket, have, ptr
    <3> QED
      BY <2>2, <3>1, SendBufferOut DEF SocketInv
  <2>4. TypeOK'
    <3>1. /\ bytesOut' \in Nat /\ outPtr' \in Nat /\ written' \in Nat
          /\ pc' \in {"ready", "extract", "closed"}
      BY <2>2, <2>3 DEF SocketInv, TypeOK
    <3>2. accepted' \in Nat /\ owed' \in Nat /\ UNCHANGED inVars
      BY <1>7, <2>1 DEF SendPacket, SocketInv, TypeOK
    <3> QED
      BY <3>1, <3>2 DEF SocketInv, TypeOK, inVars
  <2>5. OutInv'
    <3>1. bytesOut' <= BufferMax + HeaderSize
      BY <2>2, <2>3, SocketConstants
    <3>2. owed' = owed + PacketSize(n) /\ owed = written + bytesOut
      BY <1>7 DEF SendPacket, SocketInv, OutInv, OutputConserved
    <3>3. owed' = written' + bytesOut'
      BY <2>1, <2>3, <3>2 DEF SocketInv, TypeOK
    <3> QED
      BY <2>3, <3>1, <3>3 DEF OutInv, OverrunBounded, OutputConserved
  <2> QED
    BY <1>7, <2>3, <2>4, <2>5, InKept DEF SendPacket, SocketInv
<1>8. CASE SendNoBuffer
  <2>1. TypeOK'
    BY <1>8, SocketConstants DEF SendNoBuffer, SocketInv, TypeOK, inVars
  <2>2. OutInv'
    BY <1>8, SocketConstants
       DEF SendNoBuffer, SocketInv, TypeOK, OutInv, OverrunBounded, OutputConserved
  <2> QED
    BY <1>8, <2>1, <2>2, InKept DEF SendNoBuffer, SocketInv
<1>9. CASE Flush
  <2>1. /\ bytesOut' \in 0 .. bytesOut /\ outPtr' \in Nat /\ outPtr' >= bytesOut'
        /\ written' \in Nat /\ written' + bytesOut' = written + bytesOut
        /\ pc' \in {pc, "closed"}
    BY <1>9, SendBufferOut DEF Flush, SocketInv, TypeOK, OutInv
  <2>2. TypeOK'
    BY <1>9, <2>1 DEF Flush, SocketInv, TypeOK, inVars
  <2>3. OutInv'
    <3>1. owed' = owed /\ owed = written + bytesOut /\ bytesOut <= BufferMax + HeaderSize
      BY <1>9 DEF Flush, SocketInv, OutInv, OverrunBounded, OutputConserved
    <3>2. owed' = written' + bytesOut'
      BY <2>1, <3>1
    <3>3. bytesOut' <= BufferMax + HeaderSize
      BY <2>1, <3>1, SocketConstants DEF SocketInv, TypeOK
    <3> QED
      BY <2>1, <3>2, <3>3 DEF OutInv, OverrunBounded, OutputConserved
  <2> QED
    BY <1>9, <2>1, <2>2, <2>3, InKept DEF Flush, SocketInv
<1>10. CASE UNCHANGED socketVars
  <2>1. TypeOK'
    BY <1>10 DEF socketVars, inVars, outVars, SocketInv, TypeOK
  <2> QED
    BY <1>10, <2>1, InKept, OutKept DEF socketVars, SocketInv
<1> QED
  BY <1>1, <1>2, <1>3, <1>4, <1>5, <1>6, <1>7, <1>8, <1>9, <1>10
     DEF SocketNext, Receive, Extract

LEMMA SocketInvHolds == SocketSpec => []SocketInv
BY SocketInitInv, SocketStepInv, PTL DEF SocketSpec

(* m_pOutPtr drifts by whole headers only.                                 *)
LEMMA DriftStep == SocketInv /\ OutPtrDriftsByHeaders /\ [SocketNext]_socketVars => OutPtrDriftsByHeaders'
<1> SUFFICES ASSUME SocketInv, OutPtrDriftsByHeaders, [SocketNext]_socketVars
             PROVE  OutPtrDriftsByHeaders'
  OBVIOUS
<1>0. PICK d \in 0 .. accepted : outPtr = bytesOut + d * HeaderSize
  BY DEF OutPtrDriftsByHeaders
<1> DEFINE Drift(ptr, have, n) == \E e \in 0 .. n : ptr = have + e * HeaderSize
<1>1. d \in Nat /\ d * HeaderSize \in Nat /\ accepted \in Nat /\ 0 * HeaderSize = 0
      /\ outPtr \in Nat /\ bytesOut \in Nat
  BY SocketConstants DEF SocketInv, TypeOK
<1>2. ASSUME NEW n \in Nat, NEW have \in Nat, NEW ptr \in Nat, d \in 0 .. n,
             ptr = have + d * HeaderSize, SendBuffer(have, ptr)
      PROVE  Drift(outPtr', bytesOut', n)
  <2>1. CASE bytesOut' = 0 /\ outPtr' = 0
    <3>1. outPtr' = bytesOut' + 0 * HeaderSize
      BY <1>1, <2>1
    <3> QED
      BY <1>2, <3>1
  <2>2. ASSUME NEW k \in 1 .. have - 1, bytesOut' = have - k, outPtr' = ptr - k
        PROVE  Drift(outPtr', bytesOut', n)
    <3>1. outPtr' = bytesOut' + d * HeaderSize
      BY <1>1, <1>2, <2>2
    <3> QED
      BY <1>2, <3>1
  <2>3. CASE bytesOut' = have /\ outPtr' = ptr
    BY <1>2, <2>3
  <2> QED
    BY <1>2, <2>1, <2>2, <2>3 DEF SendBuffer
<1>3. ASSUME NEW n \in AppSizes, SendPacket(n) PROVE OutPtrDriftsByHeaders'
  <2> DEFINE have == bytesOut + PacketSize(n)
             ptr  == outPtr + PacketSize(n)
  <2>1. n \in Nat /\ PacketSize(n) \in Nat
    BY FitsExact, SocketConstants DEF PacketSize
  <2>2. have \in Nat /\ ptr \in Nat /\ ptr = have + d * HeaderSize
    BY <1>0, <1>1, <2>1
  <2>3. SendBuffer(have, ptr) /\ accepted' = accepted + 1
    BY <1>3 DEF SendPacket
  <2>4. accepted + 1 \in Nat /\ d \in 0 .. accepted + 1
    BY <1>1
  <2> HIDE DEF have, ptr, Drift
  <2>5. Drift(outPtr', bytesOut', accepted + 1)
    BY <1>2, <2>2, <2>3, <2>4
  <2> QED
    BY <2>3, <2>5 DEF Drift, OutPtrDriftsByHeaders
<1>4. CASE SendNoBuffer
  <2>1. (d + 1) * HeaderSize = d * HeaderSize + HeaderSize
    BY <1>1, SocketConstants
  <2>2. outPtr' = bytesOut' + (d + 1) * HeaderSize
    BY <1>0, <1>1, <1>4, <2>1, SocketConstants DEF SendNoBuffer
  <2>3. d + 1 \in 0 .. accepted'
    BY <1>1, <1>4 DEF SendNoBuffer
  <2> QED
    BY <2>2, <2>3 DEF OutPtrDriftsByHeaders
<1>5. CASE Flush
  <2>1. SendBuffer(bytesOut, outPtr) /\ accepted' = accepted
    BY <1>5 DEF Flush
  <2> HIDE DEF Drift
  <2>2. Drift(outPtr', bytesOut', accepted)
    BY <1>0, <1>1, <1>2, <2>1
  <2> QED
    BY <2>1, <2>2 DEF Drift, OutPtrDriftsByHeaders
<1>6. CASE UNCHANGED outVars
  BY <1>6 DEF outVars, OutPtrDriftsByHeaders
<1> QED
  BY <1>3, <1>4, <1>5, <1>6
     DEF SocketNext, Receive, Extract, PeerSends, PeerCloses, ReadData, ReadFails,
         ExtractNone, ExtractInvalid, ExtractPacket, socketVars

-----------------------------------------------------------------------------
(* Every number and mark of a ServerSocket stays a natural number: no      *)
(* subtraction of rotateBuffer() and extractPacket() goes below zero.      *)
THEOREM SocketTypeCorrect == SocketSpec => []TypeOK
<1>1. SocketInv => TypeOK
  BY DEF SocketInv
<1> QED
  BY SocketInvHolds, <1>1, PTL

(* readData() stays inside the input buffer, whatever the peer sends.      *)
THEOREM InputSafe == SocketSpec => []InBufferSafe
<1>1. SocketInv => InBufferSafe
  BY DEF SocketInv, InInv
<1> QED
  BY SocketInvHolds, <1>1, PTL

(* The input buffer always begins with a packet.                           *)
THEOREM FramingHolds == SocketSpec => []FramingKept
<1>1. SocketInv => FramingKept
  BY DEF SocketInv, InInv
<1> QED
  BY SocketInvHolds, <1>1, PTL

(* The exception readData() raises for a full buffer only ever hits a peer *)
(* whose packet could not have been taken.                                 *)
THEOREM FullOnlyForOversize == SocketSpec => []FullOnlyBehindOversize
<1>1. SocketInv => FullOnlyBehindOversize
  <2> SUFFICES ASSUME SocketInv, pc = "ready", Room = 0, ~(BufferMax < HeaderSize)
               PROVE  ends[1] > BufferMax
    BY DEF FullOnlyBehindOversize
  <2>1. bytesIn = BufferMax /\ HeaderHere
    BY SocketConstants DEF Room, HeaderHere, SocketInv, TypeOK, InInv, InBufferSafe
  <2> QED
    BY <2>1, HeaderBeginsPacket DEF SocketInv, InInv, CutWhenReady
<1> QED
  BY SocketInvHolds, <1>1, PTL

(* The output buffer is overrun by one header at most, for the             *)
(* test in sendPacket() forgets the header and nothing else.               *)
THEOREM OverrunHolds == SocketSpec => []OverrunBounded
<1>1. SocketInv => OverrunBounded
  BY DEF SocketInv, OutInv
<1> QED
  BY SocketInvHolds, <1>1, PTL

(* sendBuffer() drops and repeats nothing, wherever send() stops.          *)
THEOREM OutputHolds == SocketSpec => []OutputConserved
<1>1. SocketInv => OutputConserved
  BY DEF SocketInv, OutInv
<1> QED
  BY SocketInvHolds, <1>1, PTL

(* Packets without a buffer, and nothing else, move m_pOutPtr off the end  *)
(* of the waiting bytes, and by their headers.                             *)
THEOREM DriftHolds == SocketSpec => []OutPtrDriftsByHeaders
<1>1. SocketInit => OutPtrDriftsByHeaders
  <2> SUFFICES ASSUME SocketInit PROVE 0 \in 0 .. accepted /\ outPtr = bytesOut + 0 * HeaderSize
    BY DEF OutPtrDriftsByHeaders
  <2> QED
    BY SocketConstants DEF SocketInit
<1> QED
  BY SocketInvHolds, <1>1, DriftStep, PTL DEF SocketSpec
=============================================================================
