------------------------------ MODULE Utilities ------------------------------
(***************************************************************************)
(* The objects the servers are built on, each used on its own: the lock,   *)
(* the event, the queue of messages, the timer of idle().  They share no   *)
(* state; `part` names the one a behaviour is about.                       *)
(***************************************************************************)
EXTENDS RWLock, MclEvent, MessageQue, IdleTimer

VARIABLE part

vars == <<part, lockVars, eventVars, queVars, timerVars>>

Init ==
  /\ part \in {"lock", "event", "que", "timer"}
  /\ LockInit /\ EventInit /\ QueInit /\ TimerInit
  /\ part # "event" => autoSignal
  /\ part # "timer" => now = 0

LockStep  == part = "lock"  /\ LockNext  /\ UNCHANGED <<part, eventVars, queVars, timerVars>>
EventStep == part = "event" /\ EventNext /\ UNCHANGED <<part, lockVars, queVars, timerVars>>
QueStep   == part = "que"   /\ QueNext   /\ UNCHANGED <<part, lockVars, eventVars, timerVars>>
TimerStep == part = "timer" /\ TimerNext /\ UNCHANGED <<part, lockVars, eventVars, queVars>>

Next == LockStep \/ EventStep \/ QueStep \/ TimerStep

Spec == Init /\ [][Next]_vars

(* The fairness of FairLockSpec, where the lock is what is used.           *)
FairSpec == Spec /\ \A t \in Thread : WF_lockVars(part = "lock" /\ MovesOn(t))
=============================================================================
