---------------------------- MODULE ReadersWriter ----------------------------
(***************************************************************************)
(* What a readers-writer lock promises: a thread that asks to read gets in *)
(* when nobody writes, a thread that asks to write when nobody is in at    *)
(* all.  RWLock.tla is shown to implement it.                              *)
(***************************************************************************)
CONSTANT Thread

VARIABLE status   \* where each thread stands with the lock

Standing == {"out", "wantsRead", "wantsWrite", "reads", "writes"}

Holds(t) == status[t] \in {"reads", "writes"}

RWInit == status = [t \in Thread |-> "out"]

Asks(t) ==
  /\ status[t] = "out"
  /\ \E s \in {"wantsRead", "wantsWrite"} : status' = [status EXCEPT ![t] = s]

(* A thread that finds the lock open gets in as it asks.                   *)
Reads(t) ==
  /\ status[t] \in {"out", "wantsRead"}
  /\ \A u \in Thread : status[u] # "writes"
  /\ status' = [status EXCEPT ![t] = "reads"]

Writes(t) ==
  /\ status[t] \in {"out", "wantsWrite"}
  /\ \A u \in Thread : ~Holds(u)
  /\ status' = [status EXCEPT ![t] = "writes"]

Leaves(t) ==
  /\ Holds(t)
  /\ status' = [status EXCEPT ![t] = "out"]

RWNext == \E t \in Thread : Asks(t) \/ Reads(t) \/ Writes(t) \/ Leaves(t)

RWSpec == RWInit /\ [][RWNext]_status
=============================================================================
