-------------------------------- MODULE Fifo --------------------------------
(***************************************************************************)
(* What PacketMessageQue (packetmessageque.h) promises: a "thread-safe     *)
(* list of messages" that "works like a FIFO".  A message is put once and  *)
(* then is in exactly one place: waiting, handed out or deleted.           *)
(***************************************************************************)
EXTENDS Naturals, SequencesExt

CONSTANT Message

VARIABLES
  waiting,    \* in the order they were put
  handedOut,  \* in the order they were taken
  lost        \* those deleted while they waited

fifoVars == <<waiting, handedOut, lost>>

FifoInit == waiting = << >> /\ handedOut = << >> /\ lost = {}

Put(m) ==
  /\ m \notin ToSet(waiting) \cup ToSet(handedOut) \cup lost
  /\ waiting' = Append(waiting, m)
  /\ UNCHANGED <<handedOut, lost>>

Take ==
  /\ waiting # << >>
  /\ handedOut' = Append(handedOut, Head(waiting)) /\ waiting' = Tail(waiting)
  /\ UNCHANGED lost

Clear == waiting' = << >> /\ lost' = lost \cup ToSet(waiting) /\ UNCHANGED handedOut

FifoNext == (\E m \in Message : Put(m)) \/ Take \/ Clear

FifoSpec == FifoInit /\ [][FifoNext]_fifoVars
=============================================================================
