----------------------------- MODULE MessageQue -----------------------------
(***************************************************************************)
(* PacketMessageQue and PacketMessage (packetmessageque.cpp), used by any  *)
(* number of threads: a LinkedList behind m_lock, and the counter that     *)
(* numbers messages behind m_lockID.  What a thread does under a lock is   *)
(* split where it touches what the lock is there for: a counter is read    *)
(* and then written, a tail looked up and then linked behind, a head       *)
(* looked at and then removed.  Messages are numbered as they are made.    *)
(***************************************************************************)
EXTENDS Naturals, SequencesExt

CONSTANTS
  User,         \* the threads
  Ids,          \* 2^32: uniqueID() counts modulo this
  SetEvents,    \* m_bSetEvents
  PurgeShared,  \* whether purge() comes while other threads are in a call
  MaxMessages   \* bound: messages made

ASSUME MessageQueConstants ==
  Ids \in Nat \ {0} /\ MaxMessages \in Nat /\ SetEvents \in BOOLEAN /\ PurgeShared \in BOOLEAN

Unheld == "unheld"
ASSUME UnheldUses == Unheld \notin User

VARIABLES
  counter,  \* m_nUniqueID
  idLock,   \* who holds m_lockID
  ids,      \* the m_nID of each message
  list,     \* m_listMsgs
  lock,     \* who holds m_lock
  event,    \* whether m_event was signaled
  at,       \* where each thread is
  mine,     \* the message it is making, adding or getting; 0 is none
  tail,     \* the list it is about to link behind
  taken,    \* what get() returned
  purged    \* messages deleted by purge()

idVars  == <<counter, idLock, ids>>
queVars == <<idVars, list, lock, event, at, mine, tail, taken, purged>>

Message == 1 .. MaxMessages

(* With m_lockID: id, counted.  With m_lock: add, link, signal; get, remove.*)
Stage == {"out", "id", "counted", "made", "add", "link", "signal", "get", "remove"}

QueInit ==
  /\ counter = 0 /\ idLock = Unheld /\ ids = << >>
  /\ list = << >> /\ lock = Unheld /\ event = FALSE
  /\ at = [u \in User |-> "out"] /\ mine = [u \in User |-> 0]
  /\ tail = [u \in User |-> << >>]
  /\ taken = << >> /\ purged = {}

Goes(u, p) == at' = [at EXCEPT ![u] = p]

-----------------------------------------------------------------------------
(* PacketMessage(): uniqueID() returns m_nUniqueID++ under m_lockID.       *)

(* Slip: without the lock.                                                 *)
LockIdNever(u) ==
  /\ at[u] = "out" /\ Goes(u, "id")
  /\ idLock' = u
  /\ UNCHANGED <<counter, ids, list, lock, event, mine, tail, taken, purged>>

LockId(u) ==
  /\ at[u] = "out" /\ Goes(u, "id")
  /\ idLock = Unheld /\ idLock' = u
  /\ UNCHANGED <<counter, ids, list, lock, event, mine, tail, taken, purged>>

ReadId(u) ==
  /\ at[u] = "id" /\ Goes(u, "counted")
  /\ Len(ids) < MaxMessages
  /\ ids' = Append(ids, counter)
  /\ mine' = [mine EXCEPT ![u] = Len(ids')]
  /\ UNCHANGED <<counter, idLock, list, lock, event, tail, taken, purged>>

WriteId(u) ==
  /\ at[u] = "counted" /\ Goes(u, "made")
  /\ counter' = (ids[mine[u]] + 1) % Ids
  /\ idLock' = Unheld
  /\ UNCHANGED <<ids, list, lock, event, mine, tail, taken, purged>>

-----------------------------------------------------------------------------
(* add(), get() and purge().  isEmpty() looks at the head under the lock.  *)

(* Slip: without the lock.                                                 *)
LocksNever(u) == lock' = u

Locks(u) == lock = Unheld /\ lock' = u

LockToAdd(u) ==
  /\ at[u] = "made" /\ Goes(u, "add") /\ Locks(u)
  /\ UNCHANGED <<idVars, list, event, mine, tail, taken, purged>>

FindTail(u) ==
  /\ at[u] = "add" /\ Goes(u, "link")
  /\ tail' = [tail EXCEPT ![u] = list]
  /\ UNCHANGED <<idVars, list, lock, event, mine, taken, purged>>

LinkTail(u) ==
  /\ at[u] = "link" /\ Goes(u, "signal")
  /\ list' = Append(tail[u], mine[u])
  /\ mine' = [mine EXCEPT ![u] = 0] /\ tail' = [tail EXCEPT ![u] = << >>]
  /\ UNCHANGED <<idVars, lock, event, taken, purged>>

Signal(u) ==
  /\ at[u] = "signal" /\ Goes(u, "out")
  /\ event' = (event \/ SetEvents) /\ lock' = Unheld
  /\ UNCHANGED <<idVars, list, mine, tail, taken, purged>>

LockToGet(u) ==
  /\ at[u] = "out" /\ Goes(u, "get") /\ Locks(u)
  /\ UNCHANGED <<idVars, list, event, mine, tail, taken, purged>>

(* NULL, when there is none.                                               *)
GetHead(u) ==
  /\ at[u] = "get"
  /\ IF list = << >> THEN Goes(u, "out") /\ lock' = Unheld /\ UNCHANGED mine
     ELSE Goes(u, "remove") /\ mine' = [mine EXCEPT ![u] = Head(list)] /\ UNCHANGED lock
  /\ UNCHANGED <<idVars, list, event, tail, taken, purged>>

(* removeHead() of an empty list does nothing; get() does not look at what *)
(* it removed.                                                             *)
RemoveHead(u) ==
  /\ at[u] = "remove" /\ Goes(u, "out")
  /\ list' = IF list = << >> THEN list ELSE Tail(list)
  /\ taken' = Append(taken, mine[u]) /\ mine' = [mine EXCEPT ![u] = 0]
  /\ lock' = Unheld
  /\ UNCHANGED <<idVars, event, tail, purged>>

(* purge() takes no lock.                                                  *)
Purge ==
  /\ PurgeShared \/ lock = Unheld
  /\ list' = << >> /\ purged' = purged \cup ToSet(list)
  /\ UNCHANGED <<idVars, lock, event, at, mine, tail, taken>>

QueNext ==
  \/ \E u \in User :
       \/ LockId(u) \/ ReadId(u) \/ WriteId(u)
       \/ LockToAdd(u) \/ FindTail(u) \/ LinkTail(u) \/ Signal(u)
       \/ LockToGet(u) \/ GetHead(u) \/ RemoveHead(u)
  \/ Purge

QueSpec == QueInit /\ [][QueNext]_queVars

-----------------------------------------------------------------------------
(* "Id's start at 0 and go to 0XFFFFFFFF at which point they wrap back to  *)
(* 0", each given to one message, whichever threads make them at once.     *)
IdsInTurn == \A m \in DOMAIN ids : ids[m] = (m - 1) % Ids

(* Whatever threads add and get at once, the queue is a FIFO: no message   *)
(* is lost, handed out twice or handed out of order, unless purge() comes  *)
(* while another thread is in a call.                                      *)
Promise == INSTANCE Fifo WITH waiting <- list, handedOut <- taken, lost <- purged
ImplementsFifo == Promise!FifoSpec
=============================================================================
