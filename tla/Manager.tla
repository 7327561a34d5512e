------------------------------ MODULE Manager -------------------------------
(***************************************************************************)
(* SimpleManager: one thread accepts connections, and for each of them     *)
(* makes a ServerSocket, a SimpleServer that handles it, and the thread    *)
(* that runs this SimpleServer; the message pcNewConnection is posted to   *)
(* its queue when the thread already runs.  Any thread may kill a handler, *)
(* and the application destroys the manager when it has stopped.           *)
(*                                                                         *)
(* The server loop is SimpleServer's in its threaded form: one client, no  *)
(* listening socket.  What that loop does to its list of clients is module *)
(* SimpleServer's.  add() and get() of the message queue hold its lock, so *)
(* each is one step here; new and delete of a thread object are not.       *)
(***************************************************************************)
EXTENDS Naturals, Sequences, FiniteSets, SequencesExt

CONSTANTS
  Client,       \* the connections clients may make
  MaxPackets,   \* bound: packets a client sends
  Senders,      \* the clients that send anything
  SelfKilled,   \* connections whose handler may call killServer() itself
  OtherKilled   \* those whose handler another thread may kill

ASSUME ManagerConstants ==
  MaxPackets \in Nat /\ Senders \cup SelfKilled \subseteq Client /\ OtherKilled \subseteq Client

VARIABLES
  mpc,        \* where the manager's thread is
  mrun,       \* the manager's m_bRun
  acc,        \* in acceptConnection(): the connection just accepted
  owned,      \* connections in m_listClientSockets, the server in m_listSimpleServers
  gone,       \* whether the manager was destroyed
  hpc,        \* where each handler's thread is
  run,        \* each handler's m_bRun
  thread,     \* its m_pThread: "null", "set", or "freed" and not yet null
  listed,     \* whether its m_listClients holds the client
  que,        \* its m_que
  handled,    \* what it was given by processMessages()
  kpc,        \* where another thread is in killServer() of this handler
  raced,      \* handlers that two threads were in stop() of at once
  sockFrees,  \* how often each ServerSocket was deleted
  thrFrees,   \* how often each CMclThread was deleted
  peer, sent, wire  \* each client: its state, packets sent, those not yet read

managerVars == <<mpc, mrun, acc, owned, gone>>
threadVars  == <<thread, kpc, raced, thrFrees>>
clientVars  == <<peer, sent, wire>>
vars == <<managerVars, hpc, run, listed, que, handled, threadVars, sockFrees, clientVars>>

Packet == 1 .. MaxPackets
Closed == 0                 \* pcClosed and pcNewConnection, told from packets
New    == MaxPackets + 1
None   == "none"
ASSUME NoneConnects == None \notin Client

Init ==
  /\ mpc = "unstarted" /\ mrun = FALSE /\ acc = None /\ owned = {} /\ gone = FALSE
  /\ hpc = [c \in Client |-> "none"] /\ run = [c \in Client |-> FALSE]
  /\ thread = [c \in Client |-> "null"] /\ listed = [c \in Client |-> FALSE]
  /\ que = [c \in Client |-> << >>] /\ handled = [c \in Client |-> << >>]
  /\ kpc = [c \in Client |-> "none"] /\ raced = {}
  /\ sockFrees = [c \in Client |-> 0] /\ thrFrees = [c \in Client |-> 0]
  /\ peer = [c \in Client |-> "none"] /\ sent = [c \in Client |-> 0]
  /\ wire = [c \in Client |-> << >>]

-----------------------------------------------------------------------------
(* Clients; what they do when the manager is gone is left out.             *)

Connect(c) ==
  /\ peer[c] = "none" /\ mpc # "unstarted" /\ ~gone
  /\ peer' = [peer EXCEPT ![c] = "up"]
  /\ UNCHANGED <<managerVars, hpc, run, listed, que, handled, threadVars,
                 sockFrees, sent, wire>>

Send(c) ==
  /\ peer[c] = "up" /\ c \in Senders /\ ~gone /\ sent[c] < MaxPackets
  /\ sent' = [sent EXCEPT ![c] = @ + 1]
  /\ wire' = [wire EXCEPT ![c] = Append(@, sent'[c])]
  /\ UNCHANGED <<managerVars, hpc, run, listed, que, handled, threadVars,
                 sockFrees, peer>>

Leave(c) ==
  /\ peer[c] = "up" /\ ~gone
  /\ peer' = [peer EXCEPT ![c] = "left"]
  /\ UNCHANGED <<managerVars, hpc, run, listed, que, handled, threadVars,
                 sockFrees, sent, wire>>

-----------------------------------------------------------------------------
(* The manager's thread.                                                   *)

StartServer ==
  /\ mpc = "unstarted"
  /\ mpc' = "select" /\ mrun' = TRUE
  /\ UNCHANGED <<acc, owned, gone, hpc, run, listed, que, handled, threadVars,
                 sockFrees, clientVars>>

(* acceptConnection(): the socket, the server that takes it into its list, *)
(* and both into the manager's lists.                                      *)
Accept(c) ==
  /\ mpc = "select" /\ mrun /\ ~gone
  /\ peer[c] # "none" /\ c \notin owned
  /\ acc' = c /\ owned' = owned \cup {c}
  /\ listed' = [listed EXCEPT ![c] = TRUE]
  /\ mpc' = "start"
  /\ UNCHANGED <<mrun, gone, hpc, run, que, handled, threadVars, sockFrees, clientVars>>

(* ThreadHandler::start(): m_bRun, then the thread, then m_pThread.        *)
SetRun ==
  /\ mpc = "start" /\ ~gone
  /\ run' = [run EXCEPT ![acc] = TRUE]
  /\ mpc' = "create"
  /\ UNCHANGED <<mrun, acc, owned, gone, hpc, listed, que, handled, threadVars,
                 sockFrees, clientVars>>

CreateThread ==
  /\ mpc = "create" /\ ~gone
  /\ hpc' = [hpc EXCEPT ![acc] = "loop"]
  /\ mpc' = "assign"
  /\ UNCHANGED <<mrun, acc, owned, gone, run, listed, que, handled, threadVars,
                 sockFrees, clientVars>>

(* pthread_create() fails: start() does not notice.                        *)
CreateFails ==
  /\ mpc = "create" /\ ~gone
  /\ mpc' = "assign"
  /\ UNCHANGED <<mrun, acc, owned, gone, hpc, run, listed, que, handled,
                 threadVars, sockFrees, clientVars>>

AssignThread ==
  /\ mpc = "assign" /\ ~gone
  /\ thread' = [thread EXCEPT ![acc] = "set"]
  /\ mpc' = "post"
  /\ UNCHANGED <<mrun, acc, owned, gone, hpc, run, listed, que, handled, kpc,
                 raced, thrFrees, sockFrees, clientVars>>

PostNew ==
  /\ mpc = "post" /\ ~gone
  /\ que' = [que EXCEPT ![acc] = Append(@, New)]
  /\ acc' = None /\ mpc' = "select"
  /\ UNCHANGED <<mrun, owned, gone, hpc, run, listed, handled, threadVars,
                 sockFrees, clientVars>>

(* running() is false when select() returns.                               *)
ManagerEnds ==
  /\ mpc = "select" /\ ~mrun /\ ~gone
  /\ mpc' = "ended"
  /\ UNCHANGED <<mrun, acc, owned, gone, hpc, run, listed, que, handled,
                 threadVars, sockFrees, clientVars>>

-----------------------------------------------------------------------------
(* A handler's thread: SimpleServer::ThreadHandlerProc().                  *)

Readable(c) == listed[c] /\ (wire[c] # << >> \/ peer[c] = "left")

SelectReady(c) ==
  /\ hpc[c] = "loop" /\ ~gone /\ run[c] /\ Readable(c)
  /\ hpc' = [hpc EXCEPT ![c] = "ready"]
  /\ UNCHANGED <<managerVars, run, listed, que, handled, threadVars, sockFrees, clientVars>>

(* Data: one read, every packet of it into the queue.                      *)
ReadSocket(c, k) ==
  /\ hpc[c] = "ready" /\ ~gone /\ run[c]
  /\ k \in 1 .. Len(wire[c])
  /\ que' = [que EXCEPT ![c] = @ \o SubSeq(wire[c], 1, k)]
  /\ wire' = [wire EXCEPT ![c] = SubSeq(@, k + 1, Len(@))]
  /\ hpc' = [hpc EXCEPT ![c] = "pump"]
  /\ UNCHANGED <<managerVars, run, listed, handled, threadVars, sockFrees, peer, sent>>

(* Slip: the handler looks for the end of the connection first.            *)
ReadEndEarly(c) ==
  /\ hpc[c] = "ready" /\ ~gone /\ run[c]
  /\ peer[c] = "left"
  /\ que' = [que EXCEPT ![c] = Append(@, Closed)]
  /\ listed' = [listed EXCEPT ![c] = FALSE]
  /\ sockFrees' = [sockFrees EXCEPT ![c] = @ + 1]
  /\ hpc' = [hpc EXCEPT ![c] = "pump"]
  /\ UNCHANGED <<managerVars, run, handled, threadVars, clientVars>>

(* The end of the connection: pcClosed is posted, the client is taken off  *)
(* the handler's list and its socket deleted.                              *)
ReadEnd(c) ==
  /\ hpc[c] = "ready" /\ ~gone /\ run[c]
  /\ wire[c] = << >> /\ peer[c] = "left"
  /\ que' = [que EXCEPT ![c] = Append(@, Closed)]
  /\ listed' = [listed EXCEPT ![c] = FALSE]
  /\ sockFrees' = [sockFrees EXCEPT ![c] = @ + 1]
  /\ hpc' = [hpc EXCEPT ![c] = "pump"]
  /\ UNCHANGED <<managerVars, run, handled, threadVars, clientVars>>

(* processMessages() and processSingleMsg().                               *)
Handle(c) ==
  /\ hpc[c] = "pump" /\ ~gone /\ que[c] # << >>
  /\ handled' = [handled EXCEPT ![c] = Append(@, Head(que[c]))]
  /\ que' = [que EXCEPT ![c] = Tail(@)]
  /\ UNCHANGED <<managerVars, hpc, run, listed, threadVars, sockFrees,
                 clientVars>>

(* Slip: one message is handled for each turn with ready sockets.          *)
PumpedOne(c) ==
  /\ hpc[c] = "pump" /\ ~gone
  /\ hpc' = [hpc EXCEPT ![c] = "loop"]
  /\ UNCHANGED <<managerVars, run, listed, que, handled, threadVars, sockFrees, clientVars>>

Pumped(c) ==
  /\ hpc[c] = "pump" /\ ~gone /\ que[c] = << >>
  /\ hpc' = [hpc EXCEPT ![c] = "loop"]
  /\ UNCHANGED <<managerVars, run, listed, que, handled, threadVars, sockFrees, clientVars>>

(* Slip: a handler that was killed ends when its client has left.          *)
HandlerEndsAlone(c) ==
  /\ hpc[c] \in {"loop", "ready"} /\ ~gone /\ ~run[c] /\ ~listed[c]
  /\ hpc' = [hpc EXCEPT ![c] = "ended"]
  /\ UNCHANGED <<managerVars, run, listed, que, handled, threadVars, sockFrees, clientVars>>

(* running() is false, after select() or at the top of the loop.           *)
HandlerEnds(c) ==
  /\ hpc[c] \in {"loop", "ready"} /\ ~gone /\ ~run[c]
  /\ hpc' = [hpc EXCEPT ![c] = "ended"]
  /\ UNCHANGED <<managerVars, run, listed, que, handled, threadVars, sockFrees, clientVars>>

-----------------------------------------------------------------------------
(* killServer() and ThreadHandler::stop(): m_bRun is cleared, m_pThread    *)
(* tested, what it points to deleted, m_pThread cleared.                   *)

InStop(c) == {w \in {"self", "other"} :
                IF w = "self" THEN hpc[c] \in {"delete", "null"}
                ELSE kpc[c] \in {"delete", "null"}}

(* The handler itself, from processSingleMsg().                            *)
KillSelf(c) ==
  /\ c \in SelfKilled
  /\ hpc[c] = "pump" /\ ~gone /\ run[c]
  /\ run' = [run EXCEPT ![c] = FALSE]
  /\ hpc' = [hpc EXCEPT ![c] = IF thread[c] = "null" THEN "pump" ELSE "delete"]
  /\ raced' = IF InStop(c) # {} THEN raced \cup {c} ELSE raced
  /\ UNCHANGED <<managerVars, thread, kpc, thrFrees, listed, que, handled,
                 sockFrees, clientVars>>

(* Another thread that holds the pointer createServerInstance() returned.  *)
KillOther(c) ==
  /\ c \in OtherKilled /\ c \in owned /\ kpc[c] = "none" /\ ~gone
  /\ run' = [run EXCEPT ![c] = FALSE]
  /\ kpc' = [kpc EXCEPT ![c] = IF thread[c] = "null" THEN "done" ELSE "delete"]
  /\ raced' = IF InStop(c) # {} THEN raced \cup {c} ELSE raced
  /\ UNCHANGED <<managerVars, hpc, thread, thrFrees, listed, que, handled,
                 sockFrees, clientVars>>

Deletes(c) ==
  /\ thread' = [thread EXCEPT ![c] = "freed"]
  /\ thrFrees' = [thrFrees EXCEPT ![c] = @ + 1]

DeleteSelf(c) ==
  /\ hpc[c] = "delete" /\ ~gone /\ Deletes(c)
  /\ hpc' = [hpc EXCEPT ![c] = "null"]
  /\ UNCHANGED <<managerVars, run, kpc, raced, listed, que, handled, sockFrees, clientVars>>

DeleteOther(c) ==
  /\ kpc[c] = "delete" /\ ~gone /\ Deletes(c)
  /\ kpc' = [kpc EXCEPT ![c] = "null"]
  /\ UNCHANGED <<managerVars, hpc, run, raced, listed, que, handled, sockFrees, clientVars>>

(* Slip: stop() deletes the thread object and forgets to clear m_pThread.  *)
NullSelfNot(c) ==
  /\ hpc[c] = "null" /\ ~gone
  /\ thread' = [thread EXCEPT ![c] = "set"]
  /\ hpc' = [hpc EXCEPT ![c] = "pump"]
  /\ UNCHANGED <<managerVars, run, kpc, raced, thrFrees, listed, que, handled,
                 sockFrees, clientVars>>

NullSelf(c) ==
  /\ hpc[c] = "null" /\ ~gone
  /\ thread' = [thread EXCEPT ![c] = "null"]
  /\ hpc' = [hpc EXCEPT ![c] = "pump"]
  /\ UNCHANGED <<managerVars, run, kpc, raced, thrFrees, listed, que, handled,
                 sockFrees, clientVars>>

NullOther(c) ==
  /\ kpc[c] = "null" /\ ~gone
  /\ thread' = [thread EXCEPT ![c] = "null"]
  /\ kpc' = [kpc EXCEPT ![c] = "done"]
  /\ UNCHANGED <<managerVars, hpc, run, raced, thrFrees, listed, que, handled,
                 sockFrees, clientVars>>

-----------------------------------------------------------------------------
(* The application: it stops the manager, and destroys it once waitFinish()*)
(* has returned.                                                           *)

StopManager ==
  /\ mrun
  /\ mrun' = FALSE
  /\ UNCHANGED <<mpc, acc, owned, gone, hpc, run, listed, que, handled,
                 threadVars, sockFrees, clientVars>>

(* ~SimpleManager() purges both of its lists.  Deleting a server purges    *)
(* its queue and its own list, and stop()s its thread without waiting;     *)
(* then the sockets are deleted, whoever deleted them before.              *)
Destroy ==
  /\ mpc # "unstarted" /\ ~mrun /\ ~gone
  /\ gone' = TRUE
  /\ que' = [c \in Client |-> << >>]
  /\ run' = [c \in Client |-> IF thread[c] = "null" THEN run[c] ELSE FALSE]
  /\ thrFrees' = [c \in Client |-> IF thread[c] = "null" THEN thrFrees[c]
                                  ELSE thrFrees[c] + 1]
  /\ thread' = [c \in Client |-> "null"]
  /\ sockFrees' = [c \in Client |-> sockFrees[c] + (IF listed[c] THEN 1 ELSE 0)
                                                 + (IF c \in owned THEN 1 ELSE 0)]
  /\ listed' = [c \in Client |-> FALSE]
  /\ UNCHANGED <<mpc, mrun, acc, owned, hpc, handled, kpc, raced, clientVars>>

-----------------------------------------------------------------------------
ManagerStep ==
  \/ \E c \in Client : Accept(c)
  \/ SetRun \/ CreateThread \/ AssignThread \/ PostNew \/ ManagerEnds

HandlerStep(c) ==
  \/ SelectReady(c) \/ (\E k \in 1 .. MaxPackets : ReadSocket(c, k)) \/ ReadEnd(c)
  \/ Handle(c) \/ Pumped(c) \/ HandlerEnds(c) \/ DeleteSelf(c) \/ NullSelf(c)

Next ==
  \/ StartServer \/ ManagerStep \/ CreateFails \/ StopManager \/ Destroy
  \/ \E c \in Client :
       \/ Connect(c) \/ Send(c) \/ Leave(c)
       \/ HandlerStep(c) \/ KillSelf(c)
       \/ KillOther(c) \/ DeleteOther(c) \/ NullOther(c)

(* The operating system runs every thread; nothing is assumed of clients   *)
(* and of who kills whom.                                                  *)
Spec == Init /\ [][Next]_vars
FairSpec == Spec /\ WF_vars(ManagerStep) /\ \A c \in Client : WF_vars(HandlerStep(c))

-----------------------------------------------------------------------------
(* Properties                                                              *)

TypeOK ==
  /\ mpc \in {"unstarted", "select", "start", "create", "assign", "post", "ended"}
  /\ mrun \in BOOLEAN /\ acc \in Client \cup {None} /\ owned \subseteq Client
  /\ gone \in BOOLEAN
  /\ hpc \in [Client -> {"none", "loop", "ready", "pump", "delete", "null", "ended"}]
  /\ run \in [Client -> BOOLEAN] /\ thread \in [Client -> {"null", "set", "freed"}]
  /\ listed \in [Client -> BOOLEAN]
  /\ que \in [Client -> Seq(0 .. New)]
  /\ handled \in [Client -> Seq(0 .. New)]
  /\ kpc \in [Client -> {"none", "delete", "null", "done"}]
  /\ raced \subseteq Client
  /\ sockFrees \in [Client -> Nat] /\ thrFrees \in [Client -> Nat]
  /\ peer \in [Client -> {"none", "up", "left"}]
  /\ sent \in [Client -> 0 .. MaxPackets] /\ wire \in [Client -> Seq(Packet)]

Given(c) == handled[c] \o que[c]
Read(c)  == sent[c] - Len(wire[c])
Ended(c) == c \in owned /\ ~listed[c]
Posted(c) == c \in owned /\ c # acc

(* The packets read so far, and the end once the client is off the list.   *)
Due(c) == [i \in 1 .. Read(c) + (IF Ended(c) THEN 1 ELSE 0) |->
             IF i <= Read(c) THEN i ELSE Closed]

(* A handler is given the packets of its client in order and pcClosed      *)
(* behind them; the pcNewConnection that the manager's thread adds while   *)
(* the handler already runs may come anywhere, but once, and not before    *)
(* the manager posts it.  Nothing is left unread of a client that ended.   *)
HandlerOrder ==
  ~gone => \A c \in Client :
    /\ wire[c] = [i \in 1 .. Len(wire[c]) |-> Read(c) + i]
    /\ Ended(c) => wire[c] = << >>
    /\ IF Posted(c)
         THEN \E p \in 1 .. Len(Due(c)) + 1 : Given(c) = InsertAt(Due(c), p, New)
         ELSE Given(c) = Due(c)

(* Until the manager is destroyed, no socket is deleted twice although two *)
(* lists hold it, nor a thread object unless two threads are in stop() at  *)
(* the same time.                                                          *)
DeletedOnce ==
  ~gone => \A c \in Client : /\ sockFrees[c] = IF c \in owned /\ ~listed[c] THEN 1 ELSE 0
                             /\ c \notin raced => thrFrees[c] <= 1

(* A handler that runs is given everything its client sends.               *)
Alive(c) == hpc[c] # "none" /\ run[c] /\ ~gone
DataHandled ==
  \A c \in Client : \A n \in Packet :
    (sent[c] >= n /\ Alive(c)) ~> (n \in ToSet(handled[c]) \/ ~Alive(c))

(* A handler killed after it was started ends, whichever thread kills it   *)
(* and wherever its own thread is.                                         *)
KilledEnds ==
  \A c \in Client :
    (hpc[c] # "none" /\ ~run[c]) ~> (hpc[c] = "ended" \/ gone)
=============================================================================
