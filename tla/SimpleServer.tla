---------------------------- MODULE SimpleServer ----------------------------
(***************************************************************************)
(* The single-threaded server of simpleserver.cpp: one thread that selects *)
(* on the listening socket and on every client, accepts, reads packets     *)
(* into the message queue, hands the messages to the application's         *)
(* processSingleMsg() and idles, while clients connect, send and leave.    *)
(*                                                                         *)
(* A client is one TCP connection and, once accepted, the ServerSocket     *)
(* object and descriptor the server keeps for it.  Packets are numbered in *)
(* the order the client sends them.  The byte level (headers, partial      *)
(* packets, buffer sizes) is module ServerSocket's.                        *)
(***************************************************************************)
EXTENDS CursorList, FiniteSets

CONSTANTS
  Client,       \* the connections clients may make
  MaxPackets,   \* bound: packets a client sends
  MaxOut,       \* replies that fit into a ServerSocket's output buffer
  AppActs,      \* what processSingleMsg() and idle() do: subset of AppAct
  AppCatches,   \* whether the application catches what sendPacket() throws
  Faults        \* which faults of the network occur: subset of Fault

AppAct == {"reply", "broadcast", "kick", "kill", "idleBroadcast", "idleKick"}
Fault  == {"invalid", "reset", "sendfail", "acceptfail", "selecterr"}

ASSUME ServerConstants ==
  /\ MaxPackets \in Nat
  /\ MaxOut \in Nat \ {0}
  /\ AppActs \subseteq AppAct
  /\ AppCatches \in BOOLEAN
  /\ Faults \subseteq Fault

VARIABLES
  pc,         \* where the server thread is
  run,        \* m_bRun
  items,      \* m_listClients: the ServerSocket objects in order
  cur,        \*   and the list's cursor
  que,        \* m_que
  alive,      \* ServerSocket objects that are allocated
  fds,        \* connections whose descriptor the server holds open
  out,        \* replies waiting in each output buffer (m_nBytesOut > 0)
  rset,       \* m_rset after select(): the readable clients
  wset,       \* m_wset as getMaxFD() built it
  listenSet,  \* whether the listening socket is in m_rset
  ret,        \* where send2All() returns to
  peer,       \* each client's own end
  backlog,    \* connections waiting in the listen queue
  sent,       \* packets each client has sent
  wire,       \* packets sent and not yet read by the server
  handled     \* messages about each client given to processSingleMsg()

listVars   == <<items, cur>>
socketVars == <<alive, fds, out>>
selectVars == <<rset, wset, listenSet>>
clientVars == <<peer, backlog, sent, wire>>
vars == <<pc, run, listVars, que, socketVars, selectVars, ret, clientVars,
          handled>>

Invalid  == 0                    \* a packet whose header extractPacket() rejects
Packet   == 1 .. MaxPackets
Terminal == {"stopped", "dead", "destroyed"}
Control  == Terminal \cup {"init", "loop", "selected", "scan", "messages",
                           "idle", "send2All"}

Message == [sock : Client, kind : {"new", "data", "closed"}, no : 0 .. MaxPackets]
NewMsg(c)     == [sock |-> c, kind |-> "new", no |-> 0]
ClosedMsg(c)  == [sock |-> c, kind |-> "closed", no |-> 0]
DataMsg(c, n) == [sock |-> c, kind |-> "data", no |-> n]
DataMsgs(c, k) == [i \in 1 .. k |-> DataMsg(c, wire[c][i])]

Init ==
  /\ pc = "init" /\ run = FALSE /\ ret = "loop"
  /\ items = << >> /\ cur = NoCurrent
  /\ que = << >>
  /\ alive = {} /\ fds = {}
  /\ out = [c \in Client |-> 0]
  /\ rset = {} /\ wset = {} /\ listenSet = FALSE
  /\ peer = [c \in Client |-> "absent"]
  /\ backlog = {}
  /\ sent = [c \in Client |-> 0]
  /\ wire = [c \in Client |-> << >>]
  /\ handled = [c \in Client |-> << >>]

-----------------------------------------------------------------------------
(* The clients.  They act between any two steps of the server.             *)

Connect(c) ==
  /\ pc \notin Terminal \cup {"init"} /\ peer[c] = "absent"
  /\ peer' = [peer EXCEPT ![c] = "open"]
  /\ backlog' = backlog \cup {c}
  /\ UNCHANGED <<sent, wire>>

Send(c) ==
  /\ peer[c] = "open" /\ c \in fds \cup backlog
  /\ sent[c] < MaxPackets
  /\ sent' = [sent EXCEPT ![c] = @ + 1]
  /\ \/ wire' = [wire EXCEPT ![c] = Append(@, sent[c] + 1)]
     \/ /\ "invalid" \in Faults
        /\ wire' = [wire EXCEPT ![c] = Append(@, Invalid)]
  /\ UNCHANGED <<peer, backlog>>

(* The client closes; what it has sent is still delivered.                 *)
Finish(c) ==
  /\ peer[c] = "open"
  /\ peer' = [peer EXCEPT ![c] = "finished"]
  /\ UNCHANGED <<backlog, sent, wire>>

(* The connection is reset and what the server has not read is lost.       *)
Reset(c) ==
  /\ "reset" \in Faults /\ peer[c] = "open" /\ c \in fds
  /\ peer' = [peer EXCEPT ![c] = "reset"]
  /\ wire' = [wire EXCEPT ![c] = << >>]
  /\ UNCHANGED <<backlog, sent>>

ClientStep ==
  /\ \E c \in Client : Connect(c) \/ Send(c) \/ Finish(c) \/ Reset(c)
  /\ UNCHANGED <<pc, run, listVars, que, socketVars, selectVars, ret, handled>>

(* killServer() called from outside the server thread, by a signal handler *)
(* for one.                                                                *)
KillServer ==
  /\ "kill" \in AppActs /\ run /\ pc \notin Terminal
  /\ run' = FALSE
  /\ UNCHANGED <<pc, listVars, que, socketVars, selectVars, ret, clientVars,
                 handled>>

-----------------------------------------------------------------------------
(* startServer(), up to the first turn of ThreadHandlerProc()'s loop.      *)

StartServer ==
  /\ pc = "init"
  /\ run' = TRUE
  /\ pc' = "loop"                        \* the first idle() does nothing here
  /\ UNCHANGED <<listVars, que, socketVars, selectVars, ret, clientVars, handled>>

(* Slip: the server runs until its last client has left.                   *)
StopWhenEmpty ==
  /\ pc = "loop" /\ ~run /\ items = << >>
  /\ pc' = "stopped"
  /\ UNCHANGED <<run, listVars, que, socketVars, selectVars, ret, clientVars,
                 handled>>

StopServer ==
  /\ pc = "loop" /\ ~run
  /\ pc' = "stopped"
  /\ UNCHANGED <<run, listVars, que, socketVars, selectVars, ret, clientVars,
                 handled>>

(* getMaxFD() and select().  Only m_rset is passed to select(): m_wset     *)
(* keeps the bits getMaxFD() set, and waiting output wakes nobody.         *)
Readable(c) == wire[c] # << >> \/ peer[c] \in {"finished", "reset"}

Select ==
  /\ pc = "loop" /\ run
  /\ rset' = {c \in SE!ToSet(items) : Readable(c)}
  /\ wset' = {c \in SE!ToSet(items) : out[c] > 0}
  /\ listenSet' = (backlog # {})
  /\ cur' = NoCurrent                    \* getMaxFD() walked off the end
  /\ pc' = "selected"
  /\ UNCHANGED <<run, items, que, socketVars, ret, clientVars, handled>>

SelectError ==
  /\ pc = "loop" /\ run /\ "selecterr" \in Faults
  /\ pc' = "dead"                        \* processSelectError() throws
  /\ UNCHANGED <<run, listVars, que, socketVars, selectVars, ret, clientVars,
                 handled>>

(* select() timed out, or the server was stopped while it slept.           *)
NothingToDo ==
  /\ pc = "selected"
  /\ ~run \/ (~listenSet /\ rset = {})
  /\ pc' = IF run THEN "idle" ELSE "loop"
  /\ UNCHANGED <<run, listVars, que, socketVars, selectVars, ret, clientVars,
                 handled>>

(* processSockets() begins the scan of the clients with getHead(); iReady  *)
(* is zero, and the scan empty, when only the listening socket was ready.  *)
BeginScan(list) ==
  /\ cur' = HeadCursor(list, cur)
  /\ pc' = IF rset = {} THEN "messages" ELSE "scan"

AcceptConnection ==
  /\ pc = "selected" /\ run /\ listenSet
  /\ \E c \in backlog :
       /\ backlog' = backlog \ {c}
       /\ items' = Append(items, c)
       /\ alive' = alive \cup {c}
       /\ fds' = fds \cup {c}
       /\ que' = Append(que, NewMsg(c))
       /\ BeginScan(items')
  /\ listenSet' = FALSE
  /\ UNCHANGED <<run, out, rset, wset, ret, peer, sent, wire, handled>>

(* accept() throws, and nothing catches it.                                *)
AcceptFails ==
  /\ pc = "selected" /\ run /\ listenSet /\ "acceptfail" \in Faults
  /\ pc' = "dead"
  /\ UNCHANGED <<run, listVars, que, socketVars, selectVars, ret, clientVars,
                 handled>>

StartScan ==
  /\ pc = "selected" /\ run /\ ~listenSet /\ rset # {}
  /\ BeginScan(items)
  /\ UNCHANGED <<run, items, que, socketVars, selectVars, ret, clientVars,
                 handled>>

-----------------------------------------------------------------------------
(* One turn of the scan: s is the current entry of m_listClients.          *)

Current == items[cur]

ContinueScan(list, from) ==
  /\ cur' = NextCursor(list, from)
  /\ pc' = IF cur' = NoCurrent THEN "messages" ELSE "scan"

(* Slip: the socket is deleted but not closed.                             *)
DropUnclosed(s, msgs) ==
  /\ que' = Append(que \o msgs, ClosedMsg(s))
  /\ alive' = alive \ {s}
  /\ items' = Without(items, cur)
  /\ ContinueScan(items', CursorAfterRemovePrev(cur))
  /\ UNCHANGED <<fds, out>>

(* Slip: pcClosed is posted first.                                         *)
DropClosedFirst(s, msgs) ==
  /\ que' = Append(que, ClosedMsg(s)) \o msgs
  /\ fds' = fds \ {s}
  /\ alive' = alive \ {s}
  /\ items' = Without(items, cur)
  /\ ContinueScan(items', CursorAfterRemovePrev(cur))
  /\ UNCHANGED out

(* Either catch clause: post pcClosed, close, unlink and delete.           *)
DropCurrent(s, msgs) ==
  /\ que' = Append(que \o msgs, ClosedMsg(s))
  /\ fds' = fds \ {s}
  /\ alive' = alive \ {s}
  /\ items' = Without(items, cur)
  /\ ContinueScan(items', CursorAfterRemovePrev(cur))
  /\ UNCHANGED out

(* Slip: the last packet read stays in the buffer.                         *)
ReadsLastAgain(s, k) ==
  /\ IF s \in rset THEN k \in 1 .. Len(wire[s]) ELSE k = 0
  /\ \A i \in 1 .. k : wire[s][i] # Invalid
  /\ wire' = [wire EXCEPT ![s] = SubSeq(@, IF k = 0 THEN 1 ELSE k, Len(@))]

(* readData() and the extractPacket() loop deliver the first k packets     *)
(* that have arrived; an unreadable client delivers none.                  *)
Reads(s, k) ==
  /\ IF s \in rset THEN k \in 1 .. Len(wire[s]) ELSE k = 0
  /\ \A i \in 1 .. k : wire[s][i] # Invalid
  /\ wire' = [wire EXCEPT ![s] = SubSeq(@, k + 1, Len(@))]

(* A send fails when the other end of the connection has gone.             *)
SendMayFail(c) == "sendfail" \in Faults /\ peer[c] \in {"finished", "reset"}

ScanServed ==
  /\ pc = "scan"
  /\ \E k \in 0 .. MaxPackets :
       /\ Reads(Current, k)
       /\ que' = que \o DataMsgs(Current, k)
  /\ \E n \in 0 .. out[Current] :
       /\ Current \notin wset => n = out[Current]
       /\ out' = [out EXCEPT ![Current] = n]          \* sendBuffer()
  /\ ContinueScan(items, cur)
  /\ UNCHANGED <<run, items, alive, fds, selectVars, ret, peer, backlog, sent,
                 handled>>

(* recv() finds the connection closed or broken.                           *)
ScanClosed ==
  /\ pc = "scan" /\ Current \in rset /\ wire[Current] = << >>
  /\ DropCurrent(Current, << >>)
  /\ UNCHANGED <<run, selectVars, ret, clientVars, handled>>

(* extractPacket() throws after k good packets; the rest of the input      *)
(* buffer goes with the socket.                                            *)
ScanInvalid ==
  /\ pc = "scan" /\ Current \in rset
  /\ \E k \in 0 .. MaxPackets :
       /\ k < Len(wire[Current]) /\ wire[Current][k + 1] = Invalid
       /\ \A i \in 1 .. k : wire[Current][i] # Invalid
       /\ DropCurrent(Current, DataMsgs(Current, k))
  /\ wire' = [wire EXCEPT ![Current] = << >>]
  /\ UNCHANGED <<run, selectVars, ret, peer, backlog, sent, handled>>

(* sendBuffer() throws, after the packets of this turn were queued.        *)
ScanSendFails ==
  /\ pc = "scan" /\ Current \in wset /\ SendMayFail(Current)
  /\ \E k \in 0 .. MaxPackets :
       /\ Reads(Current, k)
       /\ DropCurrent(Current, DataMsgs(Current, k))
  /\ UNCHANGED <<run, selectVars, ret, peer, backlog, sent, handled>>

-----------------------------------------------------------------------------
(* sendPacket() and removeSocket(), called from the application.  q is the *)
(* queue at the time of the call, back where the application continues.    *)

SendOk(c) ==
  /\ out[c] < MaxOut
  /\ \E n \in 0 .. out[c] + 1 : out' = [out EXCEPT ![c] = n]

(* An exception leaves processMessages(), the loop and startServer(),      *)
(* unless the application catches it.                                      *)
Thrown(back) == pc' = IF AppCatches THEN back ELSE "dead"

(* removeSocket(): posts pcClosed for c, then removes the first entry of   *)
(* the list -- whoever that is -- and deletes it without closing it.       *)
RemoveSocket(c, q) ==
  /\ que' = Append(q, ClosedMsg(c))
  /\ IF items = << >> THEN UNCHANGED <<items, cur, alive>>
     ELSE /\ items' = Without(items, 1)
          /\ cur' = CursorAfterRemovePrev(1)
          /\ alive' = alive \ {items[1]}
  /\ UNCHANGED fds

SendBroken(c, q, back) ==
  /\ SendMayFail(c)
  /\ RemoveSocket(c, q)
  /\ Thrown(back)
  /\ UNCHANGED out

BufferFull(c, q, back) ==
  /\ out[c] >= MaxOut
  /\ que' = q
  /\ Thrown(back)
  /\ UNCHANGED <<out, listVars, alive, fds>>

(* processSingleMsg() for the message at the head of the queue.            *)
Handle(m) == handled' = [handled EXCEPT ![m.sock] = Append(@, [kind |-> m.kind, no |-> m.no])]

MsgIgnored ==
  /\ pc = "messages" /\ que # << >>
  /\ Handle(Head(que)) /\ que' = Tail(que)
  /\ UNCHANGED <<pc, run, listVars, socketVars, selectVars, ret, clientVars>>

MsgKill ==
  /\ pc = "messages" /\ que # << >> /\ "kill" \in AppActs
  /\ Handle(Head(que)) /\ que' = Tail(que)
  /\ run' = FALSE
  /\ UNCHANGED <<pc, listVars, socketVars, selectVars, ret, clientVars>>

MsgReply ==
  /\ pc = "messages" /\ que # << >> /\ "reply" \in AppActs
  /\ Handle(Head(que))
  /\ LET m == Head(que) IN
     /\ m.kind # "closed" /\ m.sock \in alive
     /\ \/ /\ SendOk(m.sock) /\ que' = Tail(que) /\ pc' = pc
           /\ UNCHANGED <<listVars, alive, fds>>
        \/ SendBroken(m.sock, Tail(que), "messages")
        \/ BufferFull(m.sock, Tail(que), "messages")
  /\ UNCHANGED <<run, selectVars, ret, clientVars>>

MsgKick ==
  /\ pc = "messages" /\ que # << >> /\ "kick" \in AppActs
  /\ Handle(Head(que))
  /\ LET m == Head(que) IN
     /\ m.kind # "closed" /\ m.sock \in alive
     /\ RemoveSocket(m.sock, Tail(que))
  /\ UNCHANGED <<pc, run, out, selectVars, ret, clientVars>>

(* send2All() from processSingleMsg(): one turn of its loop per step.      *)
MsgBroadcast ==
  /\ pc = "messages" /\ que # << >> /\ "broadcast" \in AppActs
  /\ items # << >>
  /\ Handle(Head(que)) /\ que' = Tail(que)
  /\ cur' = 1 /\ pc' = "send2All" /\ ret' = "messages"
  /\ UNCHANGED <<run, items, socketVars, selectVars, clientVars>>

Send2AllTurn ==
  /\ pc = "send2All"
  /\ \/ /\ SendOk(Current)
        /\ cur' = NextCursor(items, cur)
        /\ pc' = IF cur' = NoCurrent THEN ret ELSE pc
        /\ UNCHANGED <<items, que, alive, fds>>
     \/ SendBroken(Current, que, ret)
     \/ BufferFull(Current, que, ret)
  /\ UNCHANGED <<run, selectVars, ret, clientVars, handled>>

MessagesDone ==
  /\ pc = "messages" /\ que = << >>
  /\ pc' = "idle"
  /\ UNCHANGED <<run, listVars, que, socketVars, selectVars, ret, clientVars,
                 handled>>

-----------------------------------------------------------------------------
(* The end of a turn: idle() if the timer is due, which may be at any turn.*)

EndTurn ==
  /\ pc = "idle"
  /\ pc' = "loop"
  /\ UNCHANGED <<run, listVars, que, socketVars, selectVars, ret, clientVars,
                 handled>>

IdleBroadcast ==
  /\ pc = "idle" /\ run /\ "idleBroadcast" \in AppActs /\ items # << >>
  /\ cur' = 1 /\ pc' = "send2All" /\ ret' = "loop"
  /\ UNCHANGED <<run, items, que, socketVars, selectVars, clientVars, handled>>

IdleKick ==
  /\ pc = "idle" /\ run /\ "idleKick" \in AppActs
  /\ \E c \in SE!ToSet(items) : RemoveSocket(c, que)
  /\ pc' = "loop"
  /\ UNCHANGED <<run, out, selectVars, ret, clientVars, handled>>

(* ~SimpleServer(): purges the queue and the list; deleting a ServerSocket *)
(* does not close its descriptor.                                          *)
Destroy ==
  /\ pc \in {"stopped", "dead"}
  /\ pc' = "destroyed"
  /\ que' = << >>
  /\ items' = << >>
  /\ cur' = IF items = << >> THEN cur ELSE NoCurrent
  /\ alive' = alive \ SE!ToSet(items)
  /\ UNCHANGED <<run, fds, out, selectVars, ret, clientVars, handled>>

ServerStep ==
  \/ StartServer \/ StopServer \/ Select \/ SelectError \/ NothingToDo
  \/ AcceptConnection \/ AcceptFails \/ StartScan
  \/ ScanServed \/ ScanClosed \/ ScanInvalid \/ ScanSendFails
  \/ MsgIgnored \/ MsgKill \/ MsgReply \/ MsgKick \/ MsgBroadcast
  \/ Send2AllTurn \/ MessagesDone \/ EndTurn \/ IdleBroadcast \/ IdleKick

Next == ClientStep \/ KillServer \/ ServerStep \/ Destroy

Spec == Init /\ [][Next]_vars

(* The operating system keeps running the server's thread; nothing makes   *)
(* the clients or the application's calls happen.                          *)
FairSpec == Spec /\ WF_vars(ServerStep)

-----------------------------------------------------------------------------
(* The type invariant.                                                     *)
TypeOK ==
  /\ pc \in Control /\ ret \in {"loop", "messages"}
  /\ run \in BOOLEAN
  /\ items \in Seq(Client) /\ cur \in 0 .. Len(items)
  /\ que \in Seq(Message)
  /\ alive \subseteq Client /\ fds \subseteq Client
  /\ out \in [Client -> 0 .. MaxOut]
  /\ rset \subseteq Client /\ wset \subseteq Client /\ listenSet \in BOOLEAN
  /\ peer \in [Client -> {"absent", "open", "finished", "reset"}]
  /\ backlog \subseteq Client
  /\ sent \in [Client -> 0 .. MaxPackets]
  /\ wire \in [Client -> Seq(0 .. MaxPackets)]
  /\ handled \in [Client -> Seq([kind : {"new", "data", "closed"}, no : 0 .. MaxPackets])]

Listed == SE!ToSet(items)

(* The client list is sound whatever the application and the network do:   *)
(* no connection is listed twice, every listed ServerSocket is allocated   *)
(* with its descriptor open -- getMaxFD() and the scan dereference every   *)
(* entry -- and the cursor is on an entry while a loop uses it.            *)
ListSound ==
  /\ \A i, j \in 1 .. Len(items) : items[i] = items[j] => i = j
  /\ Listed \subseteq alive \cap fds
  /\ pc \in {"scan", "send2All"} => cur \in 1 .. Len(items)

(* What processSingleMsg() was told about a client, or finds in the queue  *)
(* before the i-th message.                                                *)
Entry(m) == [kind |-> m.kind, no |-> m.no]
Told(c, i) ==
  SE!ToSet(handled[c]) \cup {Entry(que[j]) : j \in {x \in 1 .. i - 1 : que[x].sock = c}}
AllTold(c) == Told(c, Len(que) + 1)

(* e is the next message about a connection behind the earlier ones:       *)
(* pcNewConnection at first, and then the client's next packet.            *)
Numbers(es) == {e.no : e \in {d \in es : d.kind # "closed"}}
InTurn(e, earlier) ==
  /\ e.kind = IF e.no = 0 THEN "new" ELSE "data"
  /\ Numbers(earlier) = 0 .. e.no - 1

(* A client's packets are handled in the order sent, none skipped or       *)
(* repeated and none before its pcNewConnection, however the reads, the    *)
(* failures and the removals of several clients interleave.                *)
PacketOrder ==
  \A c \in Client :
    /\ \A i \in DOMAIN handled[c] : handled[c][i].kind # "closed" =>
         InTurn(handled[c][i], {handled[c][j] : j \in 1 .. i - 1})
    /\ \A i \in DOMAIN que : que[i].sock = c /\ que[i].kind # "closed" =>
         InTurn(que[i], Told(c, i))

(* The message queue "works like a FIFO", and where removeSocket() is not  *)
(* called pcClosed is the last a client is heard of: it is posted once,    *)
(* behind every packet that was read.                                      *)
MessageOrder ==
  \A c \in Client :
    /\ \A i \in DOMAIN handled[c] : handled[c][i].kind = "closed" =>
         i > 1 /\ i = Len(handled[c]) /\ \A j \in DOMAIN que : que[j].sock # c
    /\ \A i \in DOMAIN que : que[i].sock = c /\ que[i].kind = "closed" =>
         Told(c, i) # {} /\ \A j \in i + 1 .. Len(que) : que[j].sock # c

(* Once pcClosed is posted for a client, that client and no other is out   *)
(* of the list: removeSocket() "removes this socket from our client list". *)
ClosedIsRemoved ==
  \A c \in Client : (\E e \in AllTold(c) : e.kind = "closed") => c \notin Listed

(* The descriptors and objects held are those of the listed clients: a     *)
(* client that leaves is closed and freed, and only then.                  *)
NothingLeaks == pc # "destroyed" => fds = Listed /\ alive = Listed

(* No client is starved: what a connected client has sent is read, however *)
(* busy the others keep the scan and however often it is cut short by the  *)
(* removal of the head of the list.                                        *)
EveryClientRead ==
  \A c \in Client :
    (c \in fds /\ wire[c] # << >>) ~> (wire[c] = << >> \/ c \notin fds \/ pc \in Terminal)

(* A message posted is a message processed.                                *)
EveryMessageHandled == (que # << >>) ~> (que = << >> \/ pc \in Terminal)

(* A client that has left is noticed and its descriptor released.          *)
LeaverReaped ==
  \A c \in Client :
    (c \in fds /\ peer[c] # "open") ~> (c \notin fds \/ pc \in Terminal)

(* Whoever is connected is served.                                         *)
Served == EveryClientRead /\ EveryMessageHandled /\ LeaverReaped

(* Once m_bRun is cleared in a running server, the server stops.           *)
KillStops == (pc # "init" /\ ~run) ~> (pc \in Terminal)
=============================================================================
