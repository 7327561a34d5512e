----------------------------- MODULE Connector ------------------------------
(***************************************************************************)
(* A program's end of a connection: ClientConnector, which blocks until a  *)
(* packet is there, and AsyncClientConnector, whose idle() the program     *)
(* calls to move packets into a message queue.  Both keep one socket       *)
(* object, create it when they connect and delete it when they are told to *)
(* close or, the second one, when it finds that the server has closed.     *)
(*                                                                         *)
(* A connection is an attempt to connect and the descriptor it opened;     *)
(* attempts are numbered, so no descriptor is reused.  Packets are         *)
(* numbered in the order the server sends them on a connection.            *)
(***************************************************************************)
EXTENDS Naturals, Sequences, FiniteSets, SequencesExt

CONSTANTS
  MaxConns,     \* bound: attempts to connect
  MaxPackets,   \* bound: packets the server sends on one connection
  MaxIn,        \* packets that fit into a socket's input buffer
  MaxOut        \* packets that fit into a ServerSocket's output buffer

ASSUME ConnectorConstants ==
  /\ MaxConns \in Nat \ {0} /\ MaxPackets \in Nat
  /\ MaxIn \in Nat \ {0} /\ MaxOut \in Nat \ {0}

VARIABLES
  kind,     \* "blocking": ClientConnector; "async": AsyncClientConnector
  pc,       \* "unbuilt" until the constructor returns, "built", "destroyed"
  sock,     \* m_pSocket: the socket object, or NoSock
  inbuf,    \* whole packets in its input buffer
  torn,     \* whether the first part of the next one is there too
  outb,     \* packets waiting in its output buffer
  que,      \* m_que: <<connection, packet>>
  err,      \* what the last idle() or recvPacket() threw
  open,     \* connections whose descriptor the process holds open
  tries,    \* attempts to connect so far
  peer,     \* the server's end of each connection
  sent,     \* packets the server has sent on each
  net,      \* sent and not yet read
  broken,   \* packets of each that recvPacket() or extractPacket() rejects
  ended,    \* connections whose pcClosed was posted
  orphans,  \* connections of connectors whose constructor threw
  got       \* the packets of each connection the program was given

sockVars == <<sock, inbuf, torn, outb>>
peerVars == <<peer, sent, net, broken>>
leftVars == <<ended, orphans>>
vars == <<kind, pc, sockVars, que, err, open, tries, peerVars, leftVars, got>>

Conn   == 1 .. MaxConns
Packet == 1 .. MaxPackets
Closed == 0                       \* pcClosed
NoSock == [conn |-> 0, nonblocking |-> FALSE, quiet |-> FALSE]
Here   == sock # NoSock
Me     == sock.conn
Held   == IF Here THEN {Me} ELSE {}

Init ==
  /\ kind \in {"blocking", "async"} /\ pc = "unbuilt"
  /\ sock = NoSock /\ inbuf = << >> /\ torn = FALSE /\ outb = 0
  /\ que = << >> /\ err = "none"
  /\ open = {} /\ tries = 0
  /\ peer = [c \in Conn |-> "none"] /\ sent = [c \in Conn |-> 0]
  /\ net = [c \in Conn |-> << >>]
  /\ \E b \in {{}} \cup {{n} : n \in Packet} : broken = [c \in Conn |-> b]
  /\ ended = {} /\ orphans = {}
  /\ got = [c \in Conn |-> << >>]

-----------------------------------------------------------------------------
(* The server's end.                                                       *)

ServerSends(c) ==
  /\ peer[c] = "up" /\ sent[c] < MaxPackets
  /\ sent' = [sent EXCEPT ![c] = @ + 1]
  /\ net' = [net EXCEPT ![c] = Append(@, sent'[c])]
  /\ UNCHANGED <<kind, pc, sockVars, que, err, open, tries, peer, broken, got, leftVars>>

ServerFinishes(c) ==
  /\ peer[c] = "up"
  /\ peer' = [peer EXCEPT ![c] = "finished"]
  /\ UNCHANGED <<kind, pc, sockVars, que, err, open, tries, sent, net, broken, got, leftVars>>

(* A reset discards what was not read.                                     *)
ServerResets(c) ==
  /\ peer[c] \in {"up", "finished"}
  /\ peer' = [peer EXCEPT ![c] = "reset"]
  /\ net' = [net EXCEPT ![c] = << >>]
  /\ UNCHANGED <<kind, pc, sockVars, que, err, open, tries, sent, broken, got, leftVars>>

-----------------------------------------------------------------------------
(* connect(), reconnect() and the constructors that connect.  A connector  *)
(* that has a socket can only reconnect(), whose cleanup() comes first.    *)

FreshSock(c, nb) == [conn |-> c, nonblocking |-> nb, quiet |-> FALSE]

(* The socket object after a call, and empty buffers.                      *)
Holds(s) == sock' = s /\ inbuf' = << >> /\ torn' = FALSE /\ outb' = 0

Attempts == pc # "destroyed" /\ tries < MaxConns /\ tries' = tries + 1

(* Slip: the catch block forgets cleanup().                                *)
ConnectFailsOpen ==
  /\ Attempts
  /\ Holds(NoSock) /\ open' = (open \ Held) \cup {tries'}
  /\ err' = "none"
  /\ UNCHANGED <<kind, pc, que, peerVars, got, leftVars>>

(* The host is unknown, or create() or connect() throws: the socket that   *)
(* was just made is closed and deleted.                                    *)
ConnectFails ==
  /\ Attempts
  /\ Holds(NoSock) /\ open' = open \ Held
  /\ err' = "none"
  /\ UNCHANGED <<kind, pc, que, peerVars, got, leftVars>>

Reached == peer' = [peer EXCEPT ![tries'] = "up"] /\ UNCHANGED <<sent, net, broken>>

ConnectSucceeds ==
  /\ Attempts
  /\ Holds(FreshSock(tries', kind = "async")) /\ open' = (open \ Held) \cup {tries'}
  /\ pc' = "built" /\ err' = "none" /\ Reached
  /\ UNCHANGED <<kind, que, got, leftVars>>

(* setNonBlocking() throws an exception the catch block does not name: a   *)
(* connector keeps the socket, still blocking; a constructor that is left  *)
(* this way leaves a socket nobody holds.                                  *)
NonBlockingFails ==
  /\ kind = "async" /\ Attempts
  /\ Holds(IF pc = "built" THEN FreshSock(tries', FALSE) ELSE NoSock)
  /\ open' = (open \ Held) \cup {tries'}
  /\ err' = "none" /\ Reached
  /\ orphans' = IF pc = "built" THEN orphans ELSE orphans \cup {tries'}
  /\ UNCHANGED <<kind, pc, que, ended, got>>

(* ClientConnector() without a host.                                       *)
BuildUnconnected ==
  /\ pc = "unbuilt" /\ kind = "blocking"
  /\ pc' = "built" /\ err' = "none"
  /\ UNCHANGED <<kind, sockVars, que, open, tries, peerVars, got, leftVars>>

-----------------------------------------------------------------------------
(* Calls on a connector.                                                   *)

Close ==
  /\ pc = "built" /\ Here
  /\ Holds(NoSock) /\ open' = open \ Held /\ err' = "none"
  /\ UNCHANGED <<kind, pc, que, tries, peerVars, got, leftVars>>

(* The destructor: cleanup(), and the queue deletes its messages.          *)
Destroy ==
  /\ pc = "built" /\ pc' = "destroyed"
  /\ Holds(NoSock) /\ open' = open \ Held /\ err' = "none"
  /\ que' = << >>
  /\ UNCHANGED <<kind, tries, peerVars, got, leftVars>>

(* getSocket()->setExceptionOnReadClose(false)                             *)
Quiet ==
  /\ pc = "built" /\ Here /\ ~sock.quiet
  /\ sock' = [sock EXCEPT !.quiet = TRUE]
  /\ UNCHANGED <<kind, pc, inbuf, torn, outb, que, err, open, tries, peerVars, got, leftVars>>

(* ServerSocket::sendPacket(), when it fits: buffered, then as much written *)
(* as the connection takes, or an exception that leaves it in the buffer.  *)
SendAsync(w) ==
  /\ pc = "built" /\ kind = "async" /\ Here /\ outb < MaxOut
  /\ w \in 0 .. IF peer[Me] = "reset" THEN 0 ELSE outb + 1
  /\ outb' = outb + 1 - w
  /\ err' = "none"
  /\ UNCHANGED <<kind, pc, sock, inbuf, torn, que, open, tries, peerVars, got, leftVars>>

(* getMsg()                                                                *)
GetMsg ==
  /\ pc = "built" /\ que # << >>
  /\ que' = Tail(que)
  /\ got' = [got EXCEPT ![Head(que)[1]] = Append(@, Head(que)[2])]
  /\ err' = "none"
  /\ UNCHANGED <<kind, pc, sockVars, open, tries, peerVars, leftVars>>

-----------------------------------------------------------------------------
(* AsyncClientConnector::idle()                                            *)

Idles == pc = "built" /\ kind = "async" /\ Here
Full  == Len(inbuf) = MaxIn
Ended == net[Me] = << >> /\ peer[Me] = "finished"

(* recv() into the buffer of k whole packets, and perhaps the first part   *)
(* of one more.                                                            *)
Receives(k, part) ==
  /\ ~Full /\ k <= MaxIn - Len(inbuf) /\ k <= Len(net[Me])
  /\ part => k < Len(net[Me])
  /\ k > 0 \/ (part /\ ~torn)
  /\ net' = [net EXCEPT ![Me] = SubSeq(@, k + 1, Len(@))]
  /\ torn' = part

Messages(ps) == [i \in DOMAIN ps |-> <<Me, ps[i]>>]

(* sendBuffer() at the end of idle(), if the socket is writable.           *)
Flushes(w) == w \in 0 .. outb /\ outb' = outb - w

(* Slip: the last message of a read is put at the front of the queue.      *)
IdleReadsAhead(k, part, w) ==
  /\ Idles
  /\ Receives(k, part)
  /\ LET all == inbuf \o SubSeq(net[Me], 1, k)
     IN /\ ToSet(all) \cap broken[Me] = {}
        /\ que' = Messages(all) \o que /\ inbuf' = << >>
  /\ Flushes(w) /\ err' = "none"
  /\ UNCHANGED <<kind, pc, sock, open, tries, peer, sent, broken, got, leftVars>>

(* Slip: one packet is extracted from what was read, not all.              *)
IdleReadsOne(k, part, w) ==
  /\ Idles
  /\ Receives(k, part)
  /\ LET all == inbuf \o SubSeq(net[Me], 1, k)
     IN /\ ToSet(all) \cap broken[Me] = {}
        /\ que' = que \o Messages(IF all = << >> THEN all ELSE <<all[1]>>) /\ inbuf' = SubSeq(all, 2, Len(all))
  /\ Flushes(w) /\ err' = "none"
  /\ UNCHANGED <<kind, pc, sock, open, tries, peer, sent, broken, got, leftVars>>

(* Data: every whole packet becomes a message.                             *)
IdleReads(k, part, w) ==
  /\ Idles
  /\ Receives(k, part)
  /\ LET all == inbuf \o SubSeq(net[Me], 1, k)
         bad == {i \in DOMAIN all : all[i] \in broken[Me]}
     IN /\ bad = {}
        /\ que' = que \o Messages(all) /\ inbuf' = << >>
  /\ Flushes(w) /\ err' = "none"
  /\ UNCHANGED <<kind, pc, sock, open, tries, peer, sent, broken, got, leftVars>>

(* A packet with an impossible size: extractPacket() throws after what was *)
(* before it, and leaves it and what follows in the buffer; nothing is     *)
(* written.                                                                *)
IdleRejects(k, part) ==
  /\ Idles
  /\ Receives(k, part)
  /\ LET all == inbuf \o SubSeq(net[Me], 1, k)
     IN \E i \in DOMAIN all :
          /\ all[i] \in broken[Me] /\ \A j \in 1 .. i - 1 : all[j] \notin broken[Me]
          /\ que' = que \o Messages(SubSeq(all, 1, i - 1))
          /\ inbuf' = SubSeq(all, i, Len(all))
  /\ err' = "invalid"
  /\ UNCHANGED <<kind, pc, sock, outb, open, tries, peer, sent, broken, got, leftVars>>

(* recv() of nothing, because the server closed or because the buffer is   *)
(* full, is an exception...                                                *)
IdleThrows ==
  /\ Idles /\ ~sock.quiet
  /\ \/ Full /\ net[Me] # << >> /\ err' = "full"
     \/ Ended /\ err' = "closed"
  /\ UNCHANGED <<kind, pc, sockVars, que, open, tries, peerVars, got, leftVars>>

(* Slip: pcClosed is put before the packets that are still queued.         *)
IdlePostsClosedFirst ==
  /\ Idles /\ sock.quiet /\ Ended
  /\ que' = <<<<Me, Closed>>>> \o que
  /\ Holds(NoSock) /\ err' = "none" /\ ended' = ended \cup {Me}
  /\ UNCHANGED <<kind, pc, open, tries, peerVars, orphans, got>>

(* ...unless it was told not to be: pcClosed is posted and the socket      *)
(* object deleted.  Its destructor does not close the descriptor.          *)
IdlePostsClosed ==
  /\ Idles /\ sock.quiet
  /\ (Full /\ net[Me] # << >>) \/ Ended
  /\ que' = Append(que, <<Me, Closed>>)
  /\ Holds(NoSock) /\ err' = "none" /\ ended' = ended \cup {Me}
  /\ UNCHANGED <<kind, pc, open, tries, peerVars, orphans, got>>

(* recv() or send() fails.                                                 *)
IdleReset ==
  /\ Idles /\ peer[Me] = "reset"
  /\ err' = "reset"
  /\ UNCHANGED <<kind, pc, sockVars, que, open, tries, peerVars, got, leftVars>>

(* Nothing to read; the output buffer is written as far as it goes.        *)
IdleWrites(w) ==
  /\ Idles /\ net[Me] = << >> /\ peer[Me] = "up"
  /\ w > 0 /\ Flushes(w) /\ err' = "none"
  /\ UNCHANGED <<kind, pc, sock, inbuf, torn, que, open, tries, peerVars, got, leftVars>>

Idle ==
  \/ \E k \in 0 .. MaxIn, part \in BOOLEAN :
        (\E w \in 0 .. MaxOut : IdleReads(k, part, w)) \/ IdleRejects(k, part)
  \/ IdleThrows \/ IdlePostsClosed \/ IdleReset
  \/ \E w \in 1 .. MaxOut : IdleWrites(w)

-----------------------------------------------------------------------------
(* ClientConnector::recvPacket() and operator >>, by way of                *)
(* BufferedSocket::recvPacket().                                           *)

Blocks == pc = "built" /\ kind = "blocking" /\ Here

(* readFullPacket() reads until a whole packet is in the buffer.           *)
RecvReads(k, part) ==
  /\ Blocks /\ inbuf = << >>
  /\ Receives(k, part)
  /\ inbuf' = SubSeq(net[Me], 1, k)
  /\ UNCHANGED <<kind, pc, sock, outb, que, err, open, tries, peer, sent, broken, got, leftVars>>

RecvPacket ==
  /\ Blocks /\ inbuf # << >> /\ Head(inbuf) \notin broken[Me]
  /\ inbuf' = Tail(inbuf)
  /\ got' = [got EXCEPT ![Me] = Append(@, Head(inbuf))]
  /\ err' = "none"
  /\ UNCHANGED <<kind, pc, sock, torn, outb, que, open, tries, peerVars, leftVars>>

(* A bad cookie or command: resetBuffer() also forgets what came behind    *)
(* the packet.  If that was the first part of another one, the rest of it  *)
(* will be taken for a packet.                                             *)
RecvBad ==
  /\ Blocks /\ inbuf # << >> /\ Head(inbuf) \in broken[Me]
  /\ inbuf' = << >> /\ torn' = FALSE
  /\ broken' = IF torn /\ net[Me] # << >>
               THEN [broken EXCEPT ![Me] = @ \cup {Head(net[Me])}] ELSE broken
  /\ err' = "invalid"
  /\ UNCHANGED <<kind, pc, sock, outb, que, open, tries, peer, sent, net, got, leftVars>>

(* recv() throws, or returns nothing and readFullPacket() throws; the      *)
(* connector keeps its socket and isConnected() stays true.                *)
RecvFails ==
  /\ Blocks /\ inbuf = << >>
  /\ \/ Ended /\ err' = "closed" /\ torn' = (torn /\ ~sock.quiet)
     \/ peer[Me] = "reset" /\ err' = "reset" /\ torn' = torn
  /\ UNCHANGED <<kind, pc, sock, inbuf, outb, que, open, tries, peerVars, got, leftVars>>

Recv ==
  \/ \E k \in 0 .. MaxIn, part \in BOOLEAN : RecvReads(k, part)
  \/ RecvPacket \/ RecvBad \/ RecvFails

-----------------------------------------------------------------------------
Server == \E c \in Conn : ServerSends(c) \/ ServerFinishes(c) \/ ServerResets(c)

Program ==
  \/ ConnectFails \/ ConnectSucceeds \/ NonBlockingFails \/ BuildUnconnected
  \/ Close \/ Destroy \/ Quiet
  \/ \E w \in 0 .. MaxOut : SendAsync(w)

Next == Server \/ Program \/ Idle \/ GetMsg \/ Recv

(* "You call idle as often as you are able to", a program that connects    *)
(* goes on asking for packets, and a connection that takes bytes goes on   *)
(* taking them.                                                            *)
Spec == Init /\ [][Next]_vars
FairSpec ==
  /\ Spec
  /\ WF_vars(\E k \in 0 .. MaxIn, part \in BOOLEAN : \E w \in 0 .. MaxOut :
               IdleReads(k, part, w))
  /\ \A w \in 1 .. MaxOut : WF_vars(w = outb /\ IdleWrites(w))
  /\ WF_vars(GetMsg) /\ WF_vars(Recv)

-----------------------------------------------------------------------------
(* Properties                                                              *)

TypeOK ==
  /\ kind \in {"blocking", "async"} /\ pc \in {"unbuilt", "built", "destroyed"}
  /\ sock = NoSock \/ sock \in [conn : Conn, nonblocking : BOOLEAN, quiet : BOOLEAN]
  /\ inbuf \in Seq(Packet) /\ torn \in BOOLEAN /\ outb \in 0 .. MaxOut
  /\ que \in Seq(Conn \X ({Closed} \cup Packet))
  /\ open \subseteq Conn /\ tries \in 0 .. MaxConns
  /\ peer \in [Conn -> {"none", "up", "finished", "reset"}]
  /\ sent \in [Conn -> 0 .. MaxPackets] /\ net \in [Conn -> Seq(Packet)]
  /\ broken \in [Conn -> SUBSET Packet] /\ ended \subseteq Conn /\ orphans \subseteq Conn
  /\ got \in [Conn -> Seq({Closed} \cup Packet)]

(* What the program was given of connection c, or finds in the queue       *)
(* before the i-th message.                                                *)
Before(c, i) ==
  ToSet(got[c]) \cup {que[j][2] : j \in {x \in 1 .. i - 1 : que[x][1] = c}}
AllOf(c) == Before(c, Len(que) + 1)

(* Every connection's packets are given to the program and queued in the   *)
(* order they were sent, with nothing left out or repeated, until an       *)
(* invalid one makes recvPacket() empty its buffer.  On the connection a   *)
(* connector holds, what is buffered and under way follows them, up to the *)
(* last packet sent.                                                       *)
StreamKept ==
  /\ \A c \in Conn : kind = "async" \/ broken[c] = {} =>
       /\ \A i \in DOMAIN got[c] :
            got[c][i] = i \/ (got[c][i] = Closed /\ i = Len(got[c]))
       /\ \A i \in DOMAIN que :
            que[i][1] = c /\ que[i][2] # Closed => Before(c, i) = 1 .. que[i][2] - 1
       /\ AllOf(c) \subseteq {Closed} \cup 1 .. sent[c]
  /\ Here /\ peer[Me] # "reset" /\ (kind = "async" \/ broken[Me] = {}) =>
       LET n == sent[Me] - Len(net[Me]) - Len(inbuf)
       IN /\ n \in 0 .. sent[Me] /\ AllOf(Me) = 1 .. n
          /\ \A i \in DOMAIN inbuf : inbuf[i] = n + i
          /\ \A i \in DOMAIN net[Me] : net[Me][i] = n + Len(inbuf) + i

(* pcClosed comes once, behind every packet of its connection, and never   *)
(* for the connection the connector still holds: no message after it, and  *)
(* no packet of the next connection before it.                             *)
ClosedIsLast ==
  /\ \A c \in Conn : \A i \in DOMAIN got[c] : got[c][i] = Closed =>
       i = Len(got[c]) /\ c \notin Held /\ \A j \in DOMAIN que : que[j][1] # c
  /\ \A i \in DOMAIN que : que[i][2] = Closed =>
       que[i][1] \notin Held /\ \A j \in i + 1 .. Len(que) : que[j][1] # que[i][1]
  /\ \A i, j \in DOMAIN que : i < j => que[i][1] <= que[j][1]

(* A descriptor that is open is the connector's, or it was left behind in  *)
(* one of two ways: by idle() when it deleted the socket of a connection   *)
(* that had ended, or by a constructor when setNonBlocking() threw.        *)
OnlyKnownLeaks == open = Held \cup ended \cup orphans

(* While it calls idle(), or recvPacket(), a program is given every packet *)
(* of the connection it holds, unless one on it was invalid, it was reset, *)
(* or the program goes on to another connection.                           *)
Owed(n) ==
  Here /\ sent[Me] >= n /\ n \notin ToSet(got[Me])
  /\ peer[Me] # "reset" /\ broken[Me] = {}
EveryPacketGiven == \A n \in Packet : []<>~Owed(n)
=============================================================================
