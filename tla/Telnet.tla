------------------------------- MODULE Telnet -------------------------------
(***************************************************************************)
(* TelnetServer (telnetserver.cpp) and its TelnetServerSocket: the loop of *)
(* SimpleServer over lines of text.  What a client says is a sequence of   *)
(* Text, numbered in the order it is sent, and LF; TCP may cut it anywhere.*)
(* readData() appends to the client's input buffer and extractPacket()     *)
(* takes a line off it at every LF, which becomes a message.  An           *)
(* application answers, broadcasts, removes clients and stops the server.  *)
(* Text stands for bytes without LF; what comes before an LF ends with CR, *)
(* which the line's message leaves out, and may be nothing else.           *)
(***************************************************************************)
EXTENDS CursorList, FiniteSets

CONSTANTS
  Client,       \* the connections clients may make
  MaxSaid,      \* bound: what the clients send in all, Text and LF together
  MaxIn,        \* how much of that fits into m_pInBuff
  AppActs,      \* what processSingleMsg() does: subset of AppAct
  AppCatches,   \* whether the application catches what sendString() throws
  EmptyLines    \* whether clients send an LF with no byte before it, not even CR

AppAct == {"answer", "broadcast", "kick", "kill"}

ASSUME TelnetConstants ==
  /\ MaxSaid \in Nat /\ MaxIn \in Nat \ {0}
  /\ AppActs \subseteq AppAct
  /\ AppCatches \in BOOLEAN /\ EmptyLines \in BOOLEAN

VARIABLES
  pc,         \* where the server thread is, or what ended it
  run,        \* m_bRun
  items, cur, \* m_listClients and its cursor
  que,        \* m_que
  alive,      \* TelnetServerSocket objects that are allocated
  fds,        \* connections whose descriptor the server holds open
  in,         \* each input buffer
  rset,       \* m_rset after select(): the readable clients
  listenSet,  \* whether the listening socket is in m_rset
  peer,       \* each client's own end
  said,       \* what each client sent
  wire,       \* what of that the server has not read
  handled     \* what processSingleMsg() was told about each client

listVars   == <<items, cur>>
objectVars == <<alive, fds>>
clientVars == <<peer, said>>
vars == <<pc, run, listVars, que, objectVars, in, rset, listenSet, clientVars,
          wire, handled>>

LF       == 0
Text     == 1 .. MaxSaid
Terminal == {"stopped", "selectError", "sendError", "badLine", "destroyed"}

(* A message's text is the line without its end; New and Closed have none. *)
Msg(c, k, t)  == [sock |-> c, kind |-> k, text |-> t]
NewMsg(c)     == Msg(c, "new", << >>)
ClosedMsg(c)  == Msg(c, "closed", << >>)

Init ==
  /\ pc = "init" /\ run = FALSE
  /\ items = << >> /\ cur = NoCurrent /\ que = << >>
  /\ alive = {} /\ fds = {}
  /\ in = [c \in Client |-> << >>]
  /\ rset = {} /\ listenSet = FALSE
  /\ peer = [c \in Client |-> "absent"]
  /\ said = [c \in Client |-> << >>] /\ wire = [c \in Client |-> << >>]
  /\ handled = [c \in Client |-> << >>]

Listed == SE!ToSet(items)
Waiting == {c \in Client : peer[c] # "absent" /\ NewMsg(c) \notin SE!ToSet(que)
                                              /\ handled[c] = << >>}

-----------------------------------------------------------------------------
(* The clients, who act between any two steps of the server.               *)

Connect(c) ==
  /\ pc \notin Terminal \cup {"init"} /\ peer[c] = "absent"
  /\ peer' = [peer EXCEPT ![c] = "open"]
  /\ UNCHANGED <<said, wire>>

EndsLine(s) == s = << >> \/ s[Len(s)] = LF

Say(c, t) ==
  /\ peer[c] = "open" /\ c \in fds
  /\ Cardinality({p \in Client \X Text : p[2] <= Len(said[p[1]])}) < MaxSaid
  /\ t \in {LF, Len(said[c]) + 1}
  /\ t = LF /\ EndsLine(said[c]) => EmptyLines
  /\ said' = [said EXCEPT ![c] = Append(@, t)]
  /\ wire' = [wire EXCEPT ![c] = Append(@, t)]
  /\ UNCHANGED peer

Hangup(c) ==
  /\ peer[c] = "open"
  /\ peer' = [peer EXCEPT ![c] = "gone"]
  /\ UNCHANGED <<said, wire>>

ClientStep ==
  /\ \E c \in Client : Connect(c) \/ Hangup(c) \/ \E t \in {LF} \cup Text : Say(c, t)
  /\ UNCHANGED <<pc, run, listVars, que, objectVars, in, rset, listenSet, handled>>

-----------------------------------------------------------------------------
(* startServer() and the head of ThreadHandlerProc()'s loop.               *)

StartServer ==
  /\ pc = "init"
  /\ run' = TRUE /\ pc' = "loop"
  /\ UNCHANGED <<listVars, que, objectVars, in, rset, listenSet, clientVars, wire,
                 handled>>

StopServer ==
  /\ pc = "loop" /\ ~run
  /\ pc' = "stopped"
  /\ UNCHANGED <<run, listVars, que, objectVars, in, rset, listenSet, clientVars,
                 wire, handled>>

(* Slip: the end of a connection does not make it readable.                *)
ReadableSaid(c) == wire[c] # << >>

Readable(c) == wire[c] # << >> \/ peer[c] = "gone"

(* getMaxFD() and select().  The turns in which nothing is ready, and what *)
(* an idle() may do in them, are SimpleServer's and left out here.         *)
Select ==
  /\ pc = "loop" /\ run
  /\ rset' = {c \in Listed : Readable(c)}
  /\ listenSet' = (Waiting # {})
  /\ rset' # {} \/ listenSet'
  /\ cur' = NoCurrent /\ pc' = "selected"
  /\ UNCHANGED <<run, items, que, objectVars, in, clientVars, wire, handled>>

SelectError ==
  /\ pc = "loop" /\ run
  /\ pc' = "selectError"                 \* processSelectError() throws
  /\ UNCHANGED <<run, listVars, que, objectVars, in, rset, listenSet, clientVars,
                 wire, handled>>

BeginScan(list) ==
  /\ cur' = HeadCursor(list, cur)
  /\ pc' = IF rset = {} THEN "messages" ELSE "scan"

AcceptConnection(c) ==
  /\ pc = "selected" /\ listenSet /\ c \in Waiting
  /\ items' = Append(items, c)
  /\ alive' = alive \cup {c} /\ fds' = fds \cup {c}
  /\ que' = Append(que, NewMsg(c))
  /\ BeginScan(items') /\ listenSet' = FALSE
  /\ UNCHANGED <<run, in, rset, clientVars, wire, handled>>

StartScan ==
  /\ pc = "selected" /\ ~listenSet
  /\ BeginScan(items)
  /\ UNCHANGED <<run, items, que, objectVars, in, rset, listenSet, clientVars, wire,
                 handled>>

-----------------------------------------------------------------------------
(* One turn of processSockets() for the client under the cursor.           *)

Current == items[cur]

ContinueScan(list, from) ==
  /\ cur' = NextCursor(list, from)
  /\ pc' = IF cur' = NoCurrent THEN "messages" ELSE "scan"

ScanSkips ==
  /\ pc = "scan" /\ Current \notin rset
  /\ ContinueScan(items, cur)
  /\ UNCHANGED <<run, items, que, objectVars, in, rset, listenSet, clientVars, wire,
                 handled>>

(* readData() is given at most what the buffer has room for.               *)
ScanReads(k) ==
  /\ pc = "scan" /\ Current \in rset
  /\ k \in 1 .. Len(wire[Current]) /\ Len(in[Current]) + k <= MaxIn
  /\ in' = [in EXCEPT ![Current] = @ \o SubSeq(wire[Current], 1, k)]
  /\ wire' = [wire EXCEPT ![Current] = SubSeq(@, k + 1, Len(@))]
  /\ pc' = "extract"
  /\ UNCHANGED <<run, listVars, que, objectVars, rset, listenSet, clientVars, handled>>

(* Slip: what follows the line is forgotten.                               *)
ExtractAlone(n) ==
  /\ pc = "extract" /\ n \in 2 .. Len(in[Current])
  /\ in[Current][n] = LF /\ \A i \in 1 .. n - 1 : in[Current][i] # LF
  /\ que' = Append(que, Msg(Current, "line", SubSeq(in[Current], 1, n - 1)))
  /\ in' = [in EXCEPT ![Current] = << >>]
  /\ UNCHANGED <<pc, run, listVars, objectVars, rset, listenSet, clientVars, wire,
                 handled>>

(* extractPacket() finds the first LF: the line before it is a packet, and *)
(* what follows it moves to the front of the buffer.                       *)
ExtractLine(n) ==
  /\ pc = "extract" /\ n \in 2 .. Len(in[Current])
  /\ in[Current][n] = LF /\ \A i \in 1 .. n - 1 : in[Current][i] # LF
  /\ que' = Append(que, Msg(Current, "line", SubSeq(in[Current], 1, n - 1)))
  /\ in' = [in EXCEPT ![Current] = SubSeq(@, n + 1, Len(@))]
  /\ UNCHANGED <<pc, run, listVars, objectVars, rset, listenSet, clientVars, wire,
                 handled>>

(* A line of nothing but LF makes a packet without a buffer: getBuffer()   *)
(* throws, no clause of processSockets() catches it, and the server ends.  *)
ExtractBadLine ==
  /\ pc = "extract" /\ in[Current] # << >> /\ in[Current][1] = LF
  /\ pc' = "badLine"
  /\ UNCHANGED <<run, listVars, que, objectVars, in, rset, listenSet, clientVars,
                 wire, handled>>

ExtractNone ==
  /\ pc = "extract" /\ \A i \in DOMAIN in[Current] : in[Current][i] # LF
  /\ ContinueScan(items, cur)
  /\ UNCHANGED <<run, items, que, objectVars, in, rset, listenSet, clientVars, wire,
                 handled>>

(* Slip: the client stays in the list.                                     *)
ScanClosesListed ==
  /\ pc = "scan" /\ Current \in rset
  /\ \/ wire[Current] = << >> /\ peer[Current] = "gone"
     \/ Len(in[Current]) = MaxIn
  /\ que' = Append(que, ClosedMsg(Current))
  /\ fds' = fds \ {Current} /\ alive' = alive \ {Current}
  /\ in' = [in EXCEPT ![Current] = << >>]
  /\ wire' = [wire EXCEPT ![Current] = << >>]
  /\ ContinueScan(items, cur)
  /\ UNCHANGED <<run, items, rset, listenSet, clientVars, handled>>

(* recv() finds the connection closed, or has no room to read into.        *)
ScanCloses ==
  /\ pc = "scan" /\ Current \in rset
  /\ \/ wire[Current] = << >> /\ peer[Current] = "gone"
     \/ Len(in[Current]) = MaxIn
  /\ que' = Append(que, ClosedMsg(Current))
  /\ fds' = fds \ {Current} /\ alive' = alive \ {Current}
  /\ in' = [in EXCEPT ![Current] = << >>]
  /\ wire' = [wire EXCEPT ![Current] = << >>]
  /\ items' = Without(items, cur)
  /\ ContinueScan(items', CursorAfterRemovePrev(cur))
  /\ UNCHANGED <<run, rset, listenSet, clientVars, handled>>

-----------------------------------------------------------------------------
(* processMessages(), and what processSingleMsg() may call.  q is the      *)
(* queue at the time of the call.                                          *)

(* Slip: the head of the list is removed, whoever it is.                   *)
RemoveHead(c, q) ==
  /\ que' = Append(q, ClosedMsg(c))
  /\ items' = Without(items, 1) /\ cur' = NoCurrent
  /\ alive' = alive \ {items[1]} /\ fds' = fds \ {items[1]}
  /\ in' = [in EXCEPT ![items[1]] = << >>] /\ wire' = [wire EXCEPT ![items[1]] = << >>]

(* removeSocket(): pcClosed is posted, then the list is searched for the   *)
(* socket, with the list's own cursor.                                     *)
RemoveSocket(c, q) ==
  /\ que' = Append(q, ClosedMsg(c))
  /\ IF c \in Listed
       THEN LET i == CHOOSE i \in DOMAIN items : items[i] = c IN
            /\ items' = Without(items, i) /\ cur' = CursorAfterRemovePrev(i)
            /\ alive' = alive \ {c} /\ fds' = fds \ {c}
            /\ in' = [in EXCEPT ![c] = << >>] /\ wire' = [wire EXCEPT ![c] = << >>]
       ELSE cur' = NoCurrent /\ UNCHANGED <<items, objectVars, in, wire>>

Handle(m) == handled' = [handled EXCEPT ![m.sock] = Append(@, m)]

(* sendString() works, whether or not all of it is sent.                   *)
MsgHandled ==
  /\ pc = "messages" /\ que # << >>
  /\ Handle(Head(que)) /\ que' = Tail(que)
  /\ UNCHANGED <<pc, run, listVars, objectVars, in, rset, listenSet, clientVars, wire>>

MsgKill ==
  /\ pc = "messages" /\ que # << >> /\ "kill" \in AppActs
  /\ Handle(Head(que)) /\ que' = Tail(que)
  /\ run' = FALSE
  /\ UNCHANGED <<pc, listVars, objectVars, in, rset, listenSet, clientVars, wire>>

(* The socket of a message may have been deleted since it was queued; the  *)
(* application can only know from the pcClosed behind the message.         *)
MsgKick ==
  /\ pc = "messages" /\ que # << >> /\ "kick" \in AppActs
  /\ LET m == Head(que) IN
     /\ m.kind # "closed" /\ m.sock \in alive
     /\ Handle(m) /\ RemoveSocket(m.sock, Tail(que))
  /\ UNCHANGED <<pc, run, rset, listenSet, clientVars>>

(* send2All() stops at the first client that cannot be sent to: sendString *)
(* removes that client and throws again.                                   *)
SendFails(c) ==
  /\ pc = "messages" /\ que # << >>
  /\ c \in Listed /\ peer[c] = "gone"
  /\ LET m == Head(que) IN
     /\ \/ "answer" \in AppActs /\ m.kind # "closed" /\ m.sock = c
        \/ "broadcast" \in AppActs
     /\ Handle(m) /\ RemoveSocket(c, Tail(que))
  /\ pc' = IF AppCatches THEN pc ELSE "sendError"
  /\ UNCHANGED <<run, rset, listenSet, clientVars>>

MessagesDone ==
  /\ pc = "messages" /\ que = << >>
  /\ pc' = "loop"
  /\ UNCHANGED <<run, listVars, que, objectVars, in, rset, listenSet, clientVars,
                 wire, handled>>

(* ~TelnetServer() deletes the sockets; their descriptors stay open.       *)
Destroy ==
  /\ pc \in Terminal \ {"destroyed"}
  /\ pc' = "destroyed"
  /\ que' = << >> /\ items' = << >> /\ alive' = alive \ Listed
  /\ cur' = IF items = << >> THEN cur ELSE NoCurrent
  /\ UNCHANGED <<run, fds, in, rset, listenSet, clientVars, wire, handled>>

-----------------------------------------------------------------------------
ServerStep ==
  \/ StartServer \/ StopServer \/ Select \/ StartScan
  \/ (\E c \in Client : AcceptConnection(c) \/ SendFails(c))
  \/ ScanSkips \/ ScanCloses
  \/ (\E k \in 1 .. MaxIn : ScanReads(k) \/ ExtractLine(k))
  \/ ExtractBadLine \/ ExtractNone
  \/ MsgHandled \/ MsgKill \/ MsgKick \/ MessagesDone

Next == ClientStep \/ ServerStep \/ SelectError \/ Destroy

(* The operating system runs the server's thread; nothing makes clients    *)
(* act or select() fail.                                                   *)
Spec == Init /\ [][Next]_vars
FairSpec == Spec /\ WF_vars(ServerStep)

-----------------------------------------------------------------------------
(* Properties                                                              *)

Message == [sock : Client, kind : {"new", "line", "closed"}, text : Seq(Nat)]
TypeOK ==
  /\ pc \in Terminal \cup {"init", "loop", "selected", "scan", "extract", "messages"}
  /\ run \in BOOLEAN /\ listenSet \in BOOLEAN
  /\ items \in Seq(Client) /\ cur \in 0 .. Len(items)
  /\ que \in Seq(Message)
  /\ alive \subseteq Client /\ fds \subseteq Client /\ rset \subseteq Client
  /\ peer \in [Client -> {"absent", "open", "gone"}]
  /\ in \in [Client -> Seq(Nat)] /\ \A c \in Client : Len(in[c]) <= MaxIn
  /\ said \in [Client -> Seq(Nat)] /\ wire \in [Client -> Seq(Nat)]
  /\ handled \in [Client -> Seq(Message)]

(* What the application was told of a client, and then what waits for it:  *)
(* the client's story, between which other clients' messages wait.         *)
Story(c)     == handled[c] \o que
Of(s, c)     == {i \in DOMAIN s : s[i].sock = c}
LinesOf(s, c) == {i \in Of(s, c) : s[i].kind = "line"}

(* A text is where the client said it: Text are their own places, so this  *)
(* is all from text[1] to an LF.                                           *)
EndOf(text) == text[1] + Len(text)
IsLine(text, told) ==
  /\ text # << >> /\ EndOf(text) \in DOMAIN told /\ told[EndOf(text)] = LF
  /\ \A k \in DOMAIN text : text[k] = text[1] + k - 1 /\ told[text[k]] = text[k]

LinesTold(s, c, told) ==
  /\ \A i \in LinesOf(s, c) : IsLine(s[i].text, told)
  /\ \A i \in LinesOf(s, c) :
       \/ s[i].text[1] = 1
       \/ \E j \in LinesOf(s, c) : j < i /\ s[i].text[1] = EndOf(s[j].text) + 1
  /\ \A i, j \in LinesOf(s, c) : i < j => EndOf(s[i].text) < s[j].text[1]

(* Every line is told once, whole and in order, however TCP cuts it: each  *)
(* begins where the one before it ended.  What has not ended stays: the    *)
(* buffer and the connection of a listed client hold what it said since    *)
(* the last line told, and no whole line is left when the scan goes on.    *)
Begun(c) == Len(said[c]) - Len(in[c]) - Len(wire[c])
LinesKept ==
  \A c \in Client : LET s == Story(c) IN
    /\ LinesTold(s, c, said[c])
    /\ c \in Listed =>
         /\ in[c] \o wire[c] = SubSeq(said[c], Begun(c) + 1, Len(said[c]))
         /\ \A i \in LinesOf(s, c) : EndOf(s[i].text) <= Begun(c)
         /\ Begun(c) = 0 \/ \E i \in LinesOf(s, c) : EndOf(s[i].text) = Begun(c)
    /\ pc \notin Terminal \cup {"extract"} => \A i \in DOMAIN in[c] : in[c][i] # LF

(* A client's story begins with pcNewConnection and, once the client is    *)
(* out of the list, whatever removed it, ends with one pcClosed, also      *)
(* where messages wait whose socket was deleted.  Its socket is allocated  *)
(* and open while it is listed, and only then.                             *)
StoryEndsOnce ==
  pc # "destroyed" =>
    /\ alive = Listed /\ fds = Listed
    /\ \A c \in Client : LET s == Story(c) IN
         /\ \A i \in Of(s, c) :
              /\ s[i].kind = "new" <=> \A j \in Of(s, c) : i <= j
              /\ s[i].kind = "closed" => \A j \in Of(s, c) : j <= i
         /\ Of(s, c) # {} => (c \notin Listed <=> \E i \in Of(s, c) : s[i] = ClosedMsg(c))

(* Whoever is connected is served: what it sends is read and every message *)
(* about it handled, and when it leaves, it is removed and that is told.   *)
Due(c) == wire[c] # << >> \/ peer[c] = "gone"
Served ==
  \A c \in Client :
    (c \in fds /\ Due(c)) ~>
      (pc \in Terminal \/ (Of(que, c) = {} /\ (c \in fds => ~Due(c))))
=============================================================================
