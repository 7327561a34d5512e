----------------------------- MODULE JavaTelnet -----------------------------
(***************************************************************************)
(* The Java port's telnet servers.  One thread selects, accepts and reads; *)
(* whole lines become messages.  In TelnetServer the same thread handles   *)
(* them; in TelnetServerThreaded a pool of TelnetServerHandler threads     *)
(* takes them off one queue.  The methods of the server that touch queue   *)
(* and map are synchronized, but a handler closes and writes to sockets    *)
(* that the selecting thread and the other handlers use at the same time.  *)
(*                                                                         *)
(* A line is a number, in the order its client sends it, or Empty, an LF   *)
(* with nothing before it, not even CR; how TCP cuts lines is module       *)
(* Telnet's.                                                               *)
(***************************************************************************)
EXTENDS Integers, Sequences, FiniteSets

CONSTANTS
  Client,      \* the connections clients may make
  Pool,        \* the handlers createHandlers() makes
  MaxLines,    \* bound: lines the clients send in all
  Acts         \* what processing a message does: subset of Act

Act == {"reply", "printAll", "throw", "stop"}

ASSUME JavaTelnetConstants == MaxLines \in Nat /\ Acts \subseteq Act

VARIABLES
  kind,      \* "pool": TelnetServerThreaded; "single": TelnetServer
  pc,        \* where the selecting thread is
  running,   \* the AtomicBoolean
  ready,     \* the selected keys not yet looked at
  key,       \* the client whose key was found valid
  map,       \* serverSockMap
  open,      \* channels that are open; their keys are valid
  que,       \* messageQueue
  monitor,   \* who is inside printAll(), and holds the server's monitor
  hpc,       \* where each handler is
  isRunning, \* each handler's flag
  msg,       \* the message each thread processes
  todo,      \* the sockets it has yet to write to
  wbuf,      \* each socket's writeBuffer: the thread that filled it, or Null
  raced,     \* sockets on which two threads were in sendString() at once
  owed,      \* texts each socket was given to send and has not written
  peer, sent, wire,  \* each client: its state, lines sent, lines not yet read
  read, taken        \* lines read of it and made messages; messages begun

mainVars    == <<kind, pc, ready, key>>
handlerVars == <<hpc, isRunning>>
workVars    == <<monitor, msg, todo>>
sendVars    == <<wbuf, raced, owed>>
clientVars  == <<peer, sent, wire>>
vars == <<mainVars, running, map, open, que, handlerVars, workVars, sendVars,
          clientVars, read, taken>>

Empty   == 0
Line    == 1 .. MaxLines
Main    == "main"
Null    == "null"
Worker  == Pool \cup {Main}
NoMsg   == <<Null, Empty>>

ASSUME HandlersKnown == IsFiniteSet(Pool) /\ Main \notin Pool /\ Null \notin Pool

Init ==
  /\ kind \in {"pool", "single"}
  /\ pc = "init" /\ running = FALSE /\ ready = {} /\ key = Null
  /\ map = {} /\ open = {} /\ que = << >> /\ monitor = Null
  /\ hpc = [h \in Pool |-> "none"] /\ isRunning = [h \in Pool |-> FALSE]
  /\ msg = [w \in Worker |-> NoMsg] /\ todo = [w \in Worker |-> {}]
  /\ wbuf = [c \in Client |-> Null] /\ raced = {}
  /\ owed = [c \in Client |-> 0]
  /\ peer = [c \in Client |-> "absent"] /\ sent = [c \in Client |-> 0]
  /\ wire = [c \in Client |-> << >>]
  /\ read = [c \in Client |-> << >>] /\ taken = [c \in Client |-> << >>]

-----------------------------------------------------------------------------
(* Clients.                                                                *)

Connect(c) ==
  /\ peer[c] = "absent" /\ pc # "init"
  /\ peer' = [peer EXCEPT ![c] = "waiting"]
  /\ UNCHANGED <<sent, wire>>

Say(c) ==
  /\ peer[c] = "up"
  /\ Cardinality({m \in Client \X Line : m[2] <= sent[m[1]]}) < MaxLines
  /\ sent' = [sent EXCEPT ![c] = @ + 1]
  /\ \E l \in {Empty, sent'[c]} : wire' = [wire EXCEPT ![c] = Append(@, l)]
  /\ UNCHANGED peer

Hangup(c) ==
  /\ peer[c] = "up"
  /\ peer' = [peer EXCEPT ![c] = "gone"]
  /\ UNCHANGED <<sent, wire>>

ClientStep ==
  /\ \E c \in Client : Connect(c) \/ Say(c) \/ Hangup(c)
  /\ UNCHANGED <<mainVars, running, map, open, que, handlerVars, workVars,
                 sendVars, read, taken>>

-----------------------------------------------------------------------------
(* The selecting thread: run() of TelnetServer, runServer() of the pool.   *)

Elsewhere == <<handlerVars, workVars, sendVars, clientVars, taken>>

Run ==
  /\ pc = "init"
  /\ running' = TRUE
  /\ pc' = IF kind = "pool" THEN "create" ELSE "select"
  /\ UNCHANGED <<kind, ready, key, map, open, que, read, Elsewhere>>

(* handler.start(): its thread exists and has not run yet.                 *)
CreateHandler(h) ==
  /\ pc = "create" /\ hpc[h] = "none"
  /\ hpc' = [hpc EXCEPT ![h] = "new"]
  /\ pc' = IF \E g \in Pool \ {h} : hpc[g] = "none" THEN pc ELSE "select"
  /\ UNCHANGED <<kind, running, ready, key, map, open, que, isRunning, workVars,
                 sendVars, clientVars, read, taken>>

Readable(c) == c \in open /\ (wire[c] # << >> \/ peer[c] = "gone")
Arrived(c)  == peer[c] = "waiting"

Select ==
  /\ pc = "select" /\ running
  /\ ready' = {c \in Client : Readable(c) \/ Arrived(c)}
  /\ ready' # {} /\ pc' = "keys"
  /\ UNCHANGED <<kind, running, key, map, open, que, read, Elsewhere>>

LoopEnds ==
  /\ pc = "select" /\ ~running
  /\ pc' = IF kind = "pool" THEN "stopping" ELSE "ended"
  /\ UNCHANGED <<kind, running, ready, key, map, open, que, read, Elsewhere>>

KeysDone ==
  /\ pc = "keys" /\ ready = {}
  /\ pc' = IF kind = "single" /\ que # << >> THEN "messages" ELSE "select"
  /\ UNCHANGED <<kind, running, ready, key, map, open, que, read, Elsewhere>>

Accept(c) ==
  /\ pc = "keys" /\ c \in ready /\ Arrived(c) /\ monitor = Null
  /\ ready' = ready \ {c}
  /\ map' = map \cup {c} /\ open' = open \cup {c}
  /\ peer' = [peer EXCEPT ![c] = "up"]
  /\ UNCHANGED <<kind, pc, running, key, que, handlerVars, workVars, sendVars,
                 sent, wire, read, taken>>

(* key.isValid(): a handler may have closed the channel meanwhile.         *)
CheckKey(c) ==
  /\ pc = "keys" /\ c \in ready /\ ~Arrived(c)
  /\ ready' = ready \ {c}
  /\ IF c \in open THEN key' = c /\ pc' = "key" ELSE UNCHANGED <<key, pc>>
  /\ UNCHANGED <<kind, running, map, open, que, read, Elsewhere>>

(* An exception leaves the loop over the keys, is printed, and ends it all.*)
Breaks == running' = FALSE /\ pc' = "select" /\ ready' = {} /\ key' = Null

(* isReadable() of a key that was valid a moment ago.                      *)
KeyCancelled ==
  /\ pc = "key" /\ key \notin open
  /\ Breaks
  /\ UNCHANGED <<kind, map, open, que, read, Elsewhere>>

(* The channel is closed a little later: read() finds no socket in the map,*)
(* or an exception in readData(), and goes on.                             *)
ReadClosed ==
  /\ pc = "key" /\ key \notin open
  /\ pc' = "keys" /\ key' = Null
  /\ UNCHANGED <<kind, running, ready, map, open, que, read, Elsewhere>>

(* The end of the connection: the channel is closed, and the socket stays  *)
(* in the map unless connectionClosed() takes it out.                      *)
ReadEnd ==
  /\ pc = "key" /\ key \in open /\ wire[key] = << >> /\ key \in map
  /\ open' = open \ {key}
  /\ pc' = "keys" /\ key' = Null
  /\ UNCHANGED <<kind, running, ready, map, que, read, Elsewhere>>

Msgs(c, k) == [i \in 1 .. k |-> <<c, wire[c][i]>>]

(* Slip: the newest line goes first.                                       *)
ReadLinesFirst(k) ==
  /\ pc = "key" /\ key \in open /\ key \in map /\ monitor = Null
  /\ k \in 1 .. Len(wire[key]) /\ \A i \in 1 .. k : wire[key][i] # Empty
  /\ que' = Msgs(key, k) \o que
  /\ read' = [read EXCEPT ![key] = @ \o SubSeq(wire[key], 1, k)]
  /\ wire' = [wire EXCEPT ![key] = SubSeq(@, k + 1, Len(@))]
  /\ pc' = "keys" /\ key' = Null
  /\ UNCHANGED <<kind, running, ready, map, open, handlerVars, workVars, sendVars,
                 peer, sent, taken>>

(* read(): every line of what was read is added to the queue.              *)
ReadLines(k) ==
  /\ pc = "key" /\ key \in open /\ key \in map /\ monitor = Null
  /\ k \in 1 .. Len(wire[key]) /\ \A i \in 1 .. k : wire[key][i] # Empty
  /\ que' = que \o Msgs(key, k)
  /\ read' = [read EXCEPT ![key] = @ \o SubSeq(wire[key], 1, k)]
  /\ wire' = [wire EXCEPT ![key] = SubSeq(@, k + 1, Len(@))]
  /\ pc' = "keys" /\ key' = Null
  /\ UNCHANGED <<kind, running, ready, map, open, handlerVars, workVars, sendVars,
                 peer, sent, taken>>

(* parse() makes a string of length -1 of an empty line, which throws.     *)
ReadEmpty(k) ==
  /\ pc = "key" /\ key \in open /\ key \in map /\ monitor = Null
  /\ k \in 1 .. Len(wire[key]) /\ wire[key][k] = Empty
  /\ \A i \in 1 .. k - 1 : wire[key][i] # Empty
  /\ que' = que \o Msgs(key, k - 1)
  /\ read' = [read EXCEPT ![key] = @ \o SubSeq(wire[key], 1, k - 1)]
  /\ wire' = [wire EXCEPT ![key] = SubSeq(@, k + 1, Len(@))]
  /\ Breaks
  /\ UNCHANGED <<kind, map, open, handlerVars, workVars, sendVars, peer, sent, taken>>

(* Slip: one handler is told to stop.                                      *)
StopHandlersOne ==
  /\ pc = "stopping"
  /\ \E g \in Pool : isRunning' = [isRunning EXCEPT ![g] = FALSE]
  /\ pc' = "waiting"
  /\ UNCHANGED <<kind, running, ready, key, map, open, que, hpc, workVars, sendVars,
                 clientVars, read, taken>>

(* stopHandler() for each, then waitToFinish() for each.                   *)
StopHandlers ==
  /\ pc = "stopping"
  /\ isRunning' = [h \in Pool |-> FALSE]
  /\ pc' = "waiting"
  /\ UNCHANGED <<kind, running, ready, key, map, open, que, hpc, workVars, sendVars,
                 clientVars, read, taken>>

HandlersFinished ==
  /\ pc = "waiting" /\ \A h \in Pool : hpc[h] = "stopped"
  /\ pc' = "ended"
  /\ UNCHANGED <<kind, running, ready, key, map, open, que, read, Elsewhere>>

-----------------------------------------------------------------------------
(* A handler: run() of TelnetServerHandler.                                *)

HandlerBegins(h) ==
  /\ hpc[h] = "new"
  /\ isRunning' = [isRunning EXCEPT ![h] = TRUE]
  /\ hpc' = [hpc EXCEPT ![h] = "loop"]
  /\ UNCHANGED <<mainVars, running, map, open, que, workVars, sendVars, clientVars,
                 read, taken>>

HandlerEnds(h) ==
  /\ hpc[h] = "loop" /\ ~isRunning[h]
  /\ hpc' = [hpc EXCEPT ![h] = "stopped"]
  /\ UNCHANGED <<mainVars, running, map, open, que, isRunning, workVars, sendVars,
                 clientVars, read, taken>>

Begins(w) ==
  /\ msg' = [msg EXCEPT ![w] = Head(que)]
  /\ taken' = [taken EXCEPT ![Head(que)[1]] = Append(@, Head(que)[2])]

(* getMessage() takes the oldest message, under the server's monitor.      *)
TakeMessage(h) ==
  /\ hpc[h] = "loop" /\ isRunning[h] /\ running /\ que # << >> /\ monitor = Null
  /\ Begins(h) /\ que' = Tail(que)
  /\ hpc' = [hpc EXCEPT ![h] = "work"]
  /\ UNCHANGED <<mainVars, running, map, open, isRunning, monitor, todo, sendVars,
                 clientVars, read>>

(* processMessages(): the message stays in the queue while it is handled.  *)
TakeFirst ==
  /\ pc = "messages" /\ que # << >>
  /\ Begins(Main)
  /\ pc' = "work"
  /\ UNCHANGED <<kind, running, ready, key, map, open, que, handlerVars, monitor,
                 todo, sendVars, clientVars, read>>

MessagesDone ==
  /\ pc = "messages" /\ que = << >>
  /\ pc' = "select"
  /\ UNCHANGED <<kind, running, ready, key, map, open, que, read, Elsewhere>>

-----------------------------------------------------------------------------
(* What processing a message does, by whichever thread w processes it.     *)

At(w, where) == IF w = Main THEN pc = where ELSE hpc[w] = where
Goes(w, where) ==
  IF w = Main THEN pc' = where /\ UNCHANGED hpc
              ELSE hpc' = [hpc EXCEPT ![w] = where] /\ UNCHANGED pc

(* The message is done: the handler turns to the next one, and             *)
(* processMessages() takes it off the queue.                               *)
Done(w) ==
  /\ msg' = [msg EXCEPT ![w] = NoMsg] /\ todo' = [todo EXCEPT ![w] = {}]
  /\ monitor' = IF monitor = w THEN Null ELSE monitor
  /\ que' = IF w = Main THEN Tail(que) ELSE que
  /\ Goes(w, IF w = Main THEN "messages" ELSE "loop")

(* An exception: a handler closes the socket of its message; the thread of *)
(* TelnetServer ends, and leaves the message where it is.                  *)
Throws(w) ==
  /\ msg' = [msg EXCEPT ![w] = NoMsg] /\ todo' = [todo EXCEPT ![w] = {}]
  /\ monitor' = IF monitor = w THEN Null ELSE monitor
  /\ UNCHANGED que
  /\ IF w = Main
       THEN running' = FALSE /\ Goes(w, "select") /\ UNCHANGED <<map, open>>
       ELSE /\ monitor \in {Null, w}
            /\ map' = map \ {msg[w][1]} /\ open' = open \ {msg[w][1]}
            /\ Goes(w, "loop") /\ UNCHANGED running

Others == <<kind, ready, key, isRunning, clientVars, read, taken>>

Ignores(w) ==
  /\ At(w, "work") /\ Done(w)
  /\ UNCHANGED <<running, map, open, sendVars, Others>>

Fails(w) ==
  /\ "throw" \in Acts /\ At(w, "work") /\ Throws(w)
  /\ UNCHANGED <<sendVars, Others>>

StopServer(w) ==
  /\ "stop" \in Acts /\ At(w, "work") /\ monitor = Null /\ running
  /\ running' = FALSE /\ Done(w)
  /\ UNCHANGED <<map, open, sendVars, Others>>

(* print() to the client that sent the line, without the monitor.          *)
Replies(w) ==
  /\ "reply" \in Acts /\ At(w, "work")
  /\ todo' = [todo EXCEPT ![w] = {msg[w][1]}]
  /\ Goes(w, "send")
  /\ UNCHANGED <<running, map, open, que, monitor, msg, sendVars, Others>>

(* printAll() to every socket of the map, with the monitor.                *)
PrintsAll(w) ==
  /\ "printAll" \in Acts /\ At(w, "work") /\ map # {}
  /\ kind = "pool" => monitor = Null /\ running
  /\ todo' = [todo EXCEPT ![w] = map]
  /\ monitor' = w
  /\ Goes(w, "send")
  /\ UNCHANGED <<running, map, open, que, msg, sendVars, Others>>

(* sendString(): addPacketBuffer() fills the socket's writeBuffer,         *)
(* sendBuffer() writes what it finds there and then forgets it.  A closed  *)
(* channel is left by the exception; printAll() goes on to the next.       *)
InSend(c) == {w \in Worker : c \in todo[w] /\ (At(w, "write") \/ At(w, "forget"))}
First(w) == CHOOSE c \in todo[w] : TRUE

Fill(w) ==
  /\ At(w, "send") /\ todo[w] # {}
  /\ LET c == First(w) IN
     /\ wbuf' = [wbuf EXCEPT ![c] = w]
     /\ owed' = [owed EXCEPT ![c] = @ + 1]
     /\ raced' = IF \E v \in InSend(c) : First(v) = c THEN raced \cup {c} ELSE raced
  /\ Goes(w, "write")
  /\ UNCHANGED <<running, map, open, que, workVars, Others>>

(* Slip: what was there is not sent.                                       *)
WriteNothing(w) ==
  /\ At(w, "write") /\ wbuf[First(w)] # Null /\ First(w) \in open
  /\ Goes(w, "forget")
  /\ UNCHANGED <<running, map, open, que, workVars, sendVars, Others>>

Write(w) ==
  /\ At(w, "write") /\ wbuf[First(w)] # Null /\ First(w) \in open
  /\ owed' = [owed EXCEPT ![First(w)] = @ - 1]
  /\ Goes(w, "forget")
  /\ UNCHANGED <<running, map, open, que, workVars, wbuf, raced, Others>>

WriteClosed(w) ==
  /\ At(w, "write") /\ wbuf[First(w)] # Null /\ First(w) \notin open
  /\ IF monitor = w
       THEN /\ todo' = [todo EXCEPT ![w] = @ \ {First(w)}]
            /\ Goes(w, "send")
            /\ UNCHANGED <<running, map, open, que, monitor, msg>>
       ELSE Throws(w)
  /\ UNCHANGED <<sendVars, Others>>

(* Another thread forgot the buffer: NullPointerException, here or in      *)
(* printAll(), which does not catch it.                                    *)
WriteNull(w) ==
  /\ At(w, "write") /\ wbuf[First(w)] = Null
  /\ Throws(w)
  /\ UNCHANGED <<sendVars, Others>>

Forget(w) ==
  /\ At(w, "forget")
  /\ wbuf' = [wbuf EXCEPT ![First(w)] = Null]
  /\ todo' = [todo EXCEPT ![w] = @ \ {First(w)}]
  /\ Goes(w, "send")
  /\ UNCHANGED <<running, map, open, que, monitor, msg, raced, owed, Others>>

Sent(w) ==
  /\ At(w, "send") /\ todo[w] = {} /\ Done(w)
  /\ UNCHANGED <<running, map, open, sendVars, Others>>

-----------------------------------------------------------------------------
(* stopServer() from any other thread.                                     *)
Stop ==
  /\ "stop" \in Acts /\ running /\ (kind = "pool" => monitor = Null)
  /\ running' = FALSE
  /\ UNCHANGED <<mainVars, map, open, que, read, Elsewhere>>

MainStep ==
  \/ Run \/ (\E h \in Pool : CreateHandler(h)) \/ Select \/ LoopEnds \/ KeysDone
  \/ (\E c \in Client : Accept(c) \/ CheckKey(c))
  \/ KeyCancelled \/ ReadClosed \/ ReadEnd \/ (\E k \in 1 .. MaxLines : ReadLines(k) \/ ReadEmpty(k))
  \/ StopHandlers \/ HandlersFinished \/ TakeFirst \/ MessagesDone

HandlerStep(h) == HandlerBegins(h) \/ HandlerEnds(h) \/ TakeMessage(h)

WorkStep(w) ==
  \/ Ignores(w) \/ Fails(w) \/ StopServer(w) \/ Replies(w) \/ PrintsAll(w)
  \/ Fill(w) \/ Write(w) \/ WriteClosed(w) \/ WriteNull(w) \/ Forget(w) \/ Sent(w)

Next ==
  \/ ClientStep \/ MainStep \/ Stop
  \/ (\E h \in Pool : HandlerStep(h)) \/ (\E w \in Worker : WorkStep(w))

(* Every thread runs on, and processing a message takes no time without    *)
(* end; the clients and Stop need not do anything.  The monitor need not   *)
(* be fair: only a finite number of messages compete for it.               *)
Spec == Init /\ [][Next]_vars
FairSpec == /\ Spec /\ WF_vars(MainStep)
            /\ \A h \in Pool : WF_vars(HandlerStep(h))
            /\ \A w \in Worker : WF_vars(WorkStep(w))

-----------------------------------------------------------------------------
(* Properties                                                              *)

(* The type invariant.  A thread that is past taking a message has one.    *)
Busy == {"work", "send", "write", "forget"}
TypeOK ==
  /\ kind \in {"pool", "single"} /\ running \in BOOLEAN
  /\ pc \in {"init", "create", "select", "keys", "key", "messages", "stopping",
             "waiting", "ended"} \cup Busy
  /\ hpc \in [Pool -> {"none", "new", "loop", "stopped"} \cup Busy]
  /\ isRunning \in [Pool -> BOOLEAN]
  /\ ready \subseteq Client /\ map \subseteq Client /\ open \subseteq Client
  /\ key \in Client \cup {Null} /\ (pc = "key" => key \in Client)
  /\ que \in Seq(Client \X Nat)
  /\ msg \in [Worker -> (Client \X Nat) \cup {NoMsg}]
  /\ \A w \in Worker : At(w, "work") => msg[w] \in Client \X Nat
  /\ todo \in [Worker -> SUBSET Client]
  /\ \A w \in Worker : At(w, "write") \/ At(w, "forget") => todo[w] # {}
  /\ monitor \in Worker \cup {Null}
  /\ wbuf \in [Client -> Worker \cup {Null}] /\ raced \subseteq Client
  /\ owed \in [Client -> Int]
  /\ peer \in [Client -> {"absent", "waiting", "up", "gone"}]
  /\ sent \in [Client -> Nat] /\ wire \in [Client -> Seq(Nat)]
  /\ read \in [Client -> Seq(Nat)] /\ taken \in [Client -> Seq(Nat)]

(* Messages of a client that wait, or that a thread has begun, are the     *)
(* lines read from it, which are the ones it sent first: each once, begun  *)
(* in the order they were sent, however many handlers take them.           *)
Waits(c) == {que[i][2] : i \in {j \in DOMAIN que : que[j][1] = c}}
BegunInOrder ==
  \A c \in Client :
    /\ \A i \in DOMAIN read[c] : read[c][i] = i
    /\ \A i \in DOMAIN taken[c] : taken[c][i] = i
    /\ Len(taken[c]) <= Len(read[c])
    /\ \A i, j \in DOMAIN que :
         i < j /\ que[i][1] = c /\ que[j][1] = c => que[i][2] < que[j][2]
    /\ kind = "pool" \/ pc = "messages" =>
         Waits(c) = Len(taken[c]) + 1 .. Len(read[c])

(* A text is sent whole and once to every open socket, unless two threads  *)
(* wrote to that socket at the same time.                                  *)
WritingTo(c) == {w \in Worker : At(w, "write") /\ todo[w] # {} /\ First(w) = c}
TextsSentOnce == \A c \in open \ raced : owed[c] = Cardinality(WritingTo(c))

(* "Tells the server to end and exit" (TelnetServerThreaded.java): it does,*)
(* also where handlers are in the middle of a message, if every handler    *)
(* had begun when the server came to stop them.                            *)
Begun == \A h \in Pool : hpc[h] \notin {"none", "new"}
StopsOnceBegun ==
  (~running /\ IF kind = "pool" THEN pc = "stopping" /\ Begun ELSE pc # "init")
    ~> (pc = "ended")

(* A handler that is told to stop before its thread first runs sets        *)
(* isRunning afterwards, and the server waits for it without end.          *)
StopEnds == (pc # "init" /\ ~running) ~> (pc = "ended")
=============================================================================
