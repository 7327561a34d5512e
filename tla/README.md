# ssobjects: TLA+ models, checks and proofs

ssobjects is a C++ library (with a partial Java port in `java/`) for TCP servers
and clients: a select() loop that accepts connections, cuts the byte streams
into packets or lines, queues them as messages and hands them to the
application.  This directory holds TLA+ modules that model the library, TLC
configurations that check them on small instances, and proofs that hold for
every instance.

## The system

| component | state | operations | correct when |
|---|---|---|---|
| SimpleServer (`simpleserver.cpp`) | `m_listClients` and its cursor, `m_que`, `m_bRun`, the fd sets | the loop `ThreadHandlerProc`: `getMaxFD`, select, `processSockets`, `acceptConnection`, `processMessages`, `idle`; from outside: `startServer`, `killServer`, `sendPacket`, `send2All`, `removeSocket`, destruction | every listed client exists; messages of a client come in order; a leaver is closed, freed, announced once; everybody is served; the server stops when told |
| ServerSocket (`serversocket.cpp`) | two byte buffers with a pointer and a count each | `readData`, `extractPacket`, `sendPacket`, `addPacketBuffer`, `sendBuffer`, `rotateBuffer` | framing survives any cutting of the stream; no buffer is overrun; no output byte is lost |
| LinkedList (`linkedlist.h`) | nodes, head, tail, one current pointer, a count | adding and removing at both ends and at the cursor, traversal, purge, copies | pointers and count agree; the cursor stays on a live entry; a removal during a traversal neither skips nor repeats |
| PacketMessageQue (`packetmessageque.cpp`) | a LinkedList, a Lock, an Event | `add`, `get`, `isEmpty`, `purge` | FIFO, under several threads |
| RWLock (`threadutils.cpp`) | two counters, a mutex, a condition variable | `rlock`, `runlock`, `wlock`, `wunlock` | readers-writer exclusion, no lost wakeup |
| CMclEvent (`mclevent.cpp`) | a flag, two mutexes, a condition variable | `Wait`, `Set`, `Reset` | a signal wakes a waiter, once |
| SimpleManager, ThreadHandler, CMclThread (`simplemanager.cpp`, `threadutils.cpp`, `mclthread.cpp`) | a run flag and a thread each; lists of per-client servers and of their sockets | `startServer`, `acceptConnection`, `start`, `stop`, `killServer`, destruction | a handler is given its client's packets in order; nothing is deleted twice; a killed handler ends |
| TelnetServer, TelnetServerSocket (`telnetserver*.cpp`) | as SimpleServer, with lines of text | as SimpleServer, `print`, `println`, `removeSocket` | every line is told once, whole and in order; a client's story has one end |
| ClientConnector, AsyncClientConnector, BufferedSocket | a socket object and its buffers; for the asynchronous one a queue | `connect`, `reconnect`, `close`, `idle`, `getMsg`, `sendPacket`, `recvPacket`, destruction | the packets of each connection come in order, pcClosed behind them; no descriptor is left open |
| SocketInstance, TelnetSocket, HttpBlockingSocket, TelnetConnector | a descriptor; for the readers of lines a buffer | create, accept, recv, send, close; `readLine`, `readHttpHeaderLine`, `readResponse` | no byte of a line is lost or repeated |
| PacketBuffer, NetFile (`packetbuffer.cpp`) | a header and a buffer with a position; a file on its way | append, read, rewind, resize, copy, byte order; `transmit`, `receive` | nothing outside the buffer is touched; a received file is one that was sent |
| WebSocketInstance (`websocketinstance.cpp`) | frame buffers | handshake, reading and writing of frames | framing, masking |
| CStr (`cstr.cpp`) | memory, a length | assignment, append, cut, trim, replace | the length, the characters and the terminator agree |
| the Java port (`java/`) | a selector loop, handler threads sharing a queue and a map of clients | accept, read, handlers, `printAll`, `stopServer` | no line is lost, doubled or begun out of order; the server stops |

How they interact: a SimpleServer owns a LinkedList of ServerSockets and a
PacketMessageQue; a message carries a pointer to the ServerSocket it is about,
so the queue refers to objects that the scan of the list may delete.  The list
has one cursor, which every loop over the clients uses: the scan in
`processSockets`, `getMaxFD`, `send2All`, `removeSocket`.  The application is
called back by `processSingleMsg` and `idle`, and calls `sendPacket`,
`send2All`, `removeSocket` and `killServer` from there.  In the threaded variant
a SimpleManager accepts, and starts a SimpleServer thread for each client; the
client's socket is then in two lists.  A connector is the other end of a
connection: its packets are cut by the same buffers as a server's.

What is hard: clients come, send, leave and are cut off between any two steps
of the server; a client is removed while a loop is walking the list, with
messages about it still queued; packets arrive in arbitrary pieces and leave in
others; sends fail halfway; threads are started, stopped and deleted by one
another; locks and events are built from condition variables that may wake up
for nothing.  `PROJECT.json` lists each hazard at its line.

## The modules

| module | models | how |
|---|---|---|
| `CursorList` | LinkedList as its callers see it | a sequence and a cursor, as operators |
| `SimpleServer` | the single-threaded server and its clients | one action per branch of the loop body; `pc` is the place in the loop |
| `ServerSocket` | the two buffers of one connection | counts of bytes, pointers as offsets, packets as the places where they end |
| `LinkedList` | the nodes and pointers | one action per method; a heap of nodes |
| `CursorListSpec` | what LinkedList promises | the operators of `CursorList` as a state machine |
| `Telnet` | TelnetServer, TelnetServerSocket and their clients | as `SimpleServer`, with the text of each client and its input buffer |
| `Manager` | SimpleManager, a handler server and a thread per client | one action per step another thread can come between |
| `Connector` | ClientConnector and AsyncClientConnector, with BufferedSocket and the ServerSocket under them | one action per call and outcome; attempts to connect are numbered |
| `JavaTelnet` | the Java TelnetServer and TelnetServerThreaded | the selecting thread and each handler, at the places where they touch shared state |
| `PacketBuffer`, `NetFile` | packets; files sent as packets | a packet is a record and the operations are functions of it; the connection is a sequence of packets |
| `LineReader` | the three readers of lines | one action per recv() and per outcome of a call |
| `WebSocket` | frames in both directions | a byte is the number of its frame and its place in it |
| `CStr` | strings | memory as a sequence of characters, one action per method |
| `Codecs` | these five modules, each driven on its own | `part` names the one a behaviour is about |
| `RWLock` | the lock | one action per section that holds the mutex |
| `ReadersWriter` | what a readers-writer lock promises | four actions on the standing of each thread |
| `MclEvent` | the event | one action per section that holds `m_mutexSignal` |
| `MessageQue` | PacketMessageQue and the numbers of its messages | one action per access to what a lock protects |
| `Fifo` | what PacketMessageQue promises | put, take and clear, on a sequence |
| `IdleTimer` | when the loop of a server calls `idle()` | the readings of the clock, in 32-bit arithmetic |
| `Utilities` | the four modules `RWLock`, `MclEvent`, `MessageQue`, `IdleTimer`, each driven on its own | `part` names the one a behaviour is about |
| `MC*` | instances for TLC | constants and symmetry |
| `*_proofs` | theorems; `Objects_proofs` has those of `Utilities` and `ServerSocket` | see below |

`SimpleServer`, `Telnet` and `LinkedList` rest on `CursorList`: the servers use
its operators in place of the list, and `LinkedList` is shown to implement them
(`ImplementsCursorList`).  `NetFile` uses the packets of `PacketBuffer`.  Where
the servers, the manager and the connectors use a queue, they use it as the sequence
that `MessageQue` is shown to implement.

**SimpleServer.**  A client is one connection together with the ServerSocket
and the descriptor the server has for it.  The actions and the code:

- `StartServer`, `StopServer`, `Select`, `SelectError`, `NothingToDo`,
  `EndTurn`: `startServer()` and the loop of `ThreadHandlerProc()`.  `Select`
  includes `getMaxFD()`, which leaves the cursor past the end.  `m_wset` is
  built, and not passed to select(), as in the code.
- `AcceptConnection`, `AcceptFails`, `StartScan`: the beginning of
  `processSockets()` with `acceptConnection()`.
- `ScanServed`, `ScanClosed`, `ScanInvalid`, `ScanSendFails`: one turn of the
  loop over the clients.  The last three are the two catch clauses, reached from
  `readData()`, `extractPacket()` and `sendBuffer()`.  A read delivers the
  first k packets that arrived, for any k: how that comes about from bytes is
  `ServerSocket`'s matter.
- `Msg...`, `Send2AllTurn`, `MessagesDone`: `processMessages()` and
  what an application does in `processSingleMsg()`: nothing, reply, broadcast,
  kick the sender by `removeSocket()`, or stop the server.
- `IdleBroadcast`, `IdleKick`: the same from `idle()`.
- `Destroy`: the destructor.
- `KillServer`: `killServer()` from a signal handler, at any moment.
- `Connect`, `Send`, `Finish`, `Reset`: the clients, which act between any two
  steps of the server.

The history variable `handled` records what the application was told about
each client.  Left out: the contents of packets, the addresses, `canBind()`,
`getTicks()`, and the descriptors' numbers.  idle() may be due at any turn here; when
it is, is `IdleTimer`'s matter.

**ServerSocket.**  Sizes are numbers of bytes, and `ends` lists where the
packets sent and not yet extracted end, counted from the beginning of the
input buffer.  The variable belongs to the peer; the code sees of it only the size
in the first header, and only once the header is in the buffer.  A header may
declare a size that is too large or would wrap; sums are taken modulo `Unsigned`
where the code's may wrap.

**LinkedList.**  `order` and `lost` are history variables: the nodes in the
order they should be linked, and whether the node `m_pCurrent` was on has been
deleted by `removeHead()` or `removeTail()`.  No action reads `order` except
to update it.  Callers do not use the cursor while it is lost; the callers in
the library do not (`PacketMessageQue` starts again with `getHead()`).  `purge()` and
`empty()` are one action per node; to the abstract list they happen at once.

**Telnet.**  The loop is SimpleServer's, so its actions have the same shape.
What differs is kept: the input buffer holds text; `ScanReads` is `readData()`, and each
call of `extractPacket()` that follows is an action, one for each way it ends: `ExtractLine`
takes the text up to the first LF off the buffer, `ExtractBadLine` finds a line of no bytes
and throws what no clause of the scan names, `ExtractNone` finds no LF and lets the scan go
on.  `removeSocket()` of this class does look for the socket it is given.
Output is written where it is sent: that it may wait in the socket's buffer
only delays it.

**Manager.**  `mpc` is the manager's thread, between the steps of
`acceptConnection()` and `ThreadHandler::start()`; `hpc` is each handler's
thread, in the loop of a SimpleServer that has one client and no listening
socket; `kpc` is another thread in `killServer()` of that handler.  `add()`
and `get()` of a queue hold its lock, so each is one step; `stop()` is split where it
tests, deletes and clears `m_pThread`, because nothing protects it.  The
history variable `raced` holds the handlers two threads were stopping at once.

**Connector.**  `kind` says which of the two classes it is; what they share,
`connect()` and `close()`, is written once.  `idle()` is one action per outcome of
its select(), read and write, and of the exceptions it lets out; recvPacket()
is one per outcome of its loop.  `open` is what the process holds, whatever the
object thinks: `ended` and `orphans` are history variables for what was left.

**JavaTelnet.**  Synchronized methods are atomic to each other, but not to the
handlers' use of sockets, so a handler's work on a message is one step per
socket it writes to or closes.  `monitor` is the server's, held through
`printAll()`.  A text is on its way from `writeBuffer` being filled to being written, and
another thread may fill the same one meanwhile.

**Codecs.**  Each part is driven by callers that call anything in any order,
and histories (`careless`, `mixed`, `cut`, `wrapped`, `odd`) record the uses that are
known to go wrong, so that a property can say what holds of all others.  In
`LineReader` and `WebSocket` TCP cuts the bytes anywhere.  Memory that was
never written is a value of its own (`Stale`, `Unknown`, `Junk`).

**RWLock.**  Every method holds the mutex except in `pthread_cond_wait()`,
which releases it and sleeps atomically; so a method is one action up to
there, and one more each time the thread is woken.  runlock() wakes any one
sleeper, wunlock() all, and any sleeper may wake for nothing.

The variable `place` is where each thread is.

**MclEvent.**  `Set()` does not take `m_mutexEvent`; so `Wait()` is split where
it tests the flag, where it sleeps, where it has the mutex again, and where
it resets the flag and returns.  `missed`, `sets`, `spurious` and
`returns` are history variables for the properties; `inWait` is where each waiter is.

**MessageQue.**  What a thread does under a lock is split where it touches what the
lock is for: the counter is read and written back, a tail is looked up and linked
behind, a head is looked at and removed.  That these pairs are not torn apart is then
a consequence of the locks and not of the model.  Messages are numbered as they
are made, and `ids` has the number the code gave each.  `purge()` takes no lock;
`PurgeShared` says whether it may come while a thread is in a call.

**IdleTimer.**  The clock may pass between any two readings of it, and
while select() sleeps.  Milliseconds are truncated, and the sleep and the test of
whether idle() is due are computed modulo `Width`, as `unsigned32` is.  Units are
scaled down, so that a whole second and a wrap of the difference are in reach.

## The runs

| run | question | bounds | result |
|---|---|---|---|
| `SimpleServer_core` | Are messages in order, leavers cleaned up, clients served, the server stoppable? | 2 clients, 2 packets each, any of them invalid | holds |
| `SimpleServer_faults` | Does the list survive every fault and every call of the application? | 2 clients, 1 packet each, all faults, all calls | holds |
| `SimpleServer_v_remove` | removeSocket() "removes this socket from our client list" | 2 clients | violated |
| `ServerSocket_core` | Are the two buffers right for any cutting of the streams? | header 2, buffer 5, 3 packets in, 2 out | holds |
| `LinkedList_core` | Do the pointers implement the sequence with its cursor? | 4 nodes, 2 objects | holds |
| `Telnet_core` | Is every line told once, and is every client's story complete, whatever removes it? | 2 clients, texts and LFs, 4 in all, a buffer of 3 | holds |
| `Manager_core` | Are messages in order across two threads, is nothing deleted twice, does a killed handler end? | 2 connections, 1 packet, one handler that is killed from inside and outside | holds |
| `Connector_core` | Do packets and descriptors survive every order of calls and failures? | 2 connections, 2 packets each, an input buffer of 2 | holds |
| `JavaTelnet_core` | Are lines begun in order, texts written once, and does the server stop? | 2 clients, 2 lines, 2 handlers | holds |
| `Codecs_core` | Do packets, files, lines, frames and strings come out as they went in? | see `MCCodecs` | holds |
| `Utilities_core` | Is the lock a readers-writer lock that every waiter gets, when does the event let a waiter through, is the queue a FIFO, is a period of idle() kept? | 4 threads for the lock; 2 waiters, 2 Set()s, 3 returns, 1 spurious wakeup; 3 users, 3 messages, numbers modulo 2; 24 ticks of the clock | holds |
| `IdleTimer_v_sleep` | "repeating tasks at a regular interval": does the server never ask to sleep longer than the period? | 24 ticks | violated |

Why the bounds are enough.  Two clients are what it takes for one to be
removed while the other is scanned, sent to or waiting, and two packets for a
good one before an invalid one and for an order to be broken.  In ServerSocket a buffer of five
bytes with a header of two lets a packet be cut in its header and in its payload, fill the
buffer exactly, exceed it with its header only, exceed it, and wrap; three
packets let one be cut behind another.  Four nodes give a removal a head, a
tail and two inner neighbours; freed nodes are reused.  Four units of text with
a buffer of three let a line be cut, a whole line and the beginning of the next, or a line and
an empty one, come in one read, and a line fill the buffer.  In the manager one connection's handler is read from and killed while
the other's is being started.  Two connections of a connector let packets of the
old one be in the queue beside those of the new one.  Two handlers and two lines are a
race on one socket and on the queue.  Four threads of the lock are a
writer that leaves with readers and a writer asleep.  Two waiters and two calls of
Set() let a signal come while a waiter is on its way out.  Three users
of the queue are two that add and one that takes, and a number is given twice once
three messages are made, which is when it may be.  24 ticks are three seconds of eight, a
period of ten, and sleeps that are cut short.  The sizes of the codecs
are chosen at the edges: no room, exactly enough, one short; a line as long as
the buffer, a caller with less room than that; a frame with and without a length field, one
that fills the buffer and one whose size wraps.

`CHECK_DEADLOCK FALSE` is stated where the system does stop: a server that
was stopped and destroyed, a socket or a connector that was closed, an event whose bounded calls
were all made, a clock at its bound, codecs whose bounded input is used up.  LinkedList never stops and is
checked for deadlock.  That the lock does not deadlock is `NoLostWakeup` and `Progress`.

Fairness.  `SimpleServer!FairSpec` and `Telnet!FairSpec` assume that the server's thread keeps
running (weak fairness of all its steps taken together); nothing is assumed of clients,
of signal handlers or of which of its branches the server takes.  That every
client is read is then a property of the loop and not of a scheduler.
`ServerSocket!FairSpec` assumes that a readable socket is read, which
`Served` shows of the server.  `Manager!FairSpec` assumes that the
operating system runs the manager's thread and each handler's; nothing makes
the application stop or destroy anything.  `JavaTelnet!FairSpec` assumes the same
of every Java thread, and that processing a message is not given up halfway.
`Connector!FairSpec` is a program that goes on calling idle() and getMsg(), as the
documentation asks of it, or recvPacket(), and a connection that goes on taking bytes.
`Utilities!FairSpec` assumes of the lock that a woken
thread gets the mutex in the end and that a holder unlocks; nobody is assumed to come
for the lock.  `Progress` is conditional: once no more threads come, all
that wait get in.  While they keep coming a writer may starve, as nothing in
the code queues.

## What does not hold

The first two are findings, checked by `SimpleServer_v_remove` and `IdleTimer_v_sleep`.  The others were met
while modelling; each is behaviour that the models have, and the properties are stated around it.

- `SimpleServer::removeSocket()` removes and deletes the head of the list,
  whichever socket it is given (`simpleserver.cpp:516`).
- `calcSleepTime()` reads the clock once to compare and again to subtract
  (`simpleserver.cpp:297`).  When the period ends in between, the difference
  wraps, and select() may be asked to sleep up to 71 minutes.  `IdlesWhenDue` is
  stated for the turns where the clock does not pass the period there.
- `PacketMessageQue::purge()` takes no lock (`packetmessageque.cpp:160`).  Where it comes while another
  thread is in `get()` or `add()`, a deleted message is handed out or the list is
  linked behind a deleted node: with `PurgeShared = TRUE` TLC finds `ImplementsFifo` violated.
- `getTicks()` wraps after 71 minutes (`simpleserver.cpp:207`).
- A message may point to a ServerSocket that is already deleted:
  `processSockets()` queues pcClosed behind the packets of the same read and
  deletes the object at once (`simpleserver.cpp:381`).
- The destructor of SimpleServer, and of TelnetServer, deletes the sockets and leaves their
  descriptors open.
- Output that waits in a ServerSocket is not what wakes the server: `m_wset` is
  not passed to select() (`simpleserver.cpp:269`).
- That every message is handled (`EveryMessageHandled`, a part of `Served`) does not hold for an application that calls
  `removeSocket()` from `idle()`: the pcClosed message waits until some client does something.
- `ServerSocket::sendPacket()` does not count the header when it looks for
  room: the output buffer is overrun by at most a header (`OverrunBounded`).
- `CMclEvent::Wait()` may report a timeout and then reset a signal that came meanwhile
  (`mclevent.cpp:97`).
- Destroying a SimpleManager deletes each client's socket twice when the
  handler's list holds it too, or has deleted it before: `DeletedOnce` is stated for a manager
  that lives.  Two threads in `stop()` of one handler delete its thread object twice (`raced`).
- `AsyncClientConnector::idle()` forgets the descriptor of a connection that
  ended without closing it, and a constructor that cannot make the connection
  non-blocking loses it (`OnlyKnownLeaks`).  Its `setNonBlocking()` throws what
  `connect()` does not catch.
- A bare LF ends the C++ TelnetServer, and the Java one.  A client that ends its lines
  with LF only loses the last character of each.  `TelnetServerSocket::sendString()` does not look for room.
- The Java server that is stopped before a handler's thread has first run waits for
  that handler without end (`StopEnds` in `JavaTelnet` is what one would wish;
  `StopsOnceBegun` is what holds).
- `TelnetConnector::readLine()` calls recv() before it looks at what it has,
  and waits although a line is there (`telnetconnector.cpp:42`; the comment at
  line 89 says otherwise); its `sendString()` begins anew after a partial send (line 147).
- `TelnetSocket::readLine()` with too little room leaves its reader out of step
  (`socketinstance.cpp:517`), and `readResponse()` hands over what is buffered
  whatever the caller's room.  Both are `cut` in `LineReader`.
- `WebSocketInstance`: `expectedBytesIn` is 16 bits wide and wraps (`wrapped`); payloads that are not
  masked are not copied; its `extractPacket()` does not override the one of its base class, which
  is not virtual (`telnetserversocket.h:78`); `addPacketBuffer()` does not look for room.
- PacketBuffer: the size is in network order after a packet was sent, until
  `reset()`; `resizeBuffer()` keeps the old maximum; `>>` reads past the data.  All are `careless`.
- `NetFile::receive()` does not notice a file that is too short, nor two `transmit()`s
  that share the connection (`mixed`).
- CStr: after `empty(false)` the old text is still behind the pointer, and an
  assignment from such a string copies it; `removeSection()` copies between areas that
  overlap; `replaceFirstChar()` with its default leaves the length as it was;
  `trimRight()` leaves a string of one space alone.  See `odd`.

## The proofs

Every theorem holds for all values of the constants that meet the assumptions
named in the component's module.

`SimpleServer_proofs` proves, for any set of clients, any number of packets,
any application and any faults:
- `TypeCorrect`: TypeOK;
- `ListStaysSound`: ListSound, that no deleted, closed or doubly listed socket
  is ever in the client list, removeSocket() from anywhere included;
- `PacketsInOrder`: PacketOrder, that the application is given each client's packets
  in the order they were sent, none skipped, repeated or before pcNewConnection;

and, for applications and networks that never reach removeSocket():
- `NothingLeaksInScan`: NothingLeaks;
- `ClosedComesLast`: MessageOrder, that pcClosed is also posted once and last;
- `ClosedMeansRemoved`: a client that was reported closed is not listed.

That assumption (`NoRemoveSocket`) is needed: the run `SimpleServer_v_remove` shows what
happens without it.

ListSound is not inductive.  `IInv` adds that the cursor is on an entry while
the scan or a broadcast runs, that a connection is accepted once (a client in
the backlog is in no list), and that the clients in `rset` and `wset` are those listed at the time
of select() or deleted since.  NothingLeaks needs in addition that
descriptors, objects and list entries coincide (`HeldInv`).

The orders are stated over `handled`, what the application was told, joined with the part of
the queue that is about one client.  Both are filters of sequences, and recursion over
them is out of reach of the provers; so the properties are written with the set of
what comes before a place in either, and a message must have the number that is next
after those in that set.  `OrderInv` says of each listed
client that the packets told or queued are those numbered up to some m, and
that the packets under way follow on m (`ToldWell`), which ties the queue to the wire.
`ClosedInv` says that no pcClosed of a listed client exists and
that one that exists is the last (`ClosedWell`).  Lemmas on posting
and on taking messages carry all actions.

`Objects_proofs` proves of `ServerSocket` all the safety properties of its run, for every
header and buffer size, set of packet sizes and length of the streams.  The input side rests on `FramingKept`
together with the fact that the ends are increasing and a header apart; the
output side on `OverrunBounded`, which keeps the sum in `Fits` from wrapping.

`LinkedList_proofs` proves `Linked` for any nodes, any objects and any sequence of
operations.  `Linked` counts the nodes; the inductive `LInv` says instead that the
heap is a `Chain`: the nodes of `order` are distinct, they are the allocated
ones, and `m_pNext` and `m_pPrev` of each are its neighbours in `order`,
except for `m_pPrev` of the first one while `purge()` frees the nodes.  Each
operation is a lemma about a chain (an entry unlinked, a node linked at
either end), so the argument about an inner entry, the head, the tail and the
only one is made once.

It also proves the refinement `ImplementsCursorList`.  `View`, which follows
from `LInv`, says what the heap is for a caller: the abstract sequence is the
objects along `order`, and the abstract cursor is the position of `m_pCurrent`
in it.  Each operation is then shown in two halves: what it makes of that
sequence and position, and that a step which makes that of them is a step of
`CursorListSpec` (the `Spec...` lemmas).  The turns of the loop of `purge()`
are stutters.

`Manager_proofs` proves `DeletedOnce`.  `DeletionInv` says for each client who
is in `stop()` of its handler: unless two threads met there, a thread object that is
set is not deleted, whoever is about to delete it found it set, and it is set
only once; and a handler that is about to look at its socket still lists it.
It also proves `HandlerOrder`, for any number of connections and packets.
`OrderInv` says of each handler that what it was given and what is queued is
the packets read so far, and pcClosed if it has ended, with pcNewConnection
inserted anywhere once it is posted; and that the wire goes on with the next
packet.  It needs `DeletionInv`: only a handler whose socket is there reads.

`Connector_proofs` proves `OnlyKnownLeaks`.  `LeftInv` adds that what was left
behind is an earlier attempt and never that of the socket the connector
holds, so closing that one closes nothing else.  On top of `LeftInv`, `StreamInv` proves
`StreamKept` and `ClosedIsLast`: of the connection the connector holds, n packets are
given or queued, those in its buffer are the next, and those under way follow them
(`FollowsOn`); a connection it has not made carries nothing; and the queue
is ordered by connection, so that packets of an old one cannot come behind a new one's.

`Codecs_proofs` proves the safety properties of the five codecs, each from an invariant of its own.
- `InBounds`.  Of an owner that was never careless,
  `PacketInv` says that the packet's memory is what its constructor was told,
  and that its data ends inside that memory and its pointer inside the data, whichever byte order
  its size is in.
- `FilesWhole`.  A connection that no two transmits share is a sequence of *stages*, one more than
  there are packets under way: at each either no file is on its way, or so many
  units of one have gone by.  `FileInv` says that such stages exist, that each packet leads from
  one to the next (a data packet by the units between), that the sender is at
  the last stage and the receiver, unless it gave up, at the first.  A file is at
  neighbouring stages only, and one that is on its way was not received; so
  one that is received is whole, and is not received again.
- `LinesWhole`.  `LineInv` adds to it the types and the room of the reader's buffer: what was
  given, what the buffer holds and what is on its way make up what was sent.
- `FramesWhole`.  `FrameInv` says that the bytes in the buffer and on
  the way are those of whole frames from the next one on, each known by its frame and
  its place in it.
- `StringKept`.  `StrInv` says that the memory holds the string that was meant
  and a NUL behind it.  Strings that are passed in have no NUL in them (`CStrConstants`), as a
  `char*` has none.

Of the lock, `Objects_proofs` proves exclusion, the absence of lost wakeups and the
refinement of `ReadersWriter` for any finite set of threads.  The invariant is
that the counters are the numbers of threads reading and writing
(`Exclusion`), with lemmas on the cardinality of the set of readers.

Of the event it proves that nobody sleeps on a signal that was there when it
came, and `OncePerThread`: each Set() or spurious wakeup is a credit that a
waiter on its way out, or the flag, has already reserved.  Of the queue it
proves, for any threads, that message numbers are given out in turn (`IdsInTurn`, whenever purge() comes),
and the refinement of `Fifo` where purge() comes while no thread is in a call
(`~PurgeShared`).  `QueInv` says who holds each lock, that what a thread looked up under a lock is still
so (`LookedUp`), and that a message is carried by one thread or is in one of the places the
abstract queue knows (`OnePlace`); linking, removing and purging are then
the three abstract steps, and all others are stutters.  `EachAlone` says that what is
proved of the parts of `Utilities` on their own holds where the run drives them side by side.

Of the timer it proves `IdlesWhenDue`, for any period that 32 bits hold in microseconds
(`PeriodFits`), as long as no turn of the loop is so long that the elapsed milliseconds wrap
(`TurnsInTime`: 49 days).  Both are limits the code has and does not test; with a longer period the
sleep asked for is cut short.  The argument is that the two roundings of
`elapsedMSecs()`, of seconds and of microseconds, together stay under a millisecond on
either side (`ElapsedBounds`): so the sleep asked for ends less than a millisecond before
the period does, and the reading after it is at most one short, which `MIN_FREQ` allows.
`TimerInv` carries this from where the sleep is computed (`AskedInTime`) to where its end is
judged (`SleptInTime`).

`Telnet_proofs` proves `LinesKept` and `StoryEndsOnce`, for any clients, any buffer
and any way TCP cuts what they say.  `ListInv` says that the list has no client twice and
is what is allocated and open, and that the cursor is on an entry while the scan goes
on.  `StoryInv` says of each client, by `ClientInv`, that its story has the right form
for being listed or not (`Form`), and that what it said is cut in three: the first b of it taken off in lines
(`UpTo`), then what its buffer holds, then what was not read (`Cut`).  `OnlyExtracted`
says that whole lines are in a buffer only while they are being taken off it.  As
`ClientInv` has what it speaks of as parameters, one lemma for each kind of step
(the client speaks, bytes are read, a line is told, another message is posted, the client
is removed) serves all actions.

`JavaTelnet_proofs` proves `BegunInOrder` and `TextsSentOnce`, for any clients, lines and
finite pool.  The order is not kept by an exception in the selecting thread, which may
leave a client half read; but nothing is read after one.  So `WireFollows` and `WaitInOrder` are
claimed where it is `Intact`.  `WaitInOrder` says that what waits of a client is all it was
read less what was begun, the message `TelnetServer` is handling included, which stays in the
queue until it is done (`Behind`); the pool takes its message off at once, and
`ModesApart` keeps the two servers' steps apart.  For `TextsSentOnce`,
`AloneUnlessRaced` says that at most one thread is between filling a socket's buffer and
forgetting it, and that the buffer is filled while it writes, unless the socket was raced
for; `UnmetUnknown`, that nobody knows of a client before it is accepted, so that a socket starts with
nothing owed.

Model-checked only: everything under fairness (`Served`, `KillStops`, `StopsOnceBegun`, `PacketsExtracted`,
`Progress` and the like), as the provers
handle neither ENABLED nor liveness.  All safety properties of the runs that hold are proved.
What a recursive definition computes for every input would need
induction over data; the proofs avoid it by properties that speak of places in sequences.

## What is left

Copies of a LinkedList, and the older threaded Java server in `telnet/threads`.

Not modelled, and why: files, logs, properties, tokenizers and dates
are formatting and parsing without state that outlives a call; the WebSocket handshake is text and
hashing; the mutex wrappers are one-line
calls, and appear as atomic sections; the examples are programs that use the library, and
appear as the application's actions; `Pulse()` of the event is an empty stub on
pthreads; `killServer()` before `startServer()` is undone by it, which nothing in the
code promises otherwise; ServerManager does not compile, and no program uses ServerHandler.
