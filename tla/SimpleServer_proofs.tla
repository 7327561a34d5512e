------------------------ MODULE SimpleServer_proofs ------------------------
(***************************************************************************)
(* SimpleServer's client list stays sound and each client's packets stay   *)
(* in order for any number of clients, any behaviour of the application    *)
(* and any fault of the network; and without removeSocket() nothing leaks  *)
(* and pcClosed is the last message about its client.                      *)
(***************************************************************************)
EXTENDS SimpleServer, SequenceTheorems, TLAPS

-----------------------------------------------------------------------------
(* What removing one entry makes of a list.                                *)

LEMMA WithoutEntry ==
  ASSUME NEW S, NEW s \in Seq(S), NEW i \in 1 .. Len(s)
  PROVE  /\ Without(s, i) \in Seq(S)
         /\ Len(Without(s, i)) = Len(s) - 1
         /\ \A j \in 1 .. Len(s) - 1 :
              Without(s, i)[j] = IF j < i THEN s[j] ELSE s[j + 1]
<1> DEFINE front == SubSeq(s, 1, i - 1)
           back  == SubSeq(s, i + 1, Len(s))
<1>0. Len(s) \in Nat /\ i \in Nat /\ \A j \in 1 .. Len(s) : s[j] \in S
  BY LenProperties, ElementOfSeq
<1>1. front \in Seq(S) /\ Len(front) = i - 1 /\ \A j \in 1 .. i - 1 : front[j] = s[j]
  <2>1. \A j \in 1 .. i - 1 : s[j] \in S
    BY <1>0
  <2> QED
    BY <1>0, <2>1, SubSeqProperties
<1>2. /\ back \in Seq(S) /\ Len(back) = Len(s) - i
      /\ \A j \in 1 .. Len(s) - i : back[j] = s[i + j]
  <2>1. \A j \in i + 1 .. Len(s) : s[j] \in S
    BY <1>0
  <2> QED
    BY <1>0, <2>1, SubSeqProperties
<1>3. Without(s, i) = front \o back
  BY DEF Without, SE!RemoveAt
<1> HIDE DEF front, back
<1>4. /\ front \o back \in Seq(S) /\ Len(front \o back) = Len(s) - 1
      /\ \A j \in 1 .. Len(s) - 1 :
           (front \o back)[j] = IF j < i THEN front[j] ELSE back[j - (i - 1)]
  <2>1. /\ front \o back \in Seq(S) /\ Len(front \o back) = Len(front) + Len(back)
        /\ \A j \in 1 .. Len(front) + Len(back) :
             (front \o back)[j] = IF j <= Len(front) THEN front[j] ELSE back[j - Len(front)]
    BY <1>1, <1>2, ConcatProperties
  <2>2. Len(front) = i - 1 /\ Len(front) + Len(back) = Len(s) - 1
    BY <1>0, <1>1, <1>2
  <2> QED
    BY <1>0, <2>1, <2>2
<1>5. \A j \in 1 .. Len(s) - 1 :
        (front \o back)[j] = IF j < i THEN s[j] ELSE s[j + 1]
  <2> SUFFICES ASSUME NEW j \in 1 .. Len(s) - 1
               PROVE  (front \o back)[j] = IF j < i THEN s[j] ELSE s[j + 1]
    OBVIOUS
  <2>1. CASE j < i
    BY <1>0, <1>1, <1>4, <2>1
  <2>2. CASE ~(j < i)
    <3>1. j - (i - 1) \in 1 .. Len(s) - i /\ i + (j - (i - 1)) = j + 1
      BY <1>0, <2>2
    <3> QED
      BY <1>0, <1>2, <1>4, <2>2, <3>1
  <2> QED
    BY <2>1, <2>2
<1> QED
  BY <1>3, <1>4, <1>5

(* A list without repetitions whose entries are allocated and open.        *)
Sound(list, al, open) ==
  /\ \A i, j \in 1 .. Len(list) : list[i] = list[j] => i = j
  /\ \A i \in 1 .. Len(list) : list[i] \in al \cap open

LEMMA RemovalSound ==
  ASSUME NEW S, NEW s \in Seq(S), NEW al, NEW open, Sound(s, al, open),
         NEW i \in 1 .. Len(s)
  PROVE  Sound(Without(s, i), al \ {s[i]}, open \ {s[i]})
<1> DEFINE w == Without(s, i)
           at(j) == IF j < i THEN j ELSE j + 1
<1>0. Len(s) \in Nat /\ i \in Nat
  BY LenProperties
<1>1. /\ w \in Seq(S) /\ Len(w) = Len(s) - 1
      /\ \A j \in 1 .. Len(w) : w[j] = s[at(j)]
  BY <1>0, WithoutEntry
<1>2. \A j \in 1 .. Len(w) : at(j) \in 1 .. Len(s) /\ at(j) # i
  BY <1>0, <1>1
<1>3. \A j, k \in 1 .. Len(w) : at(j) = at(k) => j = k
  BY <1>0, <1>1
<1> HIDE DEF w, at
<1>4. \A j, k \in 1 .. Len(w) : w[j] = w[k] => j = k
  BY <1>1, <1>2, <1>3 DEF Sound
<1>5. \A j \in 1 .. Len(w) : w[j] \in al \cap open /\ w[j] # s[i]
  BY <1>1, <1>2 DEF Sound
<1> QED
  BY <1>4, <1>5 DEF Sound, w

-----------------------------------------------------------------------------
(* The inductive invariant.                                                *)

CursorOn == pc \in {"scan", "send2All"} => cur \in 1 .. Len(items)

(* A connection is made once, and is accepted once.                        *)
AcceptedOnce ==
  \A c \in Client :
    /\ peer[c] = "absent" => c \notin backlog \cup fds
    /\ ~(c \in backlog /\ c \in fds)

(* select() reports clients of the list, which does not change before the  *)
(* scan begins.                                                            *)
SelectedListed ==
  pc = "selected" => \A c \in rset : \E i \in 1 .. Len(items) : items[i] = c

ListInv == Sound(items, alive, fds) /\ CursorOn /\ AcceptedOnce /\ SelectedListed
IInv == TypeOK /\ ListInv

LEMMA ListedEntries ==
  ASSUME TypeOK
  PROVE  Listed = {items[i] : i \in 1 .. Len(items)} /\ Listed \subseteq Client
BY DEF TypeOK, Listed, SE!ToSet

LEMMA ListSoundFollows == IInv => ListSound
BY ListedEntries DEF IInv, ListInv, Sound, CursorOn, ListSound

LEMMA InitInv == Init => IInv
<1> SUFFICES ASSUME Init PROVE IInv
  OBVIOUS
<1>1. TypeOK
  <2>1. items \in Seq(Client) /\ Len(items) = 0 /\ que \in Seq(Message)
    BY EmptySeq DEF Init
  <2>2. /\ wire \in [Client -> Seq(0 .. MaxPackets)]
        /\ handled \in [Client -> Seq([kind : {"new", "data", "closed"}, no : 0 .. MaxPackets])]
    BY EmptySeq DEF Init
  <2>3. 0 \in 0 .. MaxOut /\ 0 \in 0 .. MaxPackets /\ cur \in 0 .. Len(items)
    BY <2>1, ServerConstants DEF Init, NoCurrent
  <2> QED
    BY <2>1, <2>2, <2>3 DEF Init, TypeOK, Control, Terminal
<1>2. ListInv
  BY EmptySeq DEF Init, ListInv, Sound, CursorOn, AcceptedOnce, SelectedListed
<1> QED
  BY <1>1, <1>2 DEF IInv

(* The parts of TypeOK, grouped by the variables they are about.           *)
ListType   == items \in Seq(Client) /\ cur \in 0 .. Len(items)
SocketType == alive \subseteq Client /\ fds \subseteq Client /\ out \in [Client -> 0 .. MaxOut]
SelectType == rset \subseteq Client /\ wset \subseteq Client /\ listenSet \in BOOLEAN
ClientType ==
  /\ peer \in [Client -> {"absent", "open", "finished", "reset"}]
  /\ backlog \subseteq Client
  /\ sent \in [Client -> 0 .. MaxPackets]
  /\ wire \in [Client -> Seq(0 .. MaxPackets)]
HandledType ==
  handled \in [Client -> Seq([kind : {"new", "data", "closed"}, no : 0 .. MaxPackets])]

Parts ==
  /\ pc \in Control /\ ret \in {"loop", "messages"} /\ run \in BOOLEAN
  /\ ListType /\ que \in Seq(Message) /\ SocketType /\ SelectType
  /\ ClientType /\ HandledType

LEMMA TypeParts == (TypeOK <=> Parts) /\ (TypeOK' <=> Parts')
BY DEF Parts, TypeOK, ListType, SocketType, SelectType, ClientType, HandledType

LEMMA PartsKept ==
  /\ ListType /\ UNCHANGED listVars => ListType'
  /\ SocketType /\ UNCHANGED socketVars => SocketType'
  /\ SelectType /\ UNCHANGED selectVars => SelectType'
  /\ ClientType /\ UNCHANGED clientVars => ClientType'
  /\ HandledType /\ UNCHANGED handled => HandledType'
BY DEF ListType, listVars, SocketType, socketVars, SelectType, selectVars,
       ClientType, clientVars, HandledType

(* A step after which no loop over the list goes on leaves it sound if it  *)
(* does not touch it.                                                      *)
LEMMA ListKept ==
  ASSUME IInv, UNCHANGED <<items, alive, fds, peer, backlog>>,
         pc' \notin {"scan", "send2All", "selected"}
  PROVE  ListInv'
BY DEF IInv, ListInv, Sound, CursorOn, AcceptedOnce, SelectedListed

LEMMA ControlStep ==
  ASSUME IInv,
         \/ StartServer \/ StopServer \/ SelectError \/ NothingToDo
         \/ AcceptFails \/ MessagesDone \/ EndTurn
  PROVE  IInv'
<1>1. /\ pc' \in Control \ {"scan", "send2All", "selected"} /\ run' \in BOOLEAN
      /\ UNCHANGED <<listVars, que, socketVars, selectVars, ret, clientVars, handled>>
  <2>1. pc' \in Control \ {"scan", "send2All", "selected"}
    BY DEF StartServer, StopServer, SelectError, NothingToDo, AcceptFails,
           MessagesDone, EndTurn, Control, Terminal
  <2>2. run' \in BOOLEAN
    BY DEF IInv, TypeOK, StartServer, StopServer, SelectError, NothingToDo,
           AcceptFails, MessagesDone, EndTurn
  <2>3. UNCHANGED <<listVars, que, socketVars, selectVars, ret, clientVars, handled>>
    BY DEF StartServer, StopServer, SelectError, NothingToDo, AcceptFails,
           MessagesDone, EndTurn
  <2> QED
    BY <2>1, <2>2, <2>3
<1>2. TypeOK'
  BY <1>1, TypeParts, PartsKept DEF IInv, Parts
<1>3. ListInv'
  BY <1>1, ListKept DEF listVars, socketVars, clientVars
<1> QED
  BY <1>2, <1>3 DEF IInv

-----------------------------------------------------------------------------
(* The helpers of the actions.                                             *)

LEMMA ScanBegins ==
  ASSUME IInv, NEW list \in Seq(Client), BeginScan(list),
         Len(list) >= Len(items), list # << >>
  PROVE  /\ pc' \in {"messages", "scan"} /\ cur' \in 0 .. Len(list)
         /\ pc' = "scan" => cur' \in 1 .. Len(list)
<1>1. list # << >> /\ Len(list) \in Nat \ {0} /\ cur \in 0 .. Len(list)
  BY EmptySeq DEF IInv, TypeOK
<1> QED
  BY <1>1 DEF BeginScan, HeadCursor

LEMMA ScanContinues ==
  ASSUME NEW list \in Seq(Client), NEW from \in 0 .. Len(list),
         ContinueScan(list, from)
  PROVE  /\ pc' \in {"messages", "scan"} /\ cur' \in 0 .. Len(list)
         /\ pc' = "scan" => cur' \in 1 .. Len(list)
BY DEF ContinueScan, NextCursor, NoCurrent

LEMMA SomeMessages ==
  ASSUME IInv, NEW c \in Client
  PROVE  /\ NewMsg(c) \in Message /\ ClosedMsg(c) \in Message
         /\ \A k \in 0 .. Len(wire[c]) : DataMsgs(c, k) \in Seq(Message)
<1>1. NewMsg(c) \in Message /\ ClosedMsg(c) \in Message
  BY ServerConstants DEF NewMsg, ClosedMsg, Message
<1>2. ASSUME NEW k \in 0 .. Len(wire[c]) PROVE DataMsgs(c, k) \in Seq(Message)
  <2>1. wire[c] \in Seq(0 .. MaxPackets)
    BY DEF IInv, TypeOK
  <2>2. \A i \in 1 .. k : DataMsg(c, wire[c][i]) \in Message
    <3>1. \A i \in 1 .. k : wire[c][i] \in 0 .. MaxPackets
      <4>1. \A i \in 1 .. k : i \in 1 .. Len(wire[c])
        BY <2>1, LenProperties
      <4> QED
        BY <2>1, <4>1, ElementOfSeq
    <3> QED
      BY <3>1 DEF DataMsg, Message
  <2> QED
    BY <2>2 DEF DataMsgs
<1> QED
  BY <1>1, <1>2

LEMMA ReadsSome ==
  ASSUME IInv, NEW c \in Client, NEW k \in 0 .. MaxPackets, Reads(c, k)
  PROVE  /\ DataMsgs(c, k) \in Seq(Message)
         /\ wire' \in [Client -> Seq(0 .. MaxPackets)]
<1>1. wire[c] \in Seq(0 .. MaxPackets) /\ Len(wire[c]) \in Nat
  BY LenProperties DEF IInv, TypeOK
<1>2. k \in 0 .. Len(wire[c])
  BY <1>1 DEF Reads
<1>3. SubSeq(wire[c], k + 1, Len(wire[c])) \in Seq(0 .. MaxPackets)
  <2>1. \A i \in k + 1 .. Len(wire[c]) : wire[c][i] \in 0 .. MaxPackets
    <3>1. \A i \in k + 1 .. Len(wire[c]) : i \in 1 .. Len(wire[c])
      BY <1>1, <1>2
    <3> QED
      BY <1>1, <3>1, ElementOfSeq
  <2> QED
    BY <1>1, <1>2, <2>1, SubSeqProperties
<1> QED
  BY <1>2, <1>3, SomeMessages DEF Reads, IInv, TypeOK

(* The first entry goes, whoever was meant.                                *)
LEMMA RemoveSocketSound ==
  ASSUME IInv, NEW c \in Client, NEW q \in Seq(Message), RemoveSocket(c, q)
  PROVE  /\ que' \in Seq(Message) /\ ListType' /\ alive' \subseteq Client /\ fds' = fds
         /\ Sound(items', alive', fds')
<1>1. que' \in Seq(Message) /\ fds' = fds
  BY SomeMessages, AppendProperties DEF RemoveSocket
<1>2. CASE items = << >>
  BY <1>1, <1>2 DEF RemoveSocket, IInv, TypeOK, ListInv, ListType
<1>3. CASE items # << >>
  <2>1. items \in Seq(Client) /\ 1 \in 1 .. Len(items) /\ Len(items) \in Nat
    BY <1>3, EmptySeq, LenProperties DEF IInv, TypeOK
  <2>2. items' = Without(items, 1) /\ cur' = 0 /\ alive' = alive \ {items[1]}
    BY <1>3 DEF RemoveSocket, CursorAfterRemovePrev, PrevCursor, NoCurrent
  <2>3. ListType'
    BY <2>1, <2>2, WithoutEntry DEF ListType
  <2>4. Sound(items', alive', fds \ {items[1]})
    BY <2>1, <2>2, RemovalSound DEF IInv, ListInv
  <2> QED
    BY <1>1, <2>2, <2>3, <2>4 DEF Sound, IInv, TypeOK
<1> QED
  BY <1>2, <1>3

(* A client of the scan goes with its descriptor and its object.           *)
LEMMA DropSound ==
  ASSUME IInv, pc = "scan", NEW msgs \in Seq(Message), DropCurrent(Current, msgs)
  PROVE  /\ que' \in Seq(Message) /\ ListType' /\ SocketType'
         /\ Sound(items', alive', fds') /\ fds' \subseteq fds
         /\ pc' \in {"messages", "scan"} /\ CursorOn'
<1>1. /\ items \in Seq(Client) /\ Len(items) \in Nat /\ cur \in 1 .. Len(items)
      /\ Current \in Client
  BY ElementOfSeq, LenProperties DEF IInv, TypeOK, ListInv, CursorOn, Current
<1>2. que' \in Seq(Message)
  BY <1>1, SomeMessages, AppendProperties, ConcatProperties DEF DropCurrent, IInv, TypeOK
<1>3. items' \in Seq(Client) /\ Len(items') = Len(items) - 1
  BY <1>1, WithoutEntry DEF DropCurrent
<1>4. /\ pc' \in {"messages", "scan"} /\ cur' \in 0 .. Len(items')
      /\ pc' = "scan" => cur' \in 1 .. Len(items')
  <2>1. CursorAfterRemovePrev(cur) \in 0 .. Len(items')
    BY <1>1, <1>3 DEF CursorAfterRemovePrev, PrevCursor, NoCurrent
  <2>2. ContinueScan(items', CursorAfterRemovePrev(cur))
    BY DEF DropCurrent
  <2> QED
    BY <1>3, <2>1, <2>2, ScanContinues
<1>5. Sound(items', alive', fds')
  BY <1>1, RemovalSound DEF DropCurrent, Current, IInv, ListInv
<1>6. SocketType' /\ fds' \subseteq fds
  BY DEF DropCurrent, SocketType, IInv, TypeOK
<1> QED
  BY <1>2, <1>3, <1>4, <1>5, <1>6 DEF ListType, CursorOn

(* What happens to the list settles what a step inside the server does to  *)
(* the invariant: the clients' own variables are not the server's.         *)
LEMMA SettlesList ==
  ASSUME IInv, Sound(items', alive', fds'), CursorOn', pc' # "selected",
         fds' \subseteq fds, UNCHANGED <<peer, backlog>>
  PROVE  ListInv'
BY DEF IInv, ListInv, AcceptedOnce, SelectedListed

-----------------------------------------------------------------------------
(* The steps of the clients.                                               *)

LEMMA ClientStepInv == IInv /\ ClientStep => IInv'
<1> SUFFICES ASSUME IInv, ClientStep PROVE IInv'
  OBVIOUS
<1>1. UNCHANGED <<pc, run, listVars, que, socketVars, selectVars, ret, handled>>
  BY DEF ClientStep
<1>2. ClientType
  BY TypeParts DEF IInv, Parts
<1>3. ASSUME NEW c \in Client, Connect(c) \/ Send(c) \/ Finish(c) \/ Reset(c)
      PROVE  /\ ClientType'
             /\ \A d \in Client : peer'[d] = "absent" => peer[d] = "absent"
             /\ \/ backlog' = backlog
                \/ /\ peer[c] = "absent" /\ peer'[c] # "absent"
                   /\ backlog' = backlog \cup {c}
  <2>1. CASE Connect(c)
    BY <1>2, <2>1 DEF Connect, ClientType
  <2>2. CASE Send(c)
    <3>1. wire[c] \in Seq(0 .. MaxPackets) /\ sent[c] + 1 \in 0 .. MaxPackets
      BY <1>2, <2>2, ServerConstants DEF Send, ClientType
    <3>2. /\ Append(wire[c], sent[c] + 1) \in Seq(0 .. MaxPackets)
          /\ Append(wire[c], Invalid) \in Seq(0 .. MaxPackets)
      BY <3>1, AppendProperties, ServerConstants DEF Invalid
    <3> QED
      BY <1>2, <2>2, <3>1, <3>2 DEF Send, ClientType
  <2>3. CASE Finish(c)
    BY <1>2, <2>3 DEF Finish, ClientType
  <2>4. CASE Reset(c)
    <3>1. << >> \in Seq(0 .. MaxPackets)
      BY EmptySeq
    <3> QED
      BY <1>2, <2>4, <3>1 DEF Reset, ClientType
  <2> QED
    BY <1>3, <2>1, <2>2, <2>3, <2>4
<1>4. PICK c \in Client : Connect(c) \/ Send(c) \/ Finish(c) \/ Reset(c)
  BY DEF ClientStep
<1>5. TypeOK'
  BY <1>1, <1>3, <1>4, TypeParts, PartsKept DEF IInv, Parts
<1>6. AcceptedOnce'
  BY <1>1, <1>3, <1>4 DEF IInv, ListInv, AcceptedOnce, socketVars
<1> QED
  BY <1>1, <1>5, <1>6
     DEF IInv, ListInv, Sound, CursorOn, SelectedListed, listVars, socketVars, selectVars

-----------------------------------------------------------------------------
(* select() and the accept.                                                *)

LEMMA SelectInv == IInv /\ Select => IInv'
<1> SUFFICES ASSUME IInv, Select PROVE IInv'
  OBVIOUS
<1>1. Listed = {items[i] : i \in 1 .. Len(items)} /\ Listed \subseteq Client
  BY ListedEntries DEF IInv
<1>2. rset' \subseteq Listed /\ wset' \subseteq Listed /\ listenSet' \in BOOLEAN
  BY DEF Select, Listed
<1>3. ListType' /\ SelectType'
  BY <1>1, <1>2, LenProperties DEF Select, IInv, TypeOK, ListType, SelectType, NoCurrent
<1>4. TypeOK'
  BY <1>3, TypeParts, PartsKept DEF Select, IInv, Parts, Control, Terminal
<1>5. ListInv'
  BY <1>1, <1>2 DEF Select, IInv, ListInv, Sound, CursorOn, AcceptedOnce, SelectedListed,
                    socketVars, clientVars
<1> QED
  BY <1>4, <1>5 DEF IInv

LEMMA StartScanInv == IInv /\ StartScan => IInv'
<1> SUFFICES ASSUME IInv, StartScan PROVE IInv'
  OBVIOUS
<1>1. items \in Seq(Client) /\ Len(items) \in Nat
  BY LenProperties DEF IInv, TypeOK
<1>2. items # << >>
  BY <1>1, EmptySeq DEF StartScan, IInv, ListInv, SelectedListed
<1>3. /\ pc' \in {"messages", "scan"} /\ cur' \in 0 .. Len(items)
      /\ pc' = "scan" => cur' \in 1 .. Len(items)
  BY <1>1, <1>2, ScanBegins DEF StartScan
<1>4. TypeOK'
  BY <1>1, <1>3, TypeParts, PartsKept
     DEF StartScan, IInv, Parts, ListType, Control, Terminal
<1>5. ListInv'
  BY <1>3, SettlesList
     DEF StartScan, IInv, ListInv, Sound, CursorOn, socketVars, clientVars
<1> QED
  BY <1>4, <1>5 DEF IInv

LEMMA AcceptInv == IInv /\ AcceptConnection => IInv'
<1> SUFFICES ASSUME IInv, AcceptConnection PROVE IInv'
  OBVIOUS
<1>1. PICK c \in backlog :
        /\ backlog' = backlog \ {c}
        /\ items' = Append(items, c)
        /\ alive' = alive \cup {c}
        /\ fds' = fds \cup {c}
        /\ que' = Append(que, NewMsg(c))
        /\ BeginScan(items')
  BY DEF AcceptConnection
<1>2. c \in Client /\ c \notin fds /\ peer[c] # "absent" /\ items \in Seq(Client)
  BY DEF IInv, TypeOK, ListInv, AcceptedOnce
<1>3. /\ items' \in Seq(Client) /\ Len(items') = Len(items) + 1 /\ Len(items) \in Nat
      /\ items' # << >> /\ items'[Len(items) + 1] = c
      /\ \A i \in 1 .. Len(items) : items'[i] = items[i]
  BY <1>1, <1>2, AppendProperties, LenProperties
<1>4. Sound(items', alive', fds')
  <2>1. \A i \in 1 .. Len(items) : items[i] # c
    BY <1>2 DEF IInv, ListInv, Sound
  <2>2. /\ \A i, j \in 1 .. Len(items) : items[i] = items[j] => i = j
        /\ \A i \in 1 .. Len(items) : items[i] \in alive \cap fds
    BY DEF IInv, ListInv, Sound
  <2>3. \A i \in 1 .. Len(items') : i \in 1 .. Len(items) \/ i = Len(items) + 1
    BY <1>3
  <2>4. \A i, j \in 1 .. Len(items') : items'[i] = items'[j] => i = j
    BY <1>3, <2>1, <2>2, <2>3
  <2>5. \A i \in 1 .. Len(items') : items'[i] \in alive' \cap fds'
    BY <1>1, <1>3, <2>2, <2>3
  <2> QED
    BY <2>4, <2>5 DEF Sound
<1>5. /\ pc' \in {"messages", "scan"} /\ cur' \in 0 .. Len(items')
      /\ pc' = "scan" => cur' \in 1 .. Len(items')
  <2>1. Len(items') >= Len(items) /\ BeginScan(items')
    BY <1>1, <1>3
  <2> QED
    BY <1>3, <2>1, ScanBegins
<1>6. que' \in Seq(Message)
  BY <1>1, <1>2, SomeMessages, AppendProperties DEF IInv, TypeOK
<1>7. SocketType' /\ SelectType' /\ ClientType' /\ HandledType'
  BY <1>1, <1>2 DEF AcceptConnection, IInv, TypeOK, SocketType, SelectType, ClientType,
                    HandledType
<1>8. TypeOK'
  BY <1>3, <1>5, <1>6, <1>7, TypeParts
     DEF AcceptConnection, IInv, Parts, ListType, Control, Terminal
<1>9. AcceptedOnce'
  BY <1>1, <1>2 DEF AcceptConnection, IInv, ListInv, AcceptedOnce
<1> QED
  BY <1>4, <1>5, <1>8, <1>9 DEF IInv, ListInv, CursorOn, SelectedListed

-----------------------------------------------------------------------------
(* The scan.                                                               *)

LEMMA CurrentListed ==
  ASSUME IInv, pc \in {"scan", "send2All"}
  PROVE  /\ items \in Seq(Client) /\ Len(items) \in Nat /\ cur \in 1 .. Len(items)
         /\ Current \in Client
BY ElementOfSeq, LenProperties DEF IInv, TypeOK, ListInv, CursorOn, Current

LEMMA ScanServedInv == IInv /\ ScanServed => IInv'
<1> SUFFICES ASSUME IInv, ScanServed PROVE IInv'
  OBVIOUS
<1>1. items \in Seq(Client) /\ cur \in 1 .. Len(items) /\ Current \in Client
  BY CurrentListed DEF ScanServed
<1>2. que' \in Seq(Message) /\ wire' \in [Client -> Seq(0 .. MaxPackets)]
  <2>1. PICK k \in 0 .. MaxPackets :
          Reads(Current, k) /\ que' = que \o DataMsgs(Current, k)
    BY DEF ScanServed
  <2> QED
    BY <1>1, <2>1, ReadsSome, ConcatProperties DEF IInv, TypeOK
<1>3. out' \in [Client -> 0 .. MaxOut]
  <2>1. PICK n \in 0 .. out[Current] : out' = [out EXCEPT ![Current] = n]
    BY DEF ScanServed
  <2>2. out \in [Client -> 0 .. MaxOut] /\ n \in 0 .. MaxOut
    BY <1>1, ServerConstants DEF IInv, TypeOK
  <2> QED
    BY <2>1, <2>2
<1>4. /\ pc' \in {"messages", "scan"} /\ cur' \in 0 .. Len(items)
      /\ pc' = "scan" => cur' \in 1 .. Len(items)
  BY <1>1, ScanContinues DEF ScanServed
<1>5. ListType' /\ SocketType' /\ ClientType'
  BY <1>1, <1>2, <1>3, <1>4
     DEF ScanServed, IInv, TypeOK, ListType, SocketType, ClientType
<1>6. TypeOK'
  BY <1>2, <1>4, <1>5, TypeParts, PartsKept DEF ScanServed, IInv, Parts, Control, Terminal
<1>7. ListInv'
  BY <1>4, SettlesList DEF ScanServed, IInv, ListInv, Sound, CursorOn
<1> QED
  BY <1>6, <1>7 DEF IInv

LEMMA ScanDropsInv == IInv /\ (ScanClosed \/ ScanInvalid \/ ScanSendFails) => IInv'
<1> SUFFICES ASSUME IInv, ScanClosed \/ ScanInvalid \/ ScanSendFails PROVE IInv'
  OBVIOUS
<1>1. /\ pc = "scan"
      /\ UNCHANGED <<run, selectVars, ret, peer, backlog, sent, handled>>
  BY DEF ScanClosed, ScanInvalid, ScanSendFails, clientVars
<1>2. Current \in Client /\ wire[Current] \in Seq(0 .. MaxPackets) /\ Len(wire[Current]) \in Nat
  BY <1>1, CurrentListed, LenProperties DEF IInv, TypeOK
<1>3. /\ wire' \in [Client -> Seq(0 .. MaxPackets)]
      /\ \E msgs \in Seq(Message) : DropCurrent(Current, msgs)
  <2>1. CASE ScanClosed
    BY <2>1, EmptySeq DEF ScanClosed, clientVars, IInv, TypeOK
  <2>2. CASE ScanInvalid
    <3>1. PICK k \in 0 .. MaxPackets :
            k < Len(wire[Current]) /\ DropCurrent(Current, DataMsgs(Current, k))
      BY <2>2 DEF ScanInvalid
    <3>2. k \in 0 .. Len(wire[Current])
      BY <1>2, <3>1
    <3>3. DataMsgs(Current, k) \in Seq(Message)
      BY <1>2, <3>2, SomeMessages
    <3>4. wire' \in [Client -> Seq(0 .. MaxPackets)]
      BY <2>2, EmptySeq DEF ScanInvalid, IInv, TypeOK
    <3> QED
      BY <3>1, <3>3, <3>4
  <2>3. CASE ScanSendFails
    <3>1. PICK k \in 0 .. MaxPackets :
            Reads(Current, k) /\ DropCurrent(Current, DataMsgs(Current, k))
      BY <2>3 DEF ScanSendFails
    <3> QED
      BY <1>2, <3>1, ReadsSome
  <2> QED
    BY <2>1, <2>2, <2>3
<1>4. /\ que' \in Seq(Message) /\ ListType' /\ SocketType'
      /\ Sound(items', alive', fds') /\ fds' \subseteq fds
      /\ pc' \in {"messages", "scan"} /\ CursorOn'
  BY <1>1, <1>3, DropSound
<1>5. ClientType'
  BY <1>1, <1>3 DEF IInv, TypeOK, ClientType
<1>6. TypeOK'
  BY <1>1, <1>4, <1>5, TypeParts, PartsKept DEF IInv, Parts, Control, Terminal
<1>7. ListInv'
  BY <1>1, <1>4, SettlesList
<1> QED
  BY <1>6, <1>7 DEF IInv

-----------------------------------------------------------------------------
(* The message pump and idle().                                            *)

(* A message has been taken from the queue and given to the application.   *)
LEMMA MessageTaken ==
  ASSUME IInv, que # << >>, Handle(Head(que))
  PROVE  Head(que).sock \in Client /\ Tail(que) \in Seq(Message) /\ HandledType'
<1>1. Head(que) \in Message /\ Tail(que) \in Seq(Message)
  BY HeadTailProperties DEF IInv, TypeOK
<1>2. /\ Head(que).sock \in Client
      /\ [kind |-> Head(que).kind, no |-> Head(que).no]
           \in [kind : {"new", "data", "closed"}, no : 0 .. MaxPackets]
  BY <1>1 DEF Message
<1>3. HandledType'
  <2> DEFINE R == [kind : {"new", "data", "closed"}, no : 0 .. MaxPackets]
             m == Head(que)
             r == [kind |-> m.kind, no |-> m.no]
  <2>1. handled[m.sock] \in Seq(R) /\ r \in R
    BY <1>2 DEF IInv, TypeOK
  <2> HIDE DEF R, r
  <2>2. Append(handled[m.sock], r) \in Seq(R)
    BY <2>1, AppendProperties
  <2>3. handled' = [handled EXCEPT ![m.sock] = Append(handled[m.sock], r)]
    BY DEF Handle, r
  <2>4. handled \in [Client -> Seq(R)]
    BY DEF IInv, TypeOK, R
  <2>5. handled' \in [Client -> Seq(R)]
    BY <2>2, <2>3, <2>4
  <2> QED
    BY <2>5 DEF HandledType, R
<1> QED
  BY <1>1, <1>2, <1>3

LEMMA MsgPlainInv == IInv /\ (MsgIgnored \/ MsgKill) => IInv'
<1> SUFFICES ASSUME IInv, MsgIgnored \/ MsgKill PROVE IInv'
  OBVIOUS
<1>1. /\ pc = "messages" /\ que # << >> /\ Handle(Head(que)) /\ que' = Tail(que)
      /\ run' \in BOOLEAN
      /\ UNCHANGED <<pc, listVars, socketVars, selectVars, ret, clientVars>>
  BY DEF MsgIgnored, MsgKill, IInv, TypeOK
<1>2. TypeOK'
  BY <1>1, MessageTaken, TypeParts, PartsKept DEF IInv, Parts
<1>3. ListInv'
  BY <1>1, ListKept DEF listVars, socketVars, clientVars
<1> QED
  BY <1>2, <1>3 DEF IInv

LEMMA SendOkType ==
  ASSUME IInv, NEW c \in Client, SendOk(c)
  PROVE  out' \in [Client -> 0 .. MaxOut]
BY ServerConstants DEF SendOk, IInv, TypeOK

(* The three outcomes of sendPacket(), called from the message pump or     *)
(* from send2All().                                                        *)
LEMMA SendFailsInv ==
  ASSUME IInv, NEW c \in Client, NEW q \in Seq(Message),
         NEW back \in {"loop", "messages"},
         SendBroken(c, q, back) \/ BufferFull(c, q, back)
  PROVE  /\ que' \in Seq(Message) /\ ListType' /\ SocketType'
         /\ Sound(items', alive', fds') /\ fds' = fds
         /\ pc' \in {"loop", "messages", "dead"}
<1>1. pc' \in {"loop", "messages", "dead"}
  BY DEF SendBroken, BufferFull, Thrown
<1>2. CASE SendBroken(c, q, back)
  <2>1. RemoveSocket(c, q) /\ out' = out
    BY <1>2 DEF SendBroken
  <2>2. /\ que' \in Seq(Message) /\ ListType' /\ alive' \subseteq Client /\ fds' = fds
        /\ Sound(items', alive', fds')
    BY <2>1, RemoveSocketSound
  <2> QED
    BY <1>1, <2>1, <2>2 DEF SocketType, IInv, TypeOK
<1>3. CASE BufferFull(c, q, back)
  BY <1>1, <1>3 DEF BufferFull, listVars, ListType, SocketType, IInv, TypeOK, ListInv, Sound
<1> QED
  BY <1>2, <1>3

LEMMA MsgReplyInv == IInv /\ MsgReply => IInv'
<1> SUFFICES ASSUME IInv, MsgReply PROVE IInv'
  OBVIOUS
<1> DEFINE c == Head(que).sock
           q == Tail(que)
<1>1. /\ c \in Client /\ q \in Seq(Message) /\ HandledType' /\ pc = "messages"
      /\ UNCHANGED <<run, selectVars, ret, clientVars>>
  BY MessageTaken DEF MsgReply
<1>2. /\ que' \in Seq(Message) /\ ListType' /\ SocketType'
      /\ Sound(items', alive', fds') /\ fds' = fds
      /\ pc' \in {"loop", "messages", "dead"}
  <2>1. CASE /\ SendOk(c) /\ que' = q /\ pc' = pc
             /\ UNCHANGED <<listVars, alive, fds>>
    BY <1>1, <2>1, SendOkType
       DEF listVars, ListType, SocketType, IInv, TypeOK, ListInv, Sound
  <2>2. CASE SendBroken(c, q, "messages") \/ BufferFull(c, q, "messages")
    <3> HIDE DEF c, q
    <3> QED
      BY <1>1, <2>2, SendFailsInv
  <2> QED
    BY <2>1, <2>2 DEF MsgReply
<1>3. TypeOK'
  BY <1>1, <1>2, TypeParts, PartsKept DEF IInv, Parts, Control, Terminal
<1>4. ListInv'
  BY <1>1, <1>2, SettlesList DEF CursorOn, clientVars
<1> QED
  BY <1>3, <1>4 DEF IInv

LEMMA KickInv == IInv /\ (MsgKick \/ IdleKick) => IInv'
<1> SUFFICES ASSUME IInv, MsgKick \/ IdleKick PROVE IInv'
  OBVIOUS
<1>1. /\ UNCHANGED <<run, out, selectVars, ret, clientVars>> /\ HandledType'
      /\ pc' \in {"messages", "loop"}
      /\ \E c \in Client, q \in Seq(Message) : RemoveSocket(c, q)
  <2>1. CASE MsgKick
    <3>1. Head(que).sock \in Client /\ Tail(que) \in Seq(Message) /\ HandledType'
      BY <2>1, MessageTaken DEF MsgKick
    <3> QED
      BY <2>1, <3>1 DEF MsgKick
  <2>2. CASE IdleKick
    <3>1. Listed \subseteq Client /\ que \in Seq(Message)
      BY ListedEntries DEF IInv, TypeOK
    <3> QED
      BY <2>2, <3>1, TypeParts, PartsKept DEF IdleKick, Listed, IInv, Parts
  <2> QED
    BY <2>1, <2>2
<1>2. /\ que' \in Seq(Message) /\ ListType' /\ alive' \subseteq Client /\ fds' = fds
      /\ Sound(items', alive', fds')
  BY <1>1, RemoveSocketSound
<1>3. SocketType'
  BY <1>1, <1>2 DEF SocketType, IInv, TypeOK
<1>4. TypeOK'
  BY <1>1, <1>2, <1>3, TypeParts, PartsKept DEF IInv, Parts, Control, Terminal
<1>5. ListInv'
  BY <1>1, <1>2, SettlesList DEF CursorOn, clientVars
<1> QED
  BY <1>4, <1>5 DEF IInv

LEMMA BroadcastInv == IInv /\ (MsgBroadcast \/ IdleBroadcast) => IInv'
<1> SUFFICES ASSUME IInv, MsgBroadcast \/ IdleBroadcast PROVE IInv'
  OBVIOUS
<1>1. /\ items # << >> /\ cur' = 1 /\ pc' = "send2All" /\ ret' \in {"loop", "messages"}
      /\ UNCHANGED <<run, items, socketVars, selectVars, clientVars>>
  BY DEF MsgBroadcast, IdleBroadcast
<1>2. que' \in Seq(Message) /\ HandledType'
  <2>1. CASE MsgBroadcast
    BY <2>1, MessageTaken DEF MsgBroadcast
  <2>2. CASE IdleBroadcast
    BY <2>2 DEF IdleBroadcast, IInv, TypeOK, HandledType
  <2> QED
    BY <2>1, <2>2
<1>3. items \in Seq(Client) /\ 1 \in 1 .. Len(items)
  BY <1>1, EmptySeq DEF IInv, TypeOK
<1>4. TypeOK'
  BY <1>1, <1>2, <1>3, TypeParts, PartsKept DEF IInv, Parts, ListType, Control, Terminal
<1>5. ListInv'
  BY <1>1, <1>3, SettlesList DEF IInv, ListInv, Sound, CursorOn, socketVars, clientVars
<1> QED
  BY <1>4, <1>5 DEF IInv

LEMMA Send2AllInv == IInv /\ Send2AllTurn => IInv'
<1> SUFFICES ASSUME IInv, Send2AllTurn PROVE IInv'
  OBVIOUS
<1>1. /\ items \in Seq(Client) /\ Len(items) \in Nat /\ cur \in 1 .. Len(items)
      /\ Current \in Client /\ ret \in {"loop", "messages"} /\ que \in Seq(Message)
      /\ pc = "send2All"
      /\ UNCHANGED <<run, selectVars, ret, clientVars, handled>>
  BY CurrentListed DEF Send2AllTurn, IInv, TypeOK
<1>2. /\ que' \in Seq(Message) /\ ListType' /\ SocketType'
      /\ Sound(items', alive', fds') /\ fds' = fds
      /\ pc' \in {"loop", "messages", "dead", "send2All"} /\ CursorOn'
  <2>1. CASE /\ SendOk(Current)
             /\ cur' = NextCursor(items, cur)
             /\ pc' = IF cur' = NoCurrent THEN ret ELSE pc
             /\ UNCHANGED <<items, que, alive, fds>>
    <3>1. cur' \in 0 .. Len(items) /\ (pc' = "send2All" => cur' \in 1 .. Len(items))
      BY <1>1, <2>1 DEF NextCursor, NoCurrent
    <3>2. pc' \in {"loop", "messages", "send2All"}
      BY <1>1, <2>1
    <3>3. out' \in [Client -> 0 .. MaxOut]
      BY <1>1, <2>1, SendOkType
    <3> QED
      BY <1>1, <2>1, <3>1, <3>2, <3>3
         DEF ListType, SocketType, CursorOn, IInv, TypeOK, ListInv, Sound
  <2>2. CASE SendBroken(Current, que, ret) \/ BufferFull(Current, que, ret)
    <3> HIDE DEF Current
    <3>1. /\ que' \in Seq(Message) /\ ListType' /\ SocketType'
          /\ Sound(items', alive', fds') /\ fds' = fds
          /\ pc' \in {"loop", "messages", "dead"}
      BY <1>1, <2>2, SendFailsInv
    <3> QED
      BY <3>1 DEF CursorOn
  <2> QED
    BY <2>1, <2>2 DEF Send2AllTurn
<1>3. TypeOK'
  BY <1>1, <1>2, TypeParts, PartsKept DEF IInv, Parts, Control, Terminal
<1>4. ListInv'
  BY <1>1, <1>2, SettlesList DEF clientVars
<1> QED
  BY <1>3, <1>4 DEF IInv

-----------------------------------------------------------------------------
(* killServer() from elsewhere, and the destructor.                        *)

LEMMA KillInv == IInv /\ KillServer => IInv'
<1> SUFFICES ASSUME IInv, KillServer PROVE IInv'
  OBVIOUS
<1>1. TypeOK'
  BY TypeParts, PartsKept DEF KillServer, IInv, Parts
<1> QED
  BY <1>1 DEF KillServer, IInv, ListInv, Sound, CursorOn, AcceptedOnce, SelectedListed,
              listVars, socketVars, selectVars, clientVars

LEMMA DestroyInv == IInv /\ Destroy => IInv'
<1> SUFFICES ASSUME IInv, Destroy PROVE IInv'
  OBVIOUS
<1>1. items' \in Seq(Client) /\ Len(items') = 0 /\ que' \in Seq(Message)
  BY EmptySeq DEF Destroy
<1>2. cur' = 0
  BY DEF Destroy, NoCurrent, IInv, TypeOK
<1>3. ListType' /\ SocketType'
  BY <1>1, <1>2 DEF Destroy, ListType, SocketType, IInv, TypeOK
<1>4. TypeOK'
  BY <1>1, <1>3, TypeParts, PartsKept DEF Destroy, IInv, Parts, Control, Terminal
<1>5. Sound(items', alive', fds')
  BY <1>1 DEF Sound
<1>6. ListInv'
  BY <1>5, SettlesList DEF Destroy, CursorOn, clientVars
<1> QED
  BY <1>4, <1>6 DEF IInv

LEMMA StepInv == IInv /\ [Next]_vars => IInv'
<1> SUFFICES ASSUME IInv, [Next]_vars PROVE IInv'
  OBVIOUS
<1>1. CASE ServerStep
  BY <1>1, ControlStep, SelectInv, StartScanInv, AcceptInv, ScanServedInv, ScanDropsInv,
     MsgPlainInv, MsgReplyInv, KickInv, BroadcastInv, Send2AllInv DEF ServerStep
<1>2. CASE UNCHANGED vars
  <2>1. TypeOK'
    BY <1>2, TypeParts, PartsKept DEF vars, IInv, Parts
  <2> QED
    BY <1>2, <2>1
       DEF vars, IInv, ListInv, Sound, CursorOn, AcceptedOnce, SelectedListed,
           listVars, socketVars, selectVars, clientVars
<1> QED
  BY <1>1, <1>2, ClientStepInv, KillInv, DestroyInv DEF Next

LEMMA InvHolds == Spec => []IInv
BY InitInv, StepInv, PTL DEF Spec

-----------------------------------------------------------------------------
(* The variables of the server keep their types; in particular the cursor  *)
(* of m_listClients never leaves the list and no output buffer is over its *)
(* limit.                                                                  *)
THEOREM TypeCorrect == Spec => []TypeOK
<1>1. IInv => TypeOK
  BY DEF IInv
<1> QED
  BY InvHolds, <1>1, PTL

(* Whatever the application calls and the network does, m_listClients      *)
(* lists no connection twice and no deleted ServerSocket, and both loops   *)
(* over it, the scan and send2All(), are on an entry at every turn.        *)
THEOREM ListStaysSound == Spec => []ListSound
BY InvHolds, ListSoundFollows, PTL

-----------------------------------------------------------------------------
(* Where removeSocket() is never reached, neither from the application nor *)
(* from a failing send, what is held is what is listed.                    *)

NoRemoveSocket == AppActs \cap {"kick", "idleKick"} = {} /\ "sendfail" \notin Faults

Held(list, al, open) ==
  LET listed == {list[i] : i \in 1 .. Len(list)} IN al = listed /\ open = listed

LEMMA RemovalHeld ==
  ASSUME NEW S, NEW s \in Seq(S), NEW al, NEW open, Sound(s, al, open), Held(s, al, open),
         NEW i \in 1 .. Len(s)
  PROVE  Held(Without(s, i), al \ {s[i]}, open \ {s[i]})
<1> DEFINE w == Without(s, i)
<1>0. Len(s) \in Nat /\ i \in Nat
  BY LenProperties
<1>1. /\ Len(w) = Len(s) - 1
      /\ \A j \in 1 .. Len(w) : w[j] = IF j < i THEN s[j] ELSE s[j + 1]
  BY <1>0, WithoutEntry
<1>2. ASSUME NEW j \in 1 .. Len(s), j # i
      PROVE  \E k \in 1 .. Len(w) : w[k] = s[j]
  <2>1. CASE j < i
    BY <1>0, <1>1, <2>1
  <2>2. CASE j > i
    <3>1. j - 1 \in 1 .. Len(w) /\ ~(j - 1 < i) /\ (j - 1) + 1 = j
      BY <1>0, <1>1, <2>2
    <3> QED
      BY <1>1, <3>1
  <2> QED
    BY <1>0, <1>2, <2>1, <2>2
<1>3. Sound(w, al \ {s[i]}, open \ {s[i]})
  BY RemovalSound
<1> HIDE DEF w
<1>4. {w[j] : j \in 1 .. Len(w)} = {s[j] : j \in 1 .. Len(s)} \ {s[i]}
  <2>1. \A j \in 1 .. Len(w) : w[j] \in al \ {s[i]}
    BY <1>3 DEF Sound
  <2>2. al = {s[j] : j \in 1 .. Len(s)}
    BY DEF Held
  <2> QED
    BY <1>2, <2>1, <2>2
<1> QED
  BY <1>4 DEF Held, w

HeldInv == pc # "destroyed" => Held(items, alive, fds)

LEMMA HeldStep ==
  ASSUME NoRemoveSocket
  PROVE  IInv /\ HeldInv /\ [Next]_vars => HeldInv'
<1> SUFFICES ASSUME IInv, HeldInv, [Next]_vars PROVE HeldInv'
  OBVIOUS
<1>1. CASE AcceptConnection
  <2>1. PICK c \in backlog :
          /\ items' = Append(items, c)
          /\ alive' = alive \cup {c} /\ fds' = fds \cup {c}
    BY <1>1 DEF AcceptConnection
  <2>2. c \in Client /\ items \in Seq(Client)
    BY DEF IInv, TypeOK
  <2>3. /\ Len(items') = Len(items) + 1 /\ Len(items) \in Nat
        /\ items'[Len(items) + 1] = c
        /\ \A i \in 1 .. Len(items) : items'[i] = items[i]
    BY <2>1, <2>2, AppendProperties, LenProperties
  <2>4. {items'[i] : i \in 1 .. Len(items')} = {items[i] : i \in 1 .. Len(items)} \cup {c}
    <3>1. \A i \in 1 .. Len(items') : i \in 1 .. Len(items) \/ i = Len(items) + 1
      BY <2>3
    <3>2. Len(items) + 1 \in 1 .. Len(items') /\ \A i \in 1 .. Len(items) : i \in 1 .. Len(items')
      BY <2>3
    <3> QED
      BY <2>3, <3>1, <3>2
  <2> QED
    BY <1>1, <2>1, <2>4 DEF AcceptConnection, HeldInv, Held
<1>2. CASE ScanClosed \/ ScanInvalid \/ ScanSendFails
  <2>1. /\ pc = "scan" /\ items' = Without(items, cur)
        /\ alive' = alive \ {items[cur]} /\ fds' = fds \ {items[cur]}
    BY <1>2 DEF ScanClosed, ScanInvalid, ScanSendFails, DropCurrent, Current
  <2>2. items \in Seq(Client) /\ cur \in 1 .. Len(items)
    BY <2>1, CurrentListed
  <2>3. Held(items', alive', fds')
    BY <2>1, <2>2, RemovalHeld DEF IInv, ListInv, HeldInv
  <2> QED
    BY <2>3 DEF HeldInv
<1>3. CASE Destroy
  BY <1>3 DEF Destroy, HeldInv
<1>4. \A c, q, back : ~SendBroken(c, q, back)
  BY DEF NoRemoveSocket, SendBroken, SendMayFail
<1>5. ~MsgKick /\ ~IdleKick
  BY DEF NoRemoveSocket, MsgKick, IdleKick
<1>6. CASE MsgReply \/ Send2AllTurn
  BY <1>4, <1>6
     DEF MsgReply, Send2AllTurn, SendOk, BufferFull, listVars, HeldInv, Held
<1>7. CASE \/ ClientStep \/ KillServer \/ StartServer \/ StopServer \/ Select \/ SelectError
           \/ NothingToDo \/ AcceptFails \/ StartScan \/ ScanServed \/ MsgIgnored \/ MsgKill
           \/ MsgBroadcast \/ MessagesDone \/ EndTurn \/ IdleBroadcast \/ UNCHANGED vars
  <2>1. UNCHANGED <<items, alive, fds>> /\ (pc = "destroyed" => pc' = "destroyed")
    BY <1>7
       DEF ClientStep, KillServer, StartServer, StopServer, Select, SelectError, NothingToDo,
           AcceptFails, StartScan, ScanServed, MsgIgnored, MsgKill, MsgBroadcast,
           MessagesDone, EndTurn, IdleBroadcast, vars, listVars, socketVars
  <2> QED
    BY <2>1 DEF HeldInv
<1> QED
  BY <1>1, <1>2, <1>3, <1>5, <1>6, <1>7 DEF Next, ServerStep

(* Without removeSocket(), every descriptor and every ServerSocket of a    *)
(* running server belongs to a listed client: the two catch clauses of the *)
(* scan release what they unlink.                                          *)
THEOREM NothingLeaksInScan ==
  ASSUME NoRemoveSocket
  PROVE  Spec => []NothingLeaks
<1>1. Init => HeldInv
  BY EmptySeq DEF Init, HeldInv, Held
<1>2. IInv /\ HeldInv /\ [Next]_vars => HeldInv'
  BY HeldStep
<1>3. IInv /\ HeldInv => NothingLeaks
  BY ListedEntries DEF IInv, HeldInv, Held, NothingLeaks
<1> QED
  BY InvHolds, <1>1, <1>2, <1>3, PTL DEF Spec


-----------------------------------------------------------------------------
(* What the application is told: the messages handled about a client, and  *)
(* behind them those in the queue.  q is a queue, g what has been handled. *)

Heard == [kind : {"new", "data", "closed"}, no : 0 .. MaxPackets]

Before(q, c, i)    == {Entry(q[j]) : j \in {x \in 1 .. i - 1 : q[x].sock = c}}
ToldIn(q, g, c, i) == SE!ToSet(g) \cup Before(q, c, i)
AllIn(q, g, c)     == ToldIn(q, g, c, Len(q) + 1)

InOrder(q, g, c) ==
  /\ \A i \in 1 .. Len(g) : g[i].kind # "closed" => InTurn(g[i], {g[j] : j \in 1 .. i - 1})
  /\ \A i \in 1 .. Len(q) : q[i].sock = c /\ q[i].kind # "closed" =>
       InTurn(q[i], ToldIn(q, g, c, i))

ClosedLast(q, g, c) ==
  /\ \A i \in 1 .. Len(g) : g[i].kind = "closed" =>
       i > 1 /\ i = Len(g) /\ \A j \in 1 .. Len(q) : q[j].sock # c
  /\ \A i \in 1 .. Len(q) : q[i].sock = c /\ q[i].kind = "closed" =>
       ToldIn(q, g, c, i) # {} /\ \A j \in i + 1 .. Len(q) : q[j].sock # c

NoClosed(es) == \A e \in es : e.kind # "closed"

LEMMA NumbersOfUnion ==
  ASSUME NEW es, NEW fs
  PROVE  Numbers(es \cup fs) = Numbers(es) \cup Numbers(fs)
BY DEF Numbers

LEMMA HandledSet ==
  ASSUME NEW g \in Seq(Heard)
  PROVE  SE!ToSet(g) = {g[i] : i \in 1 .. Len(g)} /\ Len(g) \in Nat
<1>1. DOMAIN g = 1 .. Len(g) /\ Len(g) \in Nat
  BY LenProperties
<1> QED
  BY <1>1 DEF SE!ToSet

(* Where the first message of the queue goes when it is handled.           *)
Passed(q, g, c) == IF q[1].sock = c THEN Append(g, Entry(q[1])) ELSE g

LEMMA HandledNext ==
  ASSUME NEW q \in Seq(Message), q # << >>, NEW c, NEW g \in Seq(Heard)
  PROVE  /\ Tail(q) \in Seq(Message) /\ Len(Tail(q)) = Len(q) - 1 /\ Len(q) \in Nat \ {0}
         /\ \A i \in 1 .. Len(Tail(q)) : Tail(q)[i] = q[i + 1]
         /\ Passed(q, g, c) \in Seq(Heard)
         /\ q[1].sock = c =>
              /\ Len(Passed(q, g, c)) = Len(g) + 1
              /\ Passed(q, g, c)[Len(g) + 1] = Entry(q[1])
              /\ \A i \in 1 .. Len(g) : Passed(q, g, c)[i] = g[i]
<1>1. /\ Tail(q) \in Seq(Message) /\ Len(Tail(q)) = Len(q) - 1
      /\ \A i \in 1 .. Len(Tail(q)) : Tail(q)[i] = q[i + 1]
  BY HeadTailProperties
<1>2. Len(q) \in Nat \ {0}
  BY EmptySeq
<1>3. q[1] \in Message
  BY <1>2, ElementOfSeq
<1>4. Entry(q[1]) \in Heard
  BY <1>3 DEF Entry, Heard, Message
<1>5. CASE q[1].sock = c
  <2> DEFINE e == Entry(q[1])
  <2>1. e \in Heard /\ Passed(q, g, c) = Append(g, e)
    BY <1>4, <1>5 DEF Passed
  <2> HIDE DEF e
  <2>2. /\ Append(g, e) \in Seq(Heard) /\ Len(Append(g, e)) = Len(g) + 1 /\ Len(g) \in Nat
        /\ Append(g, e)[Len(g) + 1] = e
        /\ \A i \in 1 .. Len(g) : Append(g, e)[i] = g[i]
    BY <2>1, AppendProperties, LenProperties
  <2>3. e = Entry(q[1])
    BY DEF e
  <2> QED
    BY <1>1, <1>2, <2>1, <2>2, <2>3
<1>6. CASE q[1].sock # c
  BY <1>1, <1>2, <1>6 DEF Passed
<1> QED
  BY <1>5, <1>6

(* Handling a message moves it from one side to the other.                 *)
LEMMA HandlingMoves ==
  ASSUME NEW q \in Seq(Message), q # << >>, NEW c, NEW g \in Seq(Heard)
  PROVE  /\ \A i \in 1 .. Len(q) : ToldIn(Tail(q), Passed(q, g, c), c, i) = ToldIn(q, g, c, i + 1)
         /\ AllIn(Tail(q), Passed(q, g, c), c) = AllIn(q, g, c)
<1> DEFINE t == Tail(q)
           p == Passed(q, g, c)
           n == Len(q)
<1>1. /\ Len(t) = n - 1 /\ n \in Nat \ {0} /\ p \in Seq(Heard)
      /\ \A i \in 1 .. n - 1 : t[i] = q[i + 1]
      /\ q[1].sock = c =>
           /\ Len(p) = Len(g) + 1 /\ p[Len(g) + 1] = Entry(q[1])
           /\ \A i \in 1 .. Len(g) : p[i] = g[i]
  BY HandledNext
<1>2. q[1].sock # c => p = g
  BY DEF Passed
<1>3. SE!ToSet(p) = SE!ToSet(g) \cup Before(q, c, 2)
  <2>1. Before(q, c, 2) = IF q[1].sock = c THEN {Entry(q[1])} ELSE {}
    BY DEF Before
  <2>2. CASE q[1].sock = c
    <3> DEFINE a == Len(g)
    <3>1. /\ SE!ToSet(p) = {p[i] : i \in 1 .. a + 1} /\ SE!ToSet(g) = {g[i] : i \in 1 .. a}
          /\ a \in Nat /\ p[a + 1] = Entry(q[1]) /\ \A i \in 1 .. a : p[i] = g[i]
      BY <1>1, <2>2, HandledSet
    <3> HIDE DEF a, p
    <3>2. \A i \in 1 .. a + 1 : i \in 1 .. a \/ i = a + 1
      BY <3>1
    <3>3. a + 1 \in 1 .. a + 1 /\ \A i \in 1 .. a : i \in 1 .. a + 1
      BY <3>1
    <3>4. {p[i] : i \in 1 .. a + 1} = {g[i] : i \in 1 .. a} \cup {Entry(q[1])}
      BY <3>1, <3>2, <3>3
    <3> QED
      BY <2>1, <2>2, <3>1, <3>4
  <2>3. CASE q[1].sock # c
    BY <1>2, <2>1, <2>3
  <2> QED
    BY <2>2, <2>3
<1> HIDE DEF t, p, n
<1>4. ASSUME NEW i \in 1 .. n
      PROVE  Before(q, c, 2) \cup Before(t, c, i) = Before(q, c, i + 1)
  <2>1. n \in Nat \ {0} /\ i \in Nat \ {0}
    BY <1>1
  <2>2. \A x \in 1 .. i - 1 : x + 1 \in 1 .. (i + 1) - 1 /\ t[x] = q[x + 1]
    BY <1>1, <2>1
  <2>3. \A x \in 1 .. (i + 1) - 1 : x = 1 \/ (x - 1 \in 1 .. i - 1 /\ (x - 1) + 1 = x)
    BY <2>1
  <2>4. 1 \in 1 .. (i + 1) - 1 /\ \A x : x \in 1 .. 2 - 1 <=> x = 1
    BY <2>1
  <2>5. ASSUME NEW e \in Before(q, c, i + 1)
        PROVE  e \in Before(q, c, 2) \cup Before(t, c, i)
    <3>1. PICK x \in 1 .. (i + 1) - 1 : q[x].sock = c /\ e = Entry(q[x])
      BY <2>5 DEF Before
    <3>2. CASE x = 1
      BY <2>4, <3>1, <3>2 DEF Before
    <3>3. CASE x # 1
      <4>1. PICK y \in 1 .. i - 1 : y + 1 = x
        BY <2>3, <3>1, <3>3
      <4>2. t[y] = q[x]
        BY <2>2, <4>1
      <4> QED
        BY <3>1, <4>1, <4>2 DEF Before
    <3> QED
      BY <3>2, <3>3
  <2>6. Before(q, c, 2) \subseteq Before(q, c, i + 1)
    BY <2>4 DEF Before
  <2>7. Before(t, c, i) \subseteq Before(q, c, i + 1)
    BY <2>2 DEF Before
  <2> QED
    BY <2>5, <2>6, <2>7
<1>5. \A i \in 1 .. n : ToldIn(t, p, c, i) = ToldIn(q, g, c, i + 1)
  BY <1>3, <1>4 DEF ToldIn
<1>6. AllIn(t, p, c) = AllIn(q, g, c)
  <2>1. n \in 1 .. n /\ Len(t) + 1 = n
    BY <1>1
  <2>2. ToldIn(t, p, c, n) = ToldIn(q, g, c, n + 1)
    BY <1>5, <2>1
  <2> QED
    BY <2>1, <2>2 DEF AllIn, n
<1> QED
  BY <1>5, <1>6 DEF t, p, n

LEMMA HandlingKeepsOrder ==
  ASSUME NEW q \in Seq(Message), q # << >>, NEW c, NEW g \in Seq(Heard), InOrder(q, g, c)
  PROVE  InOrder(Tail(q), Passed(q, g, c), c)
<1> DEFINE t == Tail(q)
           p == Passed(q, g, c)
           n == Len(q)
           a == Len(g)
<1>1. /\ Len(t) = n - 1 /\ n \in Nat \ {0} /\ p \in Seq(Heard) /\ a \in Nat
      /\ \A i \in 1 .. n - 1 : t[i] = q[i + 1]
  BY HandledNext, LenProperties
<1>2. q[1].sock # c => p = g
  BY DEF Passed
<1>3. q[1].sock = c =>
        Len(p) = a + 1 /\ p[a + 1] = Entry(q[1]) /\ \A i \in 1 .. a : p[i] = g[i]
  BY HandledNext
<1>4. \A i \in 1 .. n : ToldIn(t, p, c, i) = ToldIn(q, g, c, i + 1)
  BY HandlingMoves
<1>5. /\ \A i \in 1 .. a : g[i].kind # "closed" => InTurn(g[i], {g[j] : j \in 1 .. i - 1})
      /\ \A i \in 1 .. n : q[i].sock = c /\ q[i].kind # "closed" =>
           InTurn(q[i], ToldIn(q, g, c, i))
  BY DEF InOrder
<1>6. SE!ToSet(g) = {g[i] : i \in 1 .. a}
  BY HandledSet
<1> HIDE DEF t, p, n, a
<1>7. ASSUME NEW i \in 1 .. Len(t), t[i].sock = c, t[i].kind # "closed"
      PROVE  InTurn(t[i], ToldIn(t, p, c, i))
  <2>1. i \in 1 .. n /\ i + 1 \in 1 .. n /\ t[i] = q[i + 1]
    BY <1>1
  <2> QED
    BY <1>4, <1>5, <1>7, <2>1
<1>8. ASSUME NEW i \in 1 .. Len(p), p[i].kind # "closed"
      PROVE  InTurn(p[i], {p[j] : j \in 1 .. i - 1})
  <2>1. CASE q[1].sock # c
    BY <1>2, <1>5, <1>8, <2>1 DEF a
  <2>2. CASE q[1].sock = c /\ i \in 1 .. a
    <3>1. p[i] = g[i] /\ \A j \in 1 .. i - 1 : p[j] = g[j]
      BY <1>1, <1>3, <2>2
    <3>2. {p[j] : j \in 1 .. i - 1} = {g[j] : j \in 1 .. i - 1}
      BY <3>1
    <3> QED
      BY <1>5, <1>8, <2>2, <3>1, <3>2
  <2>3. CASE q[1].sock = c /\ i = a + 1
    <3>1. p[i] = Entry(q[1]) /\ (a + 1) - 1 = a
      BY <1>1, <1>3, <2>3
    <3>2. {p[j] : j \in 1 .. i - 1} = {g[j] : j \in 1 .. a}
      BY <1>3, <2>3, <3>1
    <3>3. ToldIn(q, g, c, 1) = {g[j] : j \in 1 .. a}
      BY <1>6 DEF ToldIn, Before
    <3>4. p[i].kind = q[1].kind /\ p[i].no = q[1].no
      BY <3>1 DEF Entry
    <3>5. InTurn(q[1], ToldIn(q, g, c, 1))
      BY <1>1, <1>5, <1>8, <2>3, <3>4
    <3> QED
      BY <3>2, <3>3, <3>4, <3>5 DEF InTurn
  <2> QED
    BY <1>1, <1>3, <1>8, <2>1, <2>2, <2>3
<1> QED
  BY <1>7, <1>8 DEF InOrder, t, p

LEMMA HandlingKeepsClosed ==
  ASSUME NEW q \in Seq(Message), q # << >>, NEW c, NEW g \in Seq(Heard), ClosedLast(q, g, c)
  PROVE  ClosedLast(Tail(q), Passed(q, g, c), c)
<1> DEFINE t == Tail(q)
           p == Passed(q, g, c)
           n == Len(q)
           a == Len(g)
<1>1. /\ Len(t) = n - 1 /\ n \in Nat \ {0} /\ p \in Seq(Heard) /\ a \in Nat
      /\ \A i \in 1 .. n - 1 : t[i] = q[i + 1]
  BY HandledNext, LenProperties
<1>2. q[1].sock # c => p = g
  BY DEF Passed
<1>3. q[1].sock = c =>
        Len(p) = a + 1 /\ p[a + 1] = Entry(q[1]) /\ \A i \in 1 .. a : p[i] = g[i]
  BY HandledNext
<1>4. \A i \in 1 .. n : ToldIn(t, p, c, i) = ToldIn(q, g, c, i + 1)
  BY HandlingMoves
<1>5. /\ \A i \in 1 .. a : g[i].kind = "closed" =>
           i > 1 /\ i = a /\ \A j \in 1 .. n : q[j].sock # c
      /\ \A i \in 1 .. n : q[i].sock = c /\ q[i].kind = "closed" =>
           ToldIn(q, g, c, i) # {} /\ \A j \in i + 1 .. n : q[j].sock # c
  BY DEF ClosedLast
<1>6. SE!ToSet(g) = {g[i] : i \in 1 .. a}
  BY HandledSet
<1> HIDE DEF t, p, n, a
<1>7. ASSUME NEW i \in 1 .. Len(t), t[i].sock = c, t[i].kind = "closed"
      PROVE  ToldIn(t, p, c, i) # {} /\ \A j \in i + 1 .. Len(t) : t[j].sock # c
  <2>1. i \in 1 .. n /\ i + 1 \in 1 .. n /\ t[i] = q[i + 1]
    BY <1>1
  <2>2. ToldIn(q, g, c, i + 1) # {} /\ \A j \in (i + 1) + 1 .. n : q[j].sock # c
    BY <1>5, <1>7, <2>1
  <2>3. \A j \in i + 1 .. Len(t) : j + 1 \in (i + 1) + 1 .. n /\ t[j] = q[j + 1]
    BY <1>1
  <2> QED
    BY <1>4, <2>1, <2>2, <2>3
<1>8. ASSUME NEW i \in 1 .. Len(p), p[i].kind = "closed"
      PROVE  i > 1 /\ i = Len(p) /\ \A j \in 1 .. Len(t) : t[j].sock # c
  <2>1. CASE q[1].sock # c
    <3>1. i > 1 /\ i = Len(p) /\ \A j \in 1 .. n : q[j].sock # c
      BY <1>2, <1>5, <1>8, <2>1 DEF a
    <3>2. \A j \in 1 .. Len(t) : j + 1 \in 1 .. n /\ t[j] = q[j + 1]
      BY <1>1
    <3> QED
      BY <3>1, <3>2
  <2>2. CASE q[1].sock = c /\ i \in 1 .. a
    <3>1. 1 \in 1 .. n /\ p[i] = g[i]
      BY <1>1, <1>3, <2>2
    <3> QED
      BY <1>5, <1>8, <2>2, <3>1
  <2>3. CASE q[1].sock = c /\ i = a + 1
    <3>1. 1 \in 1 .. n /\ q[1].kind = "closed"
      BY <1>1, <1>3, <1>8, <2>3 DEF Entry
    <3>2. ToldIn(q, g, c, 1) # {} /\ \A j \in 1 + 1 .. n : q[j].sock # c
      BY <1>5, <2>3, <3>1
    <3>3. a > 0
      BY <1>1, <1>6, <3>2 DEF ToldIn, Before
    <3>4. \A j \in 1 .. Len(t) : j + 1 \in 1 + 1 .. n /\ t[j] = q[j + 1]
      BY <1>1
    <3>5. i > 1 /\ i = Len(p)
      BY <1>1, <1>3, <2>3, <3>3
    <3>6. \A j \in 1 .. Len(t) : t[j].sock # c
      BY <3>2, <3>4
    <3> QED
      BY <3>5, <3>6
  <2> QED
    BY <1>1, <1>3, <1>8, <2>1, <2>2, <2>3
<1> QED
  BY <1>7, <1>8 DEF ClosedLast, t, p

-----------------------------------------------------------------------------
(* Messages posted behind the others leave what comes before them alone.   *)

LEMMA PostedBehind ==
  ASSUME NEW q \in Seq(Message), NEW ms \in Seq(Message)
  PROVE  /\ q \o ms \in Seq(Message) /\ Len(q \o ms) = Len(q) + Len(ms)
         /\ Len(q) \in Nat /\ Len(ms) \in Nat
         /\ \A i \in 1 .. Len(q) : (q \o ms)[i] = q[i]
         /\ \A i \in 1 .. Len(ms) : (q \o ms)[Len(q) + i] = ms[i]
<1> DEFINE r == q \o ms
           n == Len(q)
           m == Len(ms)
<1>1. /\ r \in Seq(Message) /\ Len(r) = n + m /\ n \in Nat /\ m \in Nat
      /\ \A i \in 1 .. n + m : r[i] = IF i <= n THEN q[i] ELSE ms[i - n]
  BY ConcatProperties, LenProperties
<1> HIDE DEF r, n, m
<1>2. \A i \in 1 .. n : i \in 1 .. n + m /\ i <= n
  BY <1>1
<1>3. \A i \in 1 .. m : n + i \in 1 .. n + m /\ ~(n + i <= n) /\ (n + i) - n = i
  BY <1>1
<1>4. (\A i \in 1 .. n : r[i] = q[i]) /\ (\A i \in 1 .. m : r[n + i] = ms[i])
  BY <1>1, <1>2, <1>3
<1> QED
  BY <1>1, <1>4 DEF r, n, m

LEMMA ToldUpTo ==
  ASSUME NEW q \in Seq(Message), NEW ms \in Seq(Message), NEW c, NEW g,
         NEW i \in 1 .. Len(q) + 1
  PROVE  ToldIn(q \o ms, g, c, i) = ToldIn(q, g, c, i)
<1>1. \A x \in 1 .. i - 1 : (q \o ms)[x] = q[x]
  <2>1. (\A x \in 1 .. Len(q) : (q \o ms)[x] = q[x]) /\ Len(q) \in Nat
    BY PostedBehind
  <2> QED
    BY <2>1
<1> QED
  BY <1>1 DEF ToldIn, Before

LEMMA ToldBehind ==
  ASSUME NEW q \in Seq(Message), NEW ms \in Seq(Message), NEW c, NEW g,
         NEW i \in 1 .. Len(ms) + 1
  PROVE  ToldIn(q \o ms, g, c, Len(q) + i) = AllIn(q, g, c) \cup Before(ms, c, i)
<1> DEFINE r == q \o ms
           n == Len(q)
           m == Len(ms)
<1>1. n \in Nat /\ m \in Nat /\ i \in 1 .. m + 1
  BY PostedBehind
<1>2. \A x \in 1 .. n : r[x] = q[x]
  BY PostedBehind
<1>3. \A x \in 1 .. m : r[n + x] = ms[x]
  BY PostedBehind
<1> HIDE DEF r, n, m
<1>4. Before(r, c, n + i) = Before(q, c, n + 1) \cup Before(ms, c, i)
  <2>1. /\ \A x \in 1 .. (n + 1) - 1 : x \in 1 .. (n + i) - 1 /\ r[x] = q[x]
        /\ \A x \in 1 .. i - 1 : n + x \in 1 .. (n + i) - 1 /\ r[n + x] = ms[x]
    BY <1>1, <1>2, <1>3
  <2>2. \A x \in 1 .. (n + i) - 1 :
          x \in 1 .. (n + 1) - 1 \/ \E y \in 1 .. i - 1 : x = n + y
    <3>1. ASSUME NEW x \in 1 .. (n + i) - 1, x \notin 1 .. (n + 1) - 1
          PROVE  x - n \in 1 .. i - 1 /\ x = n + (x - n)
      BY <1>1, <3>1
    <3> QED
      BY <3>1
  <2>3. Before(r, c, n + i) \subseteq Before(q, c, n + 1) \cup Before(ms, c, i)
    <3>1. SUFFICES ASSUME NEW x \in 1 .. (n + i) - 1, r[x].sock = c
                   PROVE  Entry(r[x]) \in Before(q, c, n + 1) \cup Before(ms, c, i)
      BY DEF Before
    <3>2. CASE x \in 1 .. (n + 1) - 1
      BY <2>1, <3>1, <3>2 DEF Before
    <3>3. CASE \E y \in 1 .. i - 1 : x = n + y
      BY <2>1, <3>1, <3>3 DEF Before
    <3> QED
      BY <2>2, <3>2, <3>3
  <2>4. Before(q, c, n + 1) \subseteq Before(r, c, n + i)
    BY <2>1 DEF Before
  <2>5. Before(ms, c, i) \subseteq Before(r, c, n + i)
    BY <2>1 DEF Before
  <2> QED
    BY <2>3, <2>4, <2>5
<1> QED
  BY <1>4 DEF AllIn, ToldIn, r, n, m

LEMMA AllPosted ==
  ASSUME NEW q \in Seq(Message), NEW ms \in Seq(Message), NEW c, NEW g
  PROVE  AllIn(q \o ms, g, c) = AllIn(q, g, c) \cup Before(ms, c, Len(ms) + 1)
<1> DEFINE r == q \o ms
           n == Len(q)
           m == Len(ms)
<1>1. /\ Len(r) = n + m /\ n \in Nat /\ m \in Nat
  BY PostedBehind
<1>0. \A i \in 1 .. m + 1 : ToldIn(r, g, c, n + i) = AllIn(q, g, c) \cup Before(ms, c, i)
  BY ToldBehind
<1> HIDE DEF r, n, m
<1>2. m + 1 \in 1 .. m + 1 /\ n + (m + 1) = Len(r) + 1
  BY <1>1
<1>3. ToldIn(r, g, c, n + (m + 1)) = AllIn(q, g, c) \cup Before(ms, c, m + 1)
  BY <1>1, <1>0, <1>2
<1>4. AllIn(r, g, c) = ToldIn(r, g, c, n + (m + 1))
  BY <1>2 DEF AllIn
<1> QED
  BY <1>3, <1>4 DEF r, m

(* The messages ms about c are in turn behind the earlier ones; they are   *)
(* no more than the one pcClosed that comes last.                          *)
GoOn(ms, earlier, c) ==
  \A i \in 1 .. Len(ms) : ms[i].sock = c /\ ms[i].kind # "closed" =>
    InTurn(ms[i], earlier \cup Before(ms, c, i))
EndOnce(ms, earlier, c) ==
  \A i \in 1 .. Len(ms) : ms[i].sock = c /\ ms[i].kind = "closed" =>
    /\ earlier \cup Before(ms, c, i) # {}
    /\ \A j \in i + 1 .. Len(ms) : ms[j].sock # c

LEMMA PostedInOrder ==
  ASSUME NEW q \in Seq(Message), NEW ms \in Seq(Message), NEW c, NEW g, InOrder(q, g, c),
         GoOn(ms, AllIn(q, g, c), c)
  PROVE  InOrder(q \o ms, g, c)
<1> DEFINE r == q \o ms
           n == Len(q)
           m == Len(ms)
<1>1. /\ Len(r) = n + m /\ n \in Nat /\ m \in Nat
      /\ \A i \in 1 .. n : r[i] = q[i]
      /\ \A i \in 1 .. m : r[n + i] = ms[i]
  BY PostedBehind
<1>0. /\ \A i \in 1 .. n + 1 : ToldIn(r, g, c, i) = ToldIn(q, g, c, i)
      /\ \A i \in 1 .. m + 1 : ToldIn(r, g, c, n + i) = AllIn(q, g, c) \cup Before(ms, c, i)
  BY ToldUpTo, ToldBehind
<1> HIDE DEF r, n, m
<1>2. ASSUME NEW i \in 1 .. Len(r), r[i].sock = c, r[i].kind # "closed"
      PROVE  InTurn(r[i], ToldIn(r, g, c, i))
  <2>1. CASE i \in 1 .. n
    <3>1. i \in 1 .. n + 1 /\ r[i] = q[i]
      BY <1>1, <2>1
    <3> QED
      BY <1>1, <1>0, <1>2, <2>1, <3>1 DEF InOrder, n
  <2>2. CASE i \notin 1 .. n
    <3>1. PICK x \in 1 .. m : i = n + x
      <4>1. i - n \in 1 .. m /\ i = n + (i - n)
        BY <1>1, <2>2
      <4> QED
        BY <4>1
    <3>2. x \in 1 .. m + 1 /\ r[i] = ms[x]
      BY <1>1, <3>1
    <3>3. InTurn(ms[x], AllIn(q, g, c) \cup Before(ms, c, x))
      BY <1>2, <3>1, <3>2 DEF GoOn, m
    <3> QED
      BY <1>1, <1>0, <3>1, <3>2, <3>3
  <2> QED
    BY <2>1, <2>2
<1>3. InOrder(r, g, c)
  BY <1>2 DEF InOrder
<1> QED
  BY <1>3 DEF r

(* Nothing may follow a pcClosed, and it is not the first.                 *)
LEMMA PostedClosedLast ==
  ASSUME NEW q \in Seq(Message), NEW ms \in Seq(Message), NEW c, NEW g \in Seq(Heard),
         ClosedLast(q, g, c), NoClosed(AllIn(q, g, c)),
         EndOnce(ms, AllIn(q, g, c), c)
  PROVE  ClosedLast(q \o ms, g, c)
<1> DEFINE r == q \o ms
           n == Len(q)
           m == Len(ms)
<1>1. /\ Len(r) = n + m /\ n \in Nat /\ m \in Nat
      /\ \A i \in 1 .. n : r[i] = q[i]
      /\ \A i \in 1 .. m : r[n + i] = ms[i]
  BY PostedBehind
<1>0. \A i \in 1 .. m + 1 : ToldIn(r, g, c, n + i) = AllIn(q, g, c) \cup Before(ms, c, i)
  BY ToldBehind
<1>2. \A i \in 1 .. Len(g) : g[i].kind # "closed"
  <2>1. \A i \in 1 .. Len(g) : g[i] \in AllIn(q, g, c)
    BY HandledSet DEF AllIn, ToldIn
  <2> QED
    BY <2>1 DEF NoClosed
<1>3. \A i \in 1 .. n : q[i].sock = c => q[i].kind # "closed"
  <2>1. \A i \in 1 .. n : i \in 1 .. (n + 1) - 1
    BY <1>1
  <2>2. \A i \in 1 .. n : q[i].sock = c => Entry(q[i]) \in AllIn(q, g, c)
    BY <2>1 DEF AllIn, ToldIn, Before
  <2> QED
    BY <2>2 DEF NoClosed, Entry
<1> HIDE DEF r, n, m
<1>4. ASSUME NEW i \in 1 .. Len(r), r[i].sock = c, r[i].kind = "closed"
      PROVE  ToldIn(r, g, c, i) # {} /\ \A j \in i + 1 .. Len(r) : r[j].sock # c
  <2>1. i \notin 1 .. n
    BY <1>1, <1>3, <1>4
  <2>2. PICK x \in 1 .. m : i = n + x
    <3>1. i - n \in 1 .. m /\ i = n + (i - n)
      BY <1>1, <2>1
    <3> QED
      BY <3>1
  <2>3. x \in 1 .. m + 1 /\ r[i] = ms[x]
    BY <1>1, <2>2
  <2>4. AllIn(q, g, c) \cup Before(ms, c, x) # {} /\ \A j \in x + 1 .. m : ms[j].sock # c
    BY <1>4, <2>2, <2>3 DEF EndOnce, m
  <2>5. \A j \in i + 1 .. Len(r) : j - n \in x + 1 .. m /\ j - n \in 1 .. m /\ n + (j - n) = j
    BY <1>1, <2>2
  <2>6. \A j \in i + 1 .. Len(r) : r[j] = ms[j - n]
    BY <1>1, <2>5
  <2> QED
    BY <1>1, <1>0, <2>2, <2>3, <2>4, <2>5, <2>6
<1> QED
  BY <1>2, <1>4 DEF ClosedLast, r

(* Messages about others.                                                  *)
Aside(ms, c) == \A i \in 1 .. Len(ms) : ms[i].sock # c

LEMMA PostedAside ==
  ASSUME NEW q \in Seq(Message), NEW ms \in Seq(Message), NEW c, NEW g \in Seq(Heard),
         Aside(ms, c)
  PROVE  /\ AllIn(q \o ms, g, c) = AllIn(q, g, c)
         /\ InOrder(q, g, c) => InOrder(q \o ms, g, c)
         /\ ClosedLast(q, g, c) => ClosedLast(q \o ms, g, c)
<1> DEFINE r == q \o ms
           n == Len(q)
           m == Len(ms)
<1>1. /\ Len(r) = n + m /\ n \in Nat /\ m \in Nat
      /\ \A i \in 1 .. n : r[i] = q[i]
      /\ \A i \in 1 .. m : r[n + i] = ms[i]
  BY PostedBehind
<1>0. \A i \in 1 .. n + 1 : ToldIn(r, g, c, i) = ToldIn(q, g, c, i)
  BY ToldUpTo
<1>2. AllIn(r, g, c) = AllIn(q, g, c)
  <2>1. \A x \in 1 .. (m + 1) - 1 : ms[x].sock # c
    BY <1>1 DEF Aside
  <2>2. Before(ms, c, m + 1) = {}
    BY <2>1 DEF Before
  <2>3. AllIn(q \o ms, g, c) = AllIn(q, g, c) \cup Before(ms, c, Len(ms) + 1)
    BY AllPosted
  <2> QED
    BY <2>2, <2>3
<1>3. \A i \in 1 .. Len(r) : r[i].sock = c => i \in 1 .. n
  <2>1. ASSUME NEW i \in 1 .. Len(r), i \notin 1 .. n PROVE r[i].sock # c
    <3>1. i - n \in 1 .. m /\ n + (i - n) = i
      BY <1>1, <2>1
    <3>2. r[n + (i - n)] = ms[i - n] /\ ms[i - n].sock # c
      BY <1>1, <3>1 DEF Aside
    <3> QED
      BY <3>1, <3>2
  <2> QED
    BY <2>1
<1>4. \A i \in 1 .. n : i \in 1 .. n + 1
  BY <1>1
<1> HIDE DEF r, n, m
<1>5. InOrder(q, g, c) => InOrder(r, g, c)
  BY <1>1, <1>0, <1>3, <1>4 DEF InOrder, n
<1>6. ClosedLast(q, g, c) => ClosedLast(r, g, c)
  <2> SUFFICES ASSUME ClosedLast(q, g, c) PROVE ClosedLast(r, g, c)
    OBVIOUS
  <2>1. ASSUME NEW i \in 1 .. Len(g), g[i].kind = "closed"
        PROVE  i > 1 /\ i = Len(g) /\ \A j \in 1 .. Len(r) : r[j].sock # c
    BY <1>1, <1>3, <2>1 DEF ClosedLast, n
  <2>2. ASSUME NEW i \in 1 .. Len(r), r[i].sock = c, r[i].kind = "closed"
        PROVE  ToldIn(r, g, c, i) # {} /\ \A j \in i + 1 .. Len(r) : r[j].sock # c
    <3>1. i \in 1 .. n /\ i \in 1 .. n + 1 /\ r[i] = q[i]
      BY <1>1, <1>3, <1>4, <2>2
    <3>2. ToldIn(q, g, c, i) # {} /\ \A j \in i + 1 .. n : q[j].sock # c
      BY <2>2, <3>1 DEF ClosedLast, n
    <3>3. \A j \in i + 1 .. Len(r) : j \in 1 .. Len(r) /\ (j \in 1 .. n => j \in i + 1 .. n)
      BY <1>1, <3>1
    <3> QED
      BY <1>1, <1>0, <1>3, <3>1, <3>2, <3>3
  <2> QED
    BY <2>1, <2>2 DEF ClosedLast
<1> QED
  BY <1>2, <1>5, <1>6 DEF r

LEMMA PostedOne ==
  ASSUME NEW q \in Seq(Message), NEW m \in Message
  PROVE  /\ Append(q, m) = q \o <<m>> /\ <<m>> \in Seq(Message)
         /\ Len(<<m>>) = 1 /\ <<m>>[1] = m
         /\ \A c : Before(<<m>>, c, 1) = {}
         /\ \A c : Before(<<m>>, c, 2) = IF m.sock = c THEN {Entry(m)} ELSE {}
<1>1. Append(q, m) = q \o <<m>>
  BY AppendIsConcat
<1>2. \A c : Before(<<m>>, c, 1) = {}
  BY DEF Before
<1>3. \A c : Before(<<m>>, c, 2) = IF m.sock = c THEN {Entry(m)} ELSE {}
  <2>1. \A x : x \in 1 .. 2 - 1 <=> x = 1
    OBVIOUS
  <2>2. <<m>>[1] = m
    OBVIOUS
  <2> HIDE DEF Entry
  <2> QED
    BY <2>1, <2>2 DEF Before
<1>4. <<m>> \in Seq(Message) /\ Len(<<m>>) = 1 /\ <<m>>[1] = m
  OBVIOUS
<1> QED
  BY <1>1, <1>2, <1>3, <1>4

(* pcClosed disturbs no order of packets; it is the last about its client  *)
(* if that client was heard of and not closed before.                      *)
LEMMA ClosedPosted ==
  ASSUME NEW q \in Seq(Message), NEW d \in Client, NEW c, NEW g \in Seq(Heard)
  PROVE  LET r == Append(q, ClosedMsg(d)) IN
         /\ r \in Seq(Message)
         /\ InOrder(q, g, c) => InOrder(r, g, c)
         /\ Numbers(AllIn(r, g, c)) = Numbers(AllIn(q, g, c))
         /\ c # d => AllIn(r, g, c) = AllIn(q, g, c)
         /\ ClosedLast(q, g, c) /\ (c = d => AllIn(q, g, c) # {} /\ NoClosed(AllIn(q, g, c)))
              => ClosedLast(r, g, c)
<1> DEFINE m == ClosedMsg(d)
<1>1. m \in Message /\ m.sock = d /\ m.kind = "closed"
  BY ServerConstants DEF ClosedMsg, Message
<1> HIDE DEF m
<1>2. /\ Append(q, m) = q \o <<m>> /\ <<m>> \in Seq(Message) /\ Len(<<m>>) = 1 /\ <<m>>[1] = m
      /\ Before(<<m>>, c, 1) = {}
      /\ Before(<<m>>, c, 2) = IF m.sock = c THEN {Entry(m)} ELSE {}
  BY <1>1, PostedOne
<1> DEFINE ms == <<m>>
<1>3. /\ Append(q, m) = q \o ms /\ ms \in Seq(Message) /\ Len(ms) = 1 /\ ms[1] = m
      /\ Before(ms, c, 1) = {}
      /\ Before(ms, c, 2) = IF m.sock = c THEN {Entry(m)} ELSE {}
  BY <1>2
<1> HIDE DEF ms
<1>4. q \o ms \in Seq(Message)
  BY <1>3, ConcatProperties
<1>5. CASE c # d
  <2>1. Aside(ms, c)
    BY <1>1, <1>3, <1>5 DEF Aside
  <2>2. /\ AllIn(q \o ms, g, c) = AllIn(q, g, c)
        /\ InOrder(q, g, c) => InOrder(q \o ms, g, c)
        /\ ClosedLast(q, g, c) => ClosedLast(q \o ms, g, c)
    BY <1>3, <2>1, PostedAside
  <2> QED
    BY <1>3, <1>4, <1>5, <2>2 DEF m
<1>6. CASE c = d
  <2>1. GoOn(ms, AllIn(q, g, c), c)
    BY <1>1, <1>3 DEF GoOn
  <2>2. AllIn(q, g, c) # {} => EndOnce(ms, AllIn(q, g, c), c)
    BY <1>3 DEF EndOnce
  <2>3. InOrder(q, g, c) => InOrder(q \o ms, g, c)
    BY <1>3, <2>1, PostedInOrder
  <2>4. AllIn(q \o ms, g, c) = AllIn(q, g, c) \cup {Entry(m)}
    <3>1. AllIn(q \o ms, g, c) = AllIn(q, g, c) \cup Before(ms, c, Len(ms) + 1)
      BY <1>3, AllPosted
    <3>2. Len(ms) + 1 = 2
      BY <1>3
    <3> QED
      BY <1>1, <1>3, <1>6, <3>1, <3>2
  <2>5. Numbers({Entry(m)}) = {}
    BY <1>1 DEF Numbers, Entry
  <2>6. Numbers(AllIn(q \o ms, g, c)) = Numbers(AllIn(q, g, c))
    <3>1. Numbers(AllIn(q, g, c) \cup {Entry(m)}) = Numbers(AllIn(q, g, c)) \cup Numbers({Entry(m)})
      BY NumbersOfUnion
    <3> QED
      BY <2>4, <2>5, <3>1
  <2>7. ClosedLast(q, g, c) /\ AllIn(q, g, c) # {} /\ NoClosed(AllIn(q, g, c))
          => ClosedLast(q \o ms, g, c)
    BY <1>3, <2>2, PostedClosedLast
  <2> QED
    BY <1>3, <1>4, <1>6, <2>3, <2>6, <2>7 DEF m
<1> QED
  BY <1>5, <1>6

(* The packets n + 1 .. n + k of a client are in turn behind its first n.  *)
LEMMA DataGoOn ==
  ASSUME NEW d \in Client, NEW k \in Nat, NEW n \in Nat, NEW es, Numbers(es) = 0 .. n,
         DataMsgs(d, k) \in Seq(Message),
         \A i \in 1 .. k : wire[d][i] = n + i
  PROVE  /\ GoOn(DataMsgs(d, k), es, d)
         /\ Numbers(es \cup Before(DataMsgs(d, k), d, Len(DataMsgs(d, k)) + 1)) = 0 .. n + k
<1> DEFINE ms == DataMsgs(d, k)
<1>1. /\ Len(ms) = k
      /\ \A i \in 1 .. k : ms[i].sock = d /\ ms[i].kind = "data" /\ ms[i].no = n + i
  BY DEF DataMsgs, DataMsg
<1> HIDE DEF ms
<1>2. ASSUME NEW i \in 1 .. k + 1
      PROVE  Numbers(es \cup Before(ms, d, i)) = 0 .. n + (i - 1)
  <2>1. Numbers(Before(ms, d, i)) = {n + x : x \in 1 .. i - 1}
    <3>1. \A x \in 1 .. i - 1 : x \in 1 .. k
      OBVIOUS
    <3>2. /\ \A x \in 1 .. i - 1 : ms[x].sock = d
          /\ \A x \in 1 .. i - 1 : Entry(ms[x]).kind # "closed" /\ Entry(ms[x]).no = n + x
      BY <1>1, <3>1 DEF Entry
    <3>3. \A e \in Before(ms, d, i) : \E x \in 1 .. i - 1 : e = Entry(ms[x])
      BY DEF Before
    <3>4. \A x \in 1 .. i - 1 : Entry(ms[x]) \in Before(ms, d, i)
      BY <3>2 DEF Before
    <3>5. Numbers(Before(ms, d, i)) \subseteq {n + x : x \in 1 .. i - 1}
      <4>1. \A e \in Before(ms, d, i) : e.no \in {n + x : x \in 1 .. i - 1}
        BY <3>2, <3>3
      <4> QED
        BY <4>1 DEF Numbers
    <3>6. {n + x : x \in 1 .. i - 1} \subseteq Numbers(Before(ms, d, i))
      BY <3>2, <3>4 DEF Numbers
    <3> QED
      BY <3>5, <3>6
  <2>2. 0 .. n + (i - 1) = (0 .. n) \cup {n + x : x \in 1 .. i - 1}
    <3>1. \A j \in 0 .. n + (i - 1) : j \in 0 .. n \/ (j - n \in 1 .. i - 1 /\ j = n + (j - n))
      OBVIOUS
    <3>2. \A x \in 1 .. i - 1 : n + x \in 0 .. n + (i - 1)
      OBVIOUS
    <3>3. 0 .. n \subseteq 0 .. n + (i - 1)
      OBVIOUS
    <3> QED
      BY <3>1, <3>2, <3>3
  <2>3. Numbers(es \cup Before(ms, d, i)) = Numbers(es) \cup Numbers(Before(ms, d, i))
    BY NumbersOfUnion
  <2> QED
    BY <2>1, <2>2, <2>3
<1>3. GoOn(ms, es, d)
  <2> SUFFICES ASSUME NEW i \in 1 .. k PROVE InTurn(ms[i], es \cup Before(ms, d, i))
    BY <1>1 DEF GoOn
  <2>1. ms[i].kind = "data" /\ ms[i].no = n + i /\ i \in 1 .. k + 1
    BY <1>1
  <2>2. n + i # 0 /\ n + (i - 1) = (n + i) - 1
    OBVIOUS
  <2>3. Numbers(es \cup Before(ms, d, i)) = 0 .. (n + i) - 1
    BY <1>2, <2>1, <2>2
  <2> QED
    BY <2>1, <2>2, <2>3 DEF InTurn
<1>4. Numbers(es \cup Before(ms, d, Len(ms) + 1)) = 0 .. n + k
  <2>1. k + 1 \in 1 .. k + 1 /\ n + ((k + 1) - 1) = n + k
    OBVIOUS
  <2>2. Numbers(es \cup Before(ms, d, k + 1)) = 0 .. n + ((k + 1) - 1)
    BY <1>2, <2>1
  <2> QED
    BY <1>1, <2>1, <2>2
<1> QED
  BY <1>3, <1>4 DEF ms

(* Data messages close nothing and are about their sender.                 *)
LEMMA DataOpen ==
  ASSUME NEW d \in Client, NEW k \in Nat, DataMsgs(d, k) \in Seq(Message), NEW c
  PROVE  /\ c # d => Aside(DataMsgs(d, k), c)
         /\ \A es : EndOnce(DataMsgs(d, k), es, c)
         /\ \A es : NoClosed(es) => NoClosed(es \cup Before(DataMsgs(d, k), c, Len(DataMsgs(d, k)) + 1))
<1> DEFINE ms == DataMsgs(d, k)
<1>1. Len(ms) = k /\ \A i \in 1 .. k : ms[i].sock = d /\ ms[i].kind = "data"
  BY DEF DataMsgs, DataMsg
<1> HIDE DEF ms
<1>2. c # d => Aside(ms, c)
  BY <1>1 DEF Aside
<1>3. \A es : EndOnce(ms, es, c)
  BY <1>1 DEF EndOnce
<1>4. ASSUME NEW es, NoClosed(es) PROVE NoClosed(es \cup Before(ms, c, Len(ms) + 1))
  <2>1. \A x \in 1 .. (k + 1) - 1 : x \in 1 .. k
    OBVIOUS
  <2>2. \A e \in Before(ms, c, k + 1) : \E x \in 1 .. k : e = Entry(ms[x])
    BY <2>1 DEF Before
  <2>3. \A x \in 1 .. k : Entry(ms[x]).kind = "data"
    BY <1>1 DEF Entry
  <2> QED
    BY <1>1, <1>4, <2>2, <2>3 DEF NoClosed
<1> QED
  BY <1>2, <1>3, <1>4 DEF ms

(* The first message about a client.                                       *)
LEMMA NewPosted ==
  ASSUME NEW q \in Seq(Message), NEW d \in Client, NEW c, NEW g \in Seq(Heard),
         InOrder(q, g, c), c = d => AllIn(q, g, c) = {}
  PROVE  LET r == Append(q, NewMsg(d)) IN
         /\ InOrder(r, g, c)
         /\ c # d => AllIn(r, g, c) = AllIn(q, g, c)
         /\ c = d => Numbers(AllIn(r, g, c)) = {0} /\ NoClosed(AllIn(r, g, c))
         /\ ClosedLast(q, g, c) => ClosedLast(r, g, c)
<1> DEFINE m == NewMsg(d)
<1>1. m \in Message /\ m.sock = d /\ m.kind = "new" /\ m.no = 0
  BY ServerConstants DEF NewMsg, Message
<1> HIDE DEF m
<1>2. /\ Append(q, m) = q \o <<m>> /\ <<m>> \in Seq(Message) /\ Len(<<m>>) = 1 /\ <<m>>[1] = m
      /\ Before(<<m>>, c, 1) = {}
      /\ Before(<<m>>, c, 2) = IF m.sock = c THEN {Entry(m)} ELSE {}
  BY <1>1, PostedOne
<1> DEFINE ms == <<m>>
<1>3. /\ Append(q, m) = q \o ms /\ ms \in Seq(Message) /\ Len(ms) = 1 /\ ms[1] = m
      /\ Before(ms, c, 1) = {}
      /\ Before(ms, c, 2) = IF m.sock = c THEN {Entry(m)} ELSE {}
  BY <1>2
<1> HIDE DEF ms
<1>4. CASE c # d
  <2>1. Aside(ms, c)
    BY <1>1, <1>3, <1>4 DEF Aside
  <2>2. /\ AllIn(q \o ms, g, c) = AllIn(q, g, c)
        /\ InOrder(q, g, c) => InOrder(q \o ms, g, c)
        /\ ClosedLast(q, g, c) => ClosedLast(q \o ms, g, c)
    BY <1>3, <2>1, PostedAside
  <2> QED
    BY <1>3, <1>4, <2>2 DEF m
<1>5. CASE c = d
  <2>1. GoOn(ms, AllIn(q, g, c), c)
    <3>1. AllIn(q, g, c) \cup Before(ms, c, 1) = {}
      BY <1>3, <1>5
    <3>2. Numbers({}) = 0 .. 0 - 1
      BY DEF Numbers
    <3>3. InTurn(ms[1], AllIn(q, g, c) \cup Before(ms, c, 1))
      BY <1>1, <1>3, <3>1, <3>2 DEF InTurn
    <3> QED
      BY <1>3, <3>3 DEF GoOn
  <2>2. EndOnce(ms, AllIn(q, g, c), c)
    BY <1>1, <1>3 DEF EndOnce
  <2>3. InOrder(q \o ms, g, c)
    BY <1>3, <2>1, PostedInOrder
  <2>4. AllIn(q \o ms, g, c) = {Entry(m)}
    <3>1. AllIn(q \o ms, g, c) = AllIn(q, g, c) \cup Before(ms, c, Len(ms) + 1)
      BY <1>3, AllPosted
    <3>2. Len(ms) + 1 = 2
      BY <1>3
    <3> QED
      BY <1>1, <1>3, <1>5, <3>1, <3>2
  <2>5. Numbers({Entry(m)}) = {0} /\ NoClosed({Entry(m)})
    <3>1. Entry(m).kind # "closed" /\ Entry(m).no = 0
      BY <1>1 DEF Entry
    <3> QED
      BY <3>1 DEF Numbers, NoClosed
  <2>6. NoClosed(AllIn(q, g, c))
    BY <1>5 DEF NoClosed
  <2>7. ClosedLast(q, g, c) => ClosedLast(q \o ms, g, c)
    BY <1>3, <2>2, <2>6, PostedClosedLast
  <2> QED
    BY <1>3, <1>5, <2>3, <2>4, <2>5, <2>7 DEF m
<1> QED
  BY <1>4, <1>5

-----------------------------------------------------------------------------
(* The inductive invariant of the order of the messages.                   *)

(* The packets of c the server has not read are those behind its first m.  *)
FollowsOn(c, m) ==
  /\ \A k \in 1 .. Len(wire[c]) : wire[c][k] # Invalid => wire[c][k] = m + k
  /\ peer[c] # "reset" => m + Len(wire[c]) = sent[c]

Unheard(c) == peer[c] = "absent" \/ c \in backlog

ToldWell(c) ==
  /\ InOrder(que, handled[c], c)
  /\ Unheard(c) => AllIn(que, handled[c], c) = {} /\ FollowsOn(c, 0)
  /\ c \in Listed => \E m \in Nat : Numbers(AllIn(que, handled[c], c)) = 0 .. m /\ FollowsOn(c, m)

ClosedWell(c) ==
  /\ ClosedLast(que, handled[c], c)
  /\ c \in Listed => NoClosed(AllIn(que, handled[c], c))

OrderInv  == \A c \in Client : ToldWell(c)
ClosedInv == \A c \in Client : ClosedWell(c)

LEMMA QueTypes ==
  ASSUME IInv
  PROVE  que \in Seq(Message) /\ \A c \in Client : handled[c] \in Seq(Heard)
BY DEF IInv, TypeOK, Heard

LEMMA ListedHeard ==
  ASSUME IInv, NEW c \in Listed
  PROVE  c \in Client /\ ~Unheard(c)
<1>1. c \in Client /\ c \in fds
  BY ListedEntries DEF IInv, ListInv, Sound
<1> QED
  BY <1>1 DEF IInv, ListInv, AcceptedOnce, Unheard

LEMMA PacketOrderFollows == IInv /\ OrderInv => PacketOrder
<1> SUFFICES ASSUME IInv, OrderInv, NEW c \in Client
             PROVE  /\ \A i \in DOMAIN handled[c] : handled[c][i].kind # "closed" =>
                         InTurn(handled[c][i], {handled[c][j] : j \in 1 .. i - 1})
                    /\ \A i \in DOMAIN que : que[i].sock = c /\ que[i].kind # "closed" =>
                         InTurn(que[i], Told(c, i))
  BY DEF PacketOrder
<1>1. DOMAIN que = 1 .. Len(que) /\ DOMAIN handled[c] = 1 .. Len(handled[c])
  BY QueTypes, LenProperties
<1>2. \A i : Told(c, i) = ToldIn(que, handled[c], c, i)
  BY DEF Told, ToldIn, Before
<1> QED
  BY <1>1, <1>2 DEF OrderInv, ToldWell, InOrder

LEMMA MessageOrderFollows == IInv /\ ClosedInv => MessageOrder
<1> SUFFICES ASSUME IInv, ClosedInv, NEW c \in Client
             PROVE  /\ \A i \in DOMAIN handled[c] : handled[c][i].kind = "closed" =>
                         i > 1 /\ i = Len(handled[c]) /\ \A j \in DOMAIN que : que[j].sock # c
                    /\ \A i \in DOMAIN que : que[i].sock = c /\ que[i].kind = "closed" =>
                         Told(c, i) # {} /\ \A j \in i + 1 .. Len(que) : que[j].sock # c
  BY DEF MessageOrder
<1>1. DOMAIN que = 1 .. Len(que) /\ DOMAIN handled[c] = 1 .. Len(handled[c])
  BY QueTypes, LenProperties
<1>2. \A i : Told(c, i) = ToldIn(que, handled[c], c, i)
  BY DEF Told, ToldIn, Before
<1> QED
  BY <1>1, <1>2 DEF ClosedInv, ClosedWell, ClosedLast

LEMMA InitOrder == Init => OrderInv /\ ClosedInv
<1> SUFFICES ASSUME Init, NEW c \in Client PROVE ToldWell(c) /\ ClosedWell(c)
  BY DEF OrderInv, ClosedInv
<1>1. /\ que = << >> /\ handled[c] = << >> /\ wire[c] = << >> /\ sent[c] = 0
      /\ items = << >> /\ Len(que) = 0 /\ Len(handled[c]) = 0 /\ Len(wire[c]) = 0
  BY EmptySeq DEF Init
<1>2. InOrder(que, handled[c], c) /\ ClosedLast(que, handled[c], c)
  BY <1>1 DEF InOrder, ClosedLast
<1>3. SE!ToSet(<< >>) = {}
  BY DEF SE!ToSet
<1>4. AllIn(que, handled[c], c) = {}
  BY <1>1, <1>3 DEF AllIn, ToldIn, Before
<1>5. FollowsOn(c, 0)
  BY <1>1 DEF FollowsOn
<1>6. c \notin Listed
  BY <1>1, <1>3 DEF Listed
<1> QED
  BY <1>2, <1>4, <1>5, <1>6 DEF ToldWell, ClosedWell

-----------------------------------------------------------------------------
(* What a step does to the messages.                                       *)

QuietStep == UNCHANGED <<que, handled, items, clientVars>>

TakeStep ==
  /\ que # << >> /\ Handle(Head(que)) /\ que' = Tail(que)
  /\ UNCHANGED <<items, clientVars>>

RemoveStep ==
  /\ ~NoRemoveSocket /\ UNCHANGED clientVars
  /\ \E c \in Client :
       \/ /\ c \in Listed /\ UNCHANGED handled
          /\ RemoveSocket(c, que)
       \/ /\ que # << >> /\ c = Head(que).sock /\ Handle(Head(que))
          /\ RemoveSocket(c, Tail(que))

DropStep == ScanClosed \/ ScanInvalid \/ ScanSendFails

StepKind ==
  \/ QuietStep \/ ClientStep \/ TakeStep \/ RemoveStep \/ AcceptConnection
  \/ ScanServed \/ DropStep \/ Destroy

LEMMA StepKinds == IInv /\ [Next]_vars => StepKind
<1> SUFFICES ASSUME IInv, [Next]_vars PROVE StepKind
  OBVIOUS
<1>1. CASE \/ KillServer \/ StartServer \/ StopServer \/ Select \/ SelectError \/ NothingToDo
           \/ AcceptFails \/ StartScan \/ MessagesDone \/ EndTurn \/ IdleBroadcast
           \/ UNCHANGED vars
  <2>1. QuietStep
    BY <1>1 DEF KillServer, StartServer, StopServer, Select, SelectError, NothingToDo,
                AcceptFails, StartScan, MessagesDone, EndTurn, IdleBroadcast, vars, listVars,
                clientVars, QuietStep
  <2> QED
    BY <2>1 DEF StepKind
<1>2. CASE MsgIgnored \/ MsgKill \/ MsgBroadcast
  BY <1>2 DEF MsgIgnored, MsgKill, MsgBroadcast, listVars, TakeStep, StepKind
<1>3. \A c \in Client : \A q, back :
        SendBroken(c, q, back) => RemoveSocket(c, q) /\ ~NoRemoveSocket
  BY DEF SendBroken, SendMayFail, NoRemoveSocket
<1>4. CASE MsgReply
  <2>1. que # << >> /\ Handle(Head(que)) /\ UNCHANGED clientVars /\ Head(que).sock \in Client
    BY <1>4, MessageTaken DEF MsgReply
  <2>2. CASE SendBroken(Head(que).sock, Tail(que), "messages")
    BY <1>3, <2>1, <2>2 DEF RemoveStep, StepKind
  <2>3. CASE que' = Tail(que) /\ UNCHANGED items
    BY <2>1, <2>3 DEF TakeStep, StepKind
  <2> QED
    BY <1>4, <2>2, <2>3 DEF MsgReply, BufferFull, listVars
<1>5. CASE MsgKick
  <2>1. /\ que # << >> /\ Handle(Head(que)) /\ UNCHANGED clientVars /\ Head(que).sock \in Client
        /\ RemoveSocket(Head(que).sock, Tail(que)) /\ ~NoRemoveSocket
    BY <1>5, MessageTaken DEF MsgKick, NoRemoveSocket
  <2> QED
    BY <2>1 DEF RemoveStep, StepKind
<1>6. CASE Send2AllTurn
  <2>1. /\ Current \in Client /\ Current \in Listed /\ UNCHANGED handled /\ UNCHANGED clientVars
    BY <1>6, CurrentListed, ListedEntries DEF Send2AllTurn, Current, IInv
  <2>2. CASE SendBroken(Current, que, ret)
    BY <1>3, <2>1, <2>2 DEF RemoveStep, StepKind
  <2>3. CASE UNCHANGED <<que, items>>
    BY <2>1, <2>3 DEF QuietStep, StepKind
  <2> QED
    BY <1>6, <2>2, <2>3 DEF Send2AllTurn, BufferFull, listVars
<1>7. CASE IdleKick
  <2>1. PICK c \in Listed : RemoveSocket(c, que)
    BY <1>7 DEF IdleKick, Listed
  <2>2. c \in Client /\ ~NoRemoveSocket /\ UNCHANGED <<handled, clientVars>>
    BY <1>7, ListedEntries DEF IdleKick, NoRemoveSocket, IInv
  <2> QED
    BY <2>1, <2>2 DEF RemoveStep, StepKind
<1> QED
  BY <1>1, <1>2, <1>4, <1>5, <1>6, <1>7 DEF Next, ServerStep, DropStep, StepKind

(* A step that tells nothing out of order about c, and nothing at all if c *)
(* has not been accepted.                                                  *)
LEMMA ToldOn ==
  ASSUME NEW c \in Client, ToldWell(c),
         UNCHANGED <<peer, backlog, sent>>, wire'[c] = wire[c],
         c \in Listed' => c \in Listed,
         InOrder(que', handled'[c], c),
         Numbers(AllIn(que', handled'[c], c)) = Numbers(AllIn(que, handled[c], c)),
         Unheard(c) => AllIn(que', handled'[c], c) = {}
  PROVE  ToldWell(c)'
<1>1. Unheard(c)' = Unheard(c) /\ \A m : FollowsOn(c, m)' = FollowsOn(c, m)
  BY DEF Unheard, FollowsOn
<1> QED
  BY <1>1 DEF ToldWell

LEMMA QuietOrder ==
  ASSUME IInv, QuietStep, NEW c \in Client
  PROVE  /\ ToldWell(c) => ToldWell(c)'
         /\ ClosedWell(c) => ClosedWell(c)'
<1>1. Unheard(c)' = Unheard(c) /\ (\A m : FollowsOn(c, m)' = FollowsOn(c, m)) /\ Listed' = Listed
  BY DEF QuietStep, clientVars, Unheard, FollowsOn, Listed
<1> QED
  BY <1>1 DEF QuietStep, ToldWell, ClosedWell

LEMMA ClientOrder ==
  ASSUME IInv, IInv', ClientStep, NEW c \in Client
  PROVE  /\ ToldWell(c) => ToldWell(c)'
         /\ ClosedWell(c) => ClosedWell(c)'
<1>1. UNCHANGED <<que, handled>> /\ Listed' = Listed
  BY DEF ClientStep, listVars, Listed
<1>2. ClosedWell(c) => ClosedWell(c)'
  BY <1>1 DEF ClosedWell
<1>3. /\ wire[c] \in Seq(0 .. MaxPackets) /\ Len(wire[c]) \in Nat /\ sent[c] \in Nat
  BY LenProperties, ServerConstants DEF IInv, TypeOK
<1>4. ASSUME NEW m \in Nat, FollowsOn(c, m) PROVE FollowsOn(c, m)'
  <2>1. PICK d \in Client : Connect(d) \/ Send(d) \/ Finish(d) \/ Reset(d)
    BY DEF ClientStep
  <2>2. CASE Connect(d) \/ Finish(d)
    <3>1. wire' = wire /\ sent' = sent /\ (peer'[c] # "reset" => peer[c] # "reset")
      BY <2>2 DEF Connect, Finish, IInv, TypeOK
    <3> QED
      BY <1>4, <3>1 DEF FollowsOn
  <2>3. CASE Reset(d)
    <3>1. CASE c = d
      <4>1. wire'[c] = << >> /\ peer'[c] = "reset"
        BY <2>3, <3>1 DEF Reset, IInv, TypeOK
      <4>2. Len(wire'[c]) = 0
        BY <4>1
      <4> QED
        BY <4>1, <4>2 DEF FollowsOn
    <3>2. CASE c # d
      BY <1>4, <2>3, <3>2 DEF Reset, FollowsOn, IInv, TypeOK
    <3> QED
      BY <3>1, <3>2
  <2>4. CASE Send(d)
    <3>1. CASE c = d
      <4>1. peer[c] = "open" /\ peer' = peer /\ sent'[c] = sent[c] + 1
        BY <2>4, <3>1 DEF Send, IInv, TypeOK
      <4>2. PICK e \in {sent[c] + 1, Invalid} : wire'[c] = Append(wire[c], e)
        BY <2>4, <3>1 DEF Send, IInv, TypeOK
      <4>3. e \in Int
        BY <1>3 DEF Invalid
      <4>4. wire[c] \in Seq(Int)
        BY <1>3, SeqMonotonic, ServerConstants
      <4>5. /\ Len(wire'[c]) = Len(wire[c]) + 1 /\ wire'[c][Len(wire[c]) + 1] = e
            /\ \A k \in 1 .. Len(wire[c]) : wire'[c][k] = wire[c][k]
        BY <4>2, <4>3, <4>4, AppendProperties
      <4>6. m + Len(wire[c]) = sent[c]
        BY <1>4, <4>1 DEF FollowsOn
      <4>7. m + Len(wire'[c]) = sent'[c]
        BY <1>3, <4>1, <4>5, <4>6
      <4>8. ASSUME NEW k \in 1 .. Len(wire'[c]), wire'[c][k] # Invalid
            PROVE  wire'[c][k] = m + k
        <5>1. CASE k \in 1 .. Len(wire[c])
          BY <1>4, <4>5, <4>8, <5>1 DEF FollowsOn
        <5>2. CASE k = Len(wire[c]) + 1
          <6>1. wire'[c][k] = sent[c] + 1
            BY <4>2, <4>5, <4>8, <5>2
          <6> QED
            BY <1>3, <4>6, <5>2, <6>1
        <5> QED
          BY <1>3, <4>5, <5>1, <5>2
      <4> QED
        BY <4>7, <4>8 DEF FollowsOn
    <3>2. CASE c # d
      BY <1>4, <2>4, <3>2 DEF Send, FollowsOn, IInv, TypeOK
    <3> QED
      BY <3>1, <3>2
  <2> QED
    BY <2>1, <2>2, <2>3, <2>4
<1>5. Unheard(c)' => Unheard(c)
  <2>1. PICK d \in Client : Connect(d) \/ Send(d) \/ Finish(d) \/ Reset(d)
    BY DEF ClientStep
  <2> QED
    BY <2>1 DEF Connect, Send, Finish, Reset, Unheard, IInv, TypeOK
<1>6. ToldWell(c) => ToldWell(c)'
  BY <1>1, <1>4, <1>5 DEF ToldWell
<1> QED
  BY <1>2, <1>6

LEMMA Handling ==
  ASSUME IInv, que # << >>, Handle(Head(que)), NEW c \in Client
  PROVE  handled'[c] = Passed(que, handled[c], c)
<1>1. Head(que) = que[1] /\ que[1].sock \in Client
  <2>1. Head(que) = que[1]
    BY QueTypes
  <2> QED
    BY <2>1, MessageTaken
<1>2. handled \in [Client -> Seq(Heard)]
  BY DEF IInv, TypeOK, Heard
<1> QED
  BY <1>1, <1>2 DEF Handle, Passed, Entry

LEMMA TakeOrder ==
  ASSUME IInv, TakeStep, NEW c \in Client
  PROVE  /\ ToldWell(c) => ToldWell(c)'
         /\ ClosedWell(c) => ClosedWell(c)'
<1>1. /\ que # << >> /\ que' = Tail(que) /\ handled'[c] = Passed(que, handled[c], c)
      /\ que \in Seq(Message) /\ handled[c] \in Seq(Heard)
  BY Handling, QueTypes DEF TakeStep
<1>2. AllIn(que', handled'[c], c) = AllIn(que, handled[c], c)
  BY <1>1, HandlingMoves
<1>3. InOrder(que, handled[c], c) => InOrder(que', handled'[c], c)
  BY <1>1, HandlingKeepsOrder
<1>4. ClosedLast(que, handled[c], c) => ClosedLast(que', handled'[c], c)
  BY <1>1, HandlingKeepsClosed
<1>5. Unheard(c)' = Unheard(c) /\ (\A m : FollowsOn(c, m)' = FollowsOn(c, m)) /\ Listed' = Listed
  BY DEF TakeStep, clientVars, Unheard, FollowsOn, Listed
<1>6. ToldWell(c) => ToldWell(c)'
  BY <1>2, <1>3, <1>5 DEF ToldWell
<1>7. ClosedWell(c) => ClosedWell(c)'
  BY <1>2, <1>4, <1>5 DEF ClosedWell
<1> QED
  BY <1>6, <1>7

LEMMA RemoveSocketUnlists ==
  ASSUME IInv, NEW d \in Client, NEW q \in Seq(Message), RemoveSocket(d, q)
  PROVE  Listed' \subseteq Listed /\ que' = Append(q, ClosedMsg(d))
<1>1. que' = Append(q, ClosedMsg(d))
  BY DEF RemoveSocket
<1>2. CASE items = << >>
  BY <1>1, <1>2 DEF RemoveSocket, Listed
<1>3. CASE items # << >>
  <2>1. items' = Without(items, 1) /\ items \in Seq(Client) /\ 1 \in 1 .. Len(items)
    BY <1>3, EmptySeq DEF RemoveSocket, IInv, TypeOK
  <2>2. items' \in Seq(Client) /\ Len(items') = Len(items) - 1 /\ Len(items) \in Nat
        /\ \A j \in 1 .. Len(items) - 1 : items'[j] = IF j < 1 THEN items[j] ELSE items[j + 1]
    BY <2>1, WithoutEntry, LenProperties
  <2>3. /\ DOMAIN items' = 1 .. Len(items') /\ DOMAIN items = 1 .. Len(items)
        /\ \A j \in 1 .. Len(items') : j + 1 \in 1 .. Len(items) /\ items'[j] = items[j + 1]
    BY <2>1, <2>2, LenProperties
  <2>4. Listed' \subseteq Listed
    BY <2>3 DEF Listed, SE!ToSet
  <2> QED
    BY <1>1, <2>4
<1> QED
  BY <1>2, <1>3

LEMMA RemoveOrder ==
  ASSUME IInv, OrderInv, RemoveStep, NEW c \in Client
  PROVE  ToldWell(c)'
<1>1. PICK d \in Client :
        \/ /\ d \in Listed /\ UNCHANGED handled
           /\ RemoveSocket(d, que)
        \/ /\ que # << >> /\ d = Head(que).sock /\ Handle(Head(que))
           /\ RemoveSocket(d, Tail(que))
  BY DEF RemoveStep
<1>2. que \in Seq(Message) /\ handled[c] \in Seq(Heard) /\ UNCHANGED <<peer, backlog, sent, wire>>
  BY QueTypes DEF RemoveStep, clientVars
<1>3. PICK q \in Seq(Message), g \in Seq(Heard) :
        /\ RemoveSocket(d, q) /\ handled'[c] = g /\ InOrder(q, g, c)
        /\ AllIn(q, g, c) = AllIn(que, handled[c], c)
        /\ c = d => ~Unheard(c)
  <2>1. CASE d \in Listed /\ UNCHANGED handled /\ RemoveSocket(d, que)
    <3>1. ~Unheard(d)
      BY <2>1, ListedHeard
    <3> QED
      BY <1>2, <2>1, <3>1 DEF OrderInv, ToldWell
  <2>2. CASE /\ que # << >> /\ d = Head(que).sock /\ Handle(Head(que))
             /\ RemoveSocket(d, Tail(que))
    <3>1. handled'[c] = Passed(que, handled[c], c)
      BY <2>2, Handling
    <3>2. Tail(que) \in Seq(Message) /\ Passed(que, handled[c], c) \in Seq(Heard)
      BY <1>2, <2>2, HandledNext
    <3>3. InOrder(Tail(que), Passed(que, handled[c], c), c)
      BY <1>2, <2>2, HandlingKeepsOrder DEF OrderInv, ToldWell
    <3>4. AllIn(Tail(que), Passed(que, handled[c], c), c) = AllIn(que, handled[c], c)
      BY <1>2, <2>2, HandlingMoves
    <3>5. c = d => AllIn(que, handled[c], c) # {}
      <4>1. que[1] = Head(que) /\ 1 \in 1 .. (Len(que) + 1) - 1
        BY <1>2, <2>2, EmptySeq
      <4>2. c = d => Entry(que[1]) \in Before(que, c, Len(que) + 1)
        BY <2>2, <4>1 DEF Before
      <4> QED
        BY <4>2 DEF AllIn, ToldIn
    <3>6. c = d => ~Unheard(c)
      BY <3>5 DEF OrderInv, ToldWell
    <3> QED
      BY <2>2, <3>1, <3>2, <3>3, <3>4, <3>6
  <2> QED
    BY <1>1, <2>1, <2>2
<1>4. Listed' \subseteq Listed /\ que' = Append(q, ClosedMsg(d))
  BY <1>3, RemoveSocketUnlists
<1>5. /\ InOrder(que', g, c)
      /\ Numbers(AllIn(que', g, c)) = Numbers(AllIn(q, g, c))
      /\ c # d => AllIn(que', g, c) = AllIn(q, g, c)
  BY <1>3, <1>4, ClosedPosted
<1>6. ToldWell(c)
  BY DEF OrderInv
<1>7. Unheard(c) => AllIn(que', g, c) = {}
  BY <1>3, <1>5, <1>6 DEF ToldWell
<1> HIDE DEF OrderInv
<1> QED
  BY <1>2, <1>3, <1>4, <1>5, <1>6, <1>7, ToldOn

LEMMA DestroyOrder ==
  ASSUME IInv, Destroy, NEW c \in Client
  PROVE  /\ ToldWell(c) => ToldWell(c)'
         /\ ClosedWell(c) => ClosedWell(c)'
<1>1. /\ que' = << >> /\ items' = << >> /\ UNCHANGED <<handled, clientVars>> /\ Len(que') = 0
      /\ que \in Seq(Message)
  BY QueTypes, EmptySeq DEF Destroy
<1>2. c \notin Listed'
  BY <1>1 DEF Listed, SE!ToSet
<1>3. Unheard(c)' = Unheard(c) /\ \A m : FollowsOn(c, m)' = FollowsOn(c, m)
  BY <1>1 DEF clientVars, Unheard, FollowsOn
<1>4. AllIn(que', handled'[c], c) \subseteq AllIn(que, handled[c], c)
  BY <1>1 DEF AllIn, ToldIn, Before
<1>5. InOrder(que, handled[c], c) => InOrder(que', handled'[c], c)
  <2>1. handled'[c] = handled[c] /\ 1 .. Len(que') = {}
    BY <1>1
  <2> QED
    BY <2>1 DEF InOrder
<1>6. ClosedLast(que, handled[c], c) => ClosedLast(que', handled'[c], c)
  <2>1. handled'[c] = handled[c] /\ 1 .. Len(que') = {}
    BY <1>1
  <2> QED
    BY <2>1 DEF ClosedLast
<1>7. ToldWell(c) => ToldWell(c)'
  BY <1>2, <1>3, <1>4, <1>5 DEF ToldWell
<1>8. ClosedWell(c) => ClosedWell(c)'
  BY <1>2, <1>6 DEF ClosedWell
<1> QED
  BY <1>7, <1>8

LEMMA AcceptOrder ==
  ASSUME IInv, AcceptConnection, NEW c \in Client, ToldWell(c)
  PROVE  /\ ToldWell(c)'
         /\ ClosedWell(c) => ClosedWell(c)'
<1>1. PICK d \in backlog :
        /\ backlog' = backlog \ {d}
        /\ items' = Append(items, d)
        /\ que' = Append(que, NewMsg(d))
  BY DEF AcceptConnection
<1>2. /\ UNCHANGED <<handled, peer, sent, wire>> /\ que \in Seq(Message)
      /\ handled[c] \in Seq(Heard) /\ d \in Client /\ d \notin Listed
      /\ items \in Seq(Client)
  <2>1. d \notin Listed
    BY ListedHeard DEF Unheard
  <2> QED
    BY <2>1, QueTypes DEF AcceptConnection, IInv, TypeOK
<1>3. c # d => (c \in Listed' => c \in Listed)
  <2>1. /\ Len(items') = Len(items) + 1 /\ Len(items) \in Nat
        /\ items'[Len(items) + 1] = d
        /\ \A i \in 1 .. Len(items) : items'[i] = items[i]
    BY <1>1, <1>2, AppendProperties, LenProperties
  <2>2. DOMAIN items' = 1 .. Len(items) + 1 /\ DOMAIN items = 1 .. Len(items)
    BY <1>1, <1>2, <2>1, AppendProperties, LenProperties
  <2>3. \A i \in 1 .. Len(items) + 1 : i \in 1 .. Len(items) \/ i = Len(items) + 1
    BY <2>1
  <2> QED
    BY <2>1, <2>2, <2>3 DEF Listed, SE!ToSet
<1>4. c = d => AllIn(que, handled[c], c) = {} /\ FollowsOn(c, 0)
  BY DEF ToldWell, Unheard
<1>5. /\ InOrder(que', handled[c], c)
      /\ c # d => AllIn(que', handled[c], c) = AllIn(que, handled[c], c)
      /\ c = d => Numbers(AllIn(que', handled[c], c)) = {0} /\ NoClosed(AllIn(que', handled[c], c))
      /\ ClosedLast(que, handled[c], c) => ClosedLast(que', handled[c], c)
  <2>1. InOrder(que, handled[c], c)
    BY DEF ToldWell
  <2> QED
    BY <1>1, <1>2, <1>4, <2>1, NewPosted
<1>6. \A m : FollowsOn(c, m)' = FollowsOn(c, m)
  BY <1>2 DEF FollowsOn
<1>7. CASE c # d
  <2>1. Unheard(c)' = Unheard(c)
    BY <1>1, <1>2, <1>7 DEF Unheard
  <2> QED
    BY <1>2, <1>3, <1>5, <1>6, <1>7, <2>1 DEF ToldWell, ClosedWell
<1>8. CASE c = d
  <2>1. ~Unheard(c)'
    BY <1>1, <1>2, <1>8 DEF Unheard, IInv, ListInv, AcceptedOnce
  <2>2. Numbers(AllIn(que', handled'[c], c)) = 0 .. 0
    BY <1>2, <1>5, <1>8
  <2>3. \E m \in Nat : Numbers(AllIn(que', handled'[c], c)) = 0 .. m /\ FollowsOn(c, m)'
    BY <1>4, <1>6, <1>8, <2>2
  <2>4. ToldWell(c)'
    BY <1>2, <1>5, <2>1, <2>3 DEF ToldWell
  <2>5. ClosedWell(c) => ClosedWell(c)'
    BY <1>2, <1>5, <1>8 DEF ClosedWell
  <2> QED
    BY <2>4, <2>5
<1> QED
  BY <1>7, <1>8

(* Reading the first k packets of a listed client.                         *)
LEMMA DataPosted ==
  ASSUME IInv, NEW d \in Listed, ToldWell(d), NEW k \in Nat,
         k <= Len(wire[d]), \A i \in 1 .. k : wire[d][i] # Invalid
  PROVE  \E m \in Nat :
           /\ FollowsOn(d, m)
           /\ InOrder(que \o DataMsgs(d, k), handled[d], d)
           /\ Numbers(AllIn(que \o DataMsgs(d, k), handled[d], d)) = 0 .. m + k
<1>1. d \in Client /\ Len(wire[d]) \in Nat
  BY ListedEntries, LenProperties DEF IInv, TypeOK
<1>2. k \in 0 .. Len(wire[d])
  BY <1>1
<1>3. DataMsgs(d, k) \in Seq(Message) /\ que \in Seq(Message)
  BY <1>1, <1>2, SomeMessages, QueTypes
<1>4. PICK m \in Nat : Numbers(AllIn(que, handled[d], d)) = 0 .. m /\ FollowsOn(d, m)
  BY DEF ToldWell
<1>5. \A i \in 1 .. k : wire[d][i] = m + i
  <2>1. \A i \in 1 .. k : i \in 1 .. Len(wire[d])
    BY <1>1
  <2> QED
    BY <1>4, <2>1 DEF FollowsOn
<1> DEFINE ms == DataMsgs(d, k)
           es == AllIn(que, handled[d], d)
<1>6. GoOn(ms, es, d) /\ Numbers(es \cup Before(ms, d, Len(ms) + 1)) = 0 .. m + k
  BY <1>1, <1>3, <1>4, <1>5, DataGoOn
<1>7. InOrder(que, handled[d], d)
  BY DEF ToldWell
<1> HIDE DEF ms
<1>8. ms \in Seq(Message)
  BY <1>3 DEF ms
<1>9. InOrder(que \o ms, handled[d], d)
  BY <1>3, <1>6, <1>7, <1>8, PostedInOrder
<1>10. AllIn(que \o ms, handled[d], d) = es \cup Before(ms, d, Len(ms) + 1)
  BY <1>3, <1>8, AllPosted
<1> QED
  BY <1>4, <1>6, <1>9, <1>10 DEF ms

LEMMA ServedOrder ==
  ASSUME IInv, ScanServed, OrderInv, NEW c \in Client
  PROVE  /\ ToldWell(c)'
         /\ ClosedWell(c) => ClosedWell(c)'
<1> DEFINE d == Current
<1>1. PICK k \in 0 .. MaxPackets : Reads(d, k) /\ que' = que \o DataMsgs(d, k)
  BY DEF ScanServed
<1>2. d \in Client /\ d \in Listed /\ UNCHANGED <<items, handled, peer, backlog, sent>>
  BY CurrentListed, ListedEntries DEF ScanServed, Current, IInv
<1> HIDE DEF d
<1>3. /\ Len(wire[d]) \in Nat /\ k \in Nat /\ wire \in [Client -> Seq(0 .. MaxPackets)]
      /\ que \in Seq(Message) /\ handled[c] \in Seq(Heard)
  <2>1. wire \in [Client -> Seq(0 .. MaxPackets)] /\ k \in Nat
    BY ServerConstants DEF IInv, TypeOK
  <2>2. Len(wire[d]) \in Nat
    BY <1>2, <2>1, LenProperties
  <2> QED
    BY <2>1, <2>2, QueTypes
<1>4. /\ k <= Len(wire[d]) /\ \A i \in 1 .. k : wire[d][i] # Invalid
      /\ wire' = [wire EXCEPT ![d] = SubSeq(wire[d], k + 1, Len(wire[d]))]
  BY <1>1, <1>3 DEF Reads
<1>5. DataMsgs(d, k) \in Seq(Message)
  BY <1>1, <1>2, ReadsSome
<1>6. Unheard(c)' = Unheard(c) /\ Listed' = Listed
  BY <1>2 DEF Unheard, Listed
<1>7. ToldWell(c)
  BY DEF OrderInv
<1> DEFINE ms == DataMsgs(d, k)
<1>8. /\ c # d => Aside(ms, c)
      /\ EndOnce(ms, AllIn(que, handled[c], c), c)
      /\ NoClosed(AllIn(que, handled[c], c))
           => NoClosed(AllIn(que, handled[c], c) \cup Before(ms, c, Len(ms) + 1))
  BY <1>2, <1>3, <1>5, DataOpen
<1>9. CASE c # d
  <2> HIDE DEF ms
  <2>1. /\ AllIn(que \o ms, handled[c], c) = AllIn(que, handled[c], c)
        /\ InOrder(que, handled[c], c) => InOrder(que \o ms, handled[c], c)
        /\ ClosedLast(que, handled[c], c) => ClosedLast(que \o ms, handled[c], c)
    BY <1>3, <1>5, <1>8, <1>9, PostedAside DEF ms
  <2>2. que' = que \o ms /\ wire'[c] = wire[c] /\ handled'[c] = handled[c]
    BY <1>1, <1>2, <1>3, <1>4, <1>9 DEF ms
  <2>3. \A m : FollowsOn(c, m)' = FollowsOn(c, m)
    BY <1>2, <2>2 DEF FollowsOn
  <2> QED
    BY <1>6, <1>7, <2>1, <2>2, <2>3 DEF ToldWell, ClosedWell
<1>10. CASE c = d
  <2>1. PICK m \in Nat :
          /\ FollowsOn(d, m)
          /\ InOrder(que \o DataMsgs(d, k), handled[d], d)
          /\ Numbers(AllIn(que \o DataMsgs(d, k), handled[d], d)) = 0 .. m + k
    BY <1>2, <1>3, <1>4, <1>7, <1>10, DataPosted
  <2>2. InOrder(que', handled'[c], c) /\ Numbers(AllIn(que', handled'[c], c)) = 0 .. m + k
    BY <1>1, <1>2, <1>10, <2>1
  <2>3. FollowsOn(c, m + k)'
    <3> DEFINE w == wire[d]
               l == Len(w)
               v == SubSeq(w, k + 1, l)
    <3>1. Len(v) = l - k /\ \A i \in 1 .. l - k : v[i] = w[k + i]
      <4>1. w \in Seq(0 .. MaxPackets) /\ l \in Nat
        BY <1>2, <1>3
      <4>2. \A i \in 1 .. l : w[i] \in 0 .. MaxPackets
        BY <4>1, ElementOfSeq
      <4>3. \A i \in k + 1 .. l : w[i] \in 0 .. MaxPackets
        BY <1>3, <4>1, <4>2
      <4>4. k + 1 \in Int /\ l \in Int
        BY <1>3, <4>1
      <4> HIDE DEF w, l
      <4>5. /\ Len(v) = IF k + 1 <= l THEN l - (k + 1) + 1 ELSE 0
            /\ \A i \in 1 .. l - (k + 1) + 1 : v[i] = w[(k + 1) + i - 1]
        BY <4>3, <4>4, SubSeqProperties
      <4>6. l - (k + 1) + 1 = l - k /\ k <= l
        BY <1>3, <1>4, <4>1 DEF l, w
      <4>7. \A i \in 1 .. l - k : (k + 1) + i - 1 = k + i
        BY <1>3
      <4>8. Len(v) = l - k
        BY <1>3, <4>1, <4>5, <4>6
      <4> QED
        BY <4>5, <4>6, <4>7, <4>8
    <3>2. wire'[c] = v
      BY <1>2, <1>3, <1>4, <1>10
    <3>3. (peer[d] # "reset" => m + l = sent[d]) /\ l \in Nat /\ k <= l
          /\ \A i \in 1 .. l : w[i] # Invalid => w[i] = m + i
      BY <1>3, <1>4, <2>1 DEF FollowsOn
    <3> HIDE DEF v, w, l
    <3>4. \A i \in 1 .. Len(v) : v[i] # Invalid => v[i] = (m + k) + i
      <4> SUFFICES ASSUME NEW i \in 1 .. l - k, v[i] # Invalid PROVE v[i] = (m + k) + i
        BY <3>1
      <4>1. v[i] = w[k + i] /\ k + i \in 1 .. l
        BY <1>3, <3>1, <3>3
      <4>2. w[k + i] = m + (k + i)
        BY <3>3, <4>1
      <4> QED
        BY <1>3, <4>1, <4>2
    <3>5. peer[d] # "reset" => (m + k) + Len(v) = sent[d]
      BY <1>3, <3>1, <3>3
    <3> QED
      BY <1>2, <1>10, <3>2, <3>4, <3>5 DEF FollowsOn
  <2>4. m + k \in Nat
    BY <1>3
  <2>5. ~Unheard(c)
    BY <1>2, <1>10, ListedHeard
  <2>6. ToldWell(c)'
    BY <1>6, <2>2, <2>3, <2>4, <2>5 DEF ToldWell
  <2>7. ASSUME ClosedWell(c) PROVE ClosedWell(c)'
    <3>1. ClosedLast(que, handled[c], c) /\ NoClosed(AllIn(que, handled[c], c))
      BY <1>2, <1>10, <2>7 DEF ClosedWell
    <3> HIDE DEF ms
    <3>2. ClosedLast(que \o ms, handled[c], c)
      BY <1>3, <1>5, <1>8, <3>1, PostedClosedLast DEF ms
    <3>3. AllIn(que \o ms, handled[c], c) = AllIn(que, handled[c], c) \cup Before(ms, c, Len(ms) + 1)
      BY <1>3, <1>5, AllPosted DEF ms
    <3>4. que' = que \o ms /\ handled'[c] = handled[c]
      BY <1>1, <1>2 DEF ms
    <3> QED
      BY <1>8, <3>1, <3>2, <3>3, <3>4 DEF ClosedWell
  <2> QED
    BY <2>6, <2>7
<1> QED
  BY <1>9, <1>10

(* The two catch clauses: the packets read, then pcClosed.                 *)
LEMMA DropTells ==
  ASSUME IInv, DropStep
  PROVE  \E d \in Listed, k \in Nat :
           /\ k <= Len(wire[d]) /\ \A i \in 1 .. k : wire[d][i] # Invalid
           /\ DataMsgs(d, k) \in Seq(Message)
           /\ que' = Append(que \o DataMsgs(d, k), ClosedMsg(d))
           /\ \A c \in Client : c # d => wire'[c] = wire[c]
           /\ Listed' \subseteq Listed \ {d}
           /\ UNCHANGED <<handled, peer, backlog, sent>>
<1> DEFINE d == Current
<1>1. pc = "scan" /\ UNCHANGED <<handled, peer, backlog, sent>>
  BY DEF DropStep, ScanClosed, ScanInvalid, ScanSendFails, clientVars
<1>2. /\ items \in Seq(Client) /\ cur \in 1 .. Len(items) /\ d \in Client
      /\ d \in Listed /\ wire \in [Client -> Seq(0 .. MaxPackets)]
  BY <1>1, CurrentListed, ListedEntries DEF Current, IInv, TypeOK
<1>3. Len(wire[d]) \in Nat
  BY <1>2, LenProperties
<1>4. PICK k \in Nat :
        /\ k <= Len(wire[d]) /\ \A i \in 1 .. k : wire[d][i] # Invalid
        /\ DataMsgs(d, k) \in Seq(Message)
        /\ DropCurrent(d, DataMsgs(d, k))
        /\ \A c \in Client : c # d => wire'[c] = wire[c]
  <2>1. CASE ScanClosed
    <3>1. 0 \in 0 .. Len(wire[d])
      BY <1>3
    <3>2. DataMsgs(d, 0) \in Seq(Message)
      BY <1>2, <3>1, SomeMessages
    <3>3. DataMsgs(d, 0) = << >>
      BY DEF DataMsgs
    <3>4. DropCurrent(d, DataMsgs(d, 0)) /\ wire' = wire
      BY <2>1, <3>3 DEF ScanClosed, clientVars
    <3>5. 0 \in Nat /\ 0 <= Len(wire[d]) /\ \A i \in 1 .. 0 : wire[d][i] # Invalid
      BY <1>3
    <3> QED
      BY <3>2, <3>4, <3>5
  <2>2. CASE ScanInvalid
    <3>1. PICK k \in 0 .. MaxPackets :
            /\ k < Len(wire[d]) /\ \A i \in 1 .. k : wire[d][i] # Invalid
            /\ DropCurrent(d, DataMsgs(d, k))
      BY <2>2 DEF ScanInvalid
    <3>2. k \in 0 .. Len(wire[d]) /\ k \in Nat
      BY <1>3, <3>1, ServerConstants
    <3>3. DataMsgs(d, k) \in Seq(Message)
      BY <1>2, <3>2, SomeMessages
    <3>4. wire' = [wire EXCEPT ![d] = << >>]
      BY <2>2 DEF ScanInvalid
    <3> QED
      BY <1>2, <3>1, <3>2, <3>3, <3>4
  <2>3. CASE ScanSendFails
    <3>1. PICK k \in 0 .. MaxPackets : Reads(d, k) /\ DropCurrent(d, DataMsgs(d, k))
      BY <2>3 DEF ScanSendFails
    <3>2. DataMsgs(d, k) \in Seq(Message)
      BY <1>2, <3>1, ReadsSome
    <3>3. /\ k \in Nat /\ k <= Len(wire[d]) /\ \A i \in 1 .. k : wire[d][i] # Invalid
          /\ wire' = [wire EXCEPT ![d] = SubSeq(wire[d], k + 1, Len(wire[d]))]
      BY <1>2, <1>3, <3>1, ServerConstants DEF Reads
    <3> HIDE DEF d
    <3> QED
      BY <1>2, <3>1, <3>2, <3>3
  <2> QED
    BY <2>1, <2>2, <2>3 DEF DropStep
<1>5. Listed' \subseteq Listed \ {d}
  <2>1. items' = Without(items, cur)
    BY <1>4 DEF DropCurrent
  <2>2. Sound(items, alive, fds)
    BY DEF IInv, ListInv
  <2>3. /\ items' \in Seq(Client) /\ Len(items') = Len(items) - 1 /\ Len(items) \in Nat
        /\ \A j \in 1 .. Len(items) - 1 : items'[j] = IF j < cur THEN items[j] ELSE items[j + 1]
    BY <1>2, <2>1, WithoutEntry, LenProperties
  <2>4. ASSUME NEW j \in 1 .. Len(items') PROVE items'[j] \in Listed \ {d}
    <3>1. j \in 1 .. Len(items) /\ j + 1 \in 1 .. Len(items) /\ j \in 1 .. Len(items) - 1
      BY <2>3
    <3>2. PICK x \in 1 .. Len(items) : x # cur /\ items'[j] = items[x]
      <4>1. CASE j < cur
        BY <1>2, <2>3, <3>1, <4>1
      <4>2. CASE ~(j < cur)
        <5>1. j + 1 # cur
          BY <1>2, <3>1, <4>2
        <5> QED
          BY <2>3, <3>1, <4>2, <5>1
      <4> QED
        BY <4>1, <4>2
    <3>3. items[x] # items[cur]
      BY <1>2, <2>2, <3>2 DEF Sound
    <3> QED
      BY <3>2, <3>3, ListedEntries DEF Current, IInv
  <2>5. DOMAIN items' = 1 .. Len(items')
    BY <2>3, LenProperties
  <2> QED
    BY <2>4, <2>5 DEF Listed, SE!ToSet
<1>6. que' = Append(que \o DataMsgs(d, k), ClosedMsg(d))
  BY <1>4 DEF DropCurrent
<1> HIDE DEF d
<1> QED
  BY <1>1, <1>2, <1>4, <1>5, <1>6

LEMMA DropOrder ==
  ASSUME IInv, DropStep, OrderInv, NEW c \in Client
  PROVE  /\ ToldWell(c)'
         /\ ClosedWell(c) => ClosedWell(c)'
<1>1. PICK d \in Listed, k \in Nat :
        /\ k <= Len(wire[d]) /\ \A i \in 1 .. k : wire[d][i] # Invalid
        /\ DataMsgs(d, k) \in Seq(Message)
        /\ que' = Append(que \o DataMsgs(d, k), ClosedMsg(d))
        /\ \A e \in Client : e # d => wire'[e] = wire[e]
        /\ Listed' \subseteq Listed \ {d}
        /\ UNCHANGED <<handled, peer, backlog, sent>>
  BY DropTells
<1>2. /\ d \in Client /\ que \in Seq(Message) /\ handled[c] \in Seq(Heard)
      /\ handled'[c] = handled[c]
  BY <1>1, ListedHeard, QueTypes
<1>3. ToldWell(c)
  BY DEF OrderInv
<1> DEFINE ms == DataMsgs(d, k)
           q  == que \o ms
           g  == handled[c]
<1>4. /\ c # d => Aside(ms, c)
      /\ EndOnce(ms, AllIn(que, g, c), c)
      /\ NoClosed(AllIn(que, g, c)) => NoClosed(AllIn(que, g, c) \cup Before(ms, c, Len(ms) + 1))
  BY <1>1, <1>2, DataOpen
<1>5. ms \in Seq(Message)
  BY <1>1
<1> HIDE DEF ms
<1>6. q \in Seq(Message)
  BY <1>2, <1>5, ConcatProperties
<1>7. que' = Append(q, ClosedMsg(d))
  BY <1>1 DEF ms
<1>8. /\ InOrder(q, g, c) => InOrder(que', g, c)
      /\ Numbers(AllIn(que', g, c)) = Numbers(AllIn(q, g, c))
      /\ c # d => AllIn(que', g, c) = AllIn(q, g, c)
      /\ ClosedLast(q, g, c) /\ (c = d => AllIn(q, g, c) # {} /\ NoClosed(AllIn(q, g, c)))
           => ClosedLast(que', g, c)
  <2> HIDE DEF q, g
  <2>1. g \in Seq(Heard)
    BY <1>2 DEF g
  <2> QED
    BY <1>2, <1>6, <1>7, <2>1, ClosedPosted
<1>9. CASE c # d
  <2>1. /\ AllIn(q, g, c) = AllIn(que, g, c)
        /\ InOrder(que, g, c) => InOrder(q, g, c)
        /\ ClosedLast(que, g, c) => ClosedLast(q, g, c)
    BY <1>2, <1>4, <1>5, <1>9, PostedAside
  <2> HIDE DEF q
  <2>2. InOrder(que', g, c) /\ AllIn(que', g, c) = AllIn(que, g, c)
    BY <1>3, <1>8, <1>9, <2>1 DEF ToldWell
  <2>3. wire'[c] = wire[c] /\ UNCHANGED <<peer, backlog, sent>> /\ (c \in Listed' => c \in Listed)
    BY <1>1, <1>9
  <2>4. ToldWell(c)'
    <3>1. Unheard(c) => AllIn(que', handled'[c], c) = {}
      BY <1>2, <1>3, <2>2 DEF ToldWell
    <3>2. /\ InOrder(que', handled'[c], c)
          /\ Numbers(AllIn(que', handled'[c], c)) = Numbers(AllIn(que, handled[c], c))
      BY <1>2, <2>2
    <3> QED
      BY <1>3, <2>3, <3>1, <3>2, ToldOn
  <2>5. ClosedWell(c) => ClosedWell(c)'
    BY <1>2, <1>8, <1>9, <2>1, <2>2, <2>3 DEF ClosedWell
  <2> QED
    BY <2>4, <2>5
<1>10. CASE c = d
  <2>1. PICK m \in Nat :
          /\ FollowsOn(d, m)
          /\ InOrder(que \o DataMsgs(d, k), handled[d], d)
          /\ Numbers(AllIn(que \o DataMsgs(d, k), handled[d], d)) = 0 .. m + k
    BY <1>1, <1>3, <1>10, DataPosted
  <2>2. InOrder(q, g, c) /\ Numbers(AllIn(q, g, c)) = 0 .. m + k
    BY <1>10, <2>1 DEF ms
  <2>3. ~Unheard(c)' /\ c \notin Listed'
    <3>1. ~Unheard(c)
      BY <1>1, <1>10, ListedHeard
    <3> QED
      BY <1>1, <1>10, <3>1 DEF Unheard
  <2>4. ToldWell(c)'
    BY <1>2, <1>8, <2>2, <2>3 DEF ToldWell
  <2>5. ASSUME ClosedWell(c) PROVE ClosedWell(c)'
    <3>1. ClosedLast(que, g, c) /\ NoClosed(AllIn(que, g, c))
      BY <1>1, <1>10, <2>5 DEF ClosedWell
    <3>2. ClosedLast(q, g, c)
      <4> HIDE DEF g
      <4>1. g \in Seq(Heard)
        BY <1>2 DEF g
      <4> QED
        BY <1>2, <1>4, <1>5, <3>1, <4>1, PostedClosedLast
    <3>3. AllIn(q, g, c) = AllIn(que, g, c) \cup Before(ms, c, Len(ms) + 1)
      BY <1>2, <1>5, AllPosted
    <3> HIDE DEF q
    <3>4. NoClosed(AllIn(q, g, c))
      BY <1>4, <3>1, <3>3
    <3>5. AllIn(q, g, c) # {}
      <4>1. 0 \in 0 .. m + k
        BY <1>1
      <4> QED
        BY <2>2, <4>1 DEF Numbers
    <3> QED
      BY <1>2, <1>8, <2>3, <3>2, <3>4, <3>5 DEF ClosedWell
  <2> QED
    BY <2>4, <2>5
<1> QED
  BY <1>9, <1>10

LEMMA OrderStep == IInv /\ IInv' /\ OrderInv /\ [Next]_vars => OrderInv'
<1> SUFFICES ASSUME IInv, IInv', OrderInv, [Next]_vars, NEW c \in Client
             PROVE  ToldWell(c)'
  BY DEF OrderInv
<1>1. ToldWell(c)
  BY DEF OrderInv
<1>2. StepKind
  BY StepKinds
<1>3. CASE QuietStep \/ ClientStep \/ TakeStep \/ Destroy
  BY <1>1, <1>3, QuietOrder, ClientOrder, TakeOrder, DestroyOrder
<1>4. CASE RemoveStep \/ AcceptConnection \/ ScanServed \/ DropStep
  BY <1>1, <1>4, RemoveOrder, AcceptOrder, ServedOrder, DropOrder
<1> QED
  BY <1>2, <1>3, <1>4 DEF StepKind

LEMMA ClosedStep ==
  ASSUME NoRemoveSocket
  PROVE  IInv /\ IInv' /\ OrderInv /\ ClosedInv /\ [Next]_vars => ClosedInv'
<1> SUFFICES ASSUME IInv, IInv', OrderInv, ClosedInv, [Next]_vars, NEW c \in Client
             PROVE  ClosedWell(c)'
  BY DEF ClosedInv
<1>1. ToldWell(c) /\ ClosedWell(c)
  BY DEF OrderInv, ClosedInv
<1>2. StepKind /\ ~RemoveStep
  BY StepKinds DEF RemoveStep
<1>3. CASE QuietStep \/ ClientStep \/ TakeStep \/ Destroy
  BY <1>1, <1>3, QuietOrder, ClientOrder, TakeOrder, DestroyOrder
<1>4. CASE AcceptConnection \/ ScanServed \/ DropStep
  BY <1>1, <1>4, AcceptOrder, ServedOrder, DropOrder
<1> QED
  BY <1>2, <1>3, <1>4 DEF StepKind

LEMMA OrderHolds == Spec => []OrderInv
<1>1. Init => OrderInv
  BY InitOrder
<1> QED
  BY <1>1, InvHolds, OrderStep, PTL DEF Spec

-----------------------------------------------------------------------------
(* However the reads, the failing sends, the kicks and the removals of the *)
(* head of the list interleave, each client's packets reach                *)
(* processSingleMsg() in the order sent, none skipped or repeated and none *)
(* before its pcNewConnection.                                             *)
THEOREM PacketsInOrder == Spec => []PacketOrder
BY OrderHolds, InvHolds, PacketOrderFollows, PTL

(* Where removeSocket() is never reached, pcClosed is posted once for a    *)
(* client, behind every packet read from it, and nothing follows it.       *)
THEOREM ClosedComesLast ==
  ASSUME NoRemoveSocket
  PROVE  Spec => []MessageOrder
<1>1. Init => ClosedInv
  BY InitOrder
<1>2. IInv /\ IInv' /\ OrderInv /\ ClosedInv /\ [Next]_vars => ClosedInv'
  BY ClosedStep
<1> QED
  BY <1>1, <1>2, OrderHolds, InvHolds, MessageOrderFollows, PTL DEF Spec

(* The divergence of ClosedIsRemoved is removeSocket()'s alone: where only *)
(* the catch clauses of the scan post pcClosed, a client that is reported  *)
(* closed is out of m_listClients.                                         *)
THEOREM ClosedMeansRemoved ==
  ASSUME NoRemoveSocket
  PROVE  Spec => []ClosedIsRemoved
<1>1. Init => ClosedInv
  BY InitOrder
<1>2. IInv /\ IInv' /\ OrderInv /\ ClosedInv /\ [Next]_vars => ClosedInv'
  BY ClosedStep
<1>3. IInv /\ ClosedInv => ClosedIsRemoved
  <2>1. \A c : AllTold(c) = AllIn(que, handled[c], c)
    BY DEF AllTold, Told, AllIn, ToldIn, Before
  <2> QED
    BY <2>1 DEF ClosedInv, ClosedWell, NoClosed, ClosedIsRemoved
<1> QED
  BY <1>1, <1>2, <1>3, OrderHolds, InvHolds, PTL DEF Spec
=============================================================================
