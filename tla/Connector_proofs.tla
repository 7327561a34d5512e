--------------------------- MODULE Connector_proofs --------------------------
(***************************************************************************)
(* The descriptors of a connector and the messages it gives, for any       *)
(* number of connections, packets and buffer sizes.                        *)
(***************************************************************************)
EXTENDS Connector, SequenceTheorems, TLAPS

(* A descriptor left behind is that of an attempt made, and never that of  *)
(* the socket object the connector holds.                                  *)
Sockets == [conn : Nat, nonblocking : BOOLEAN, quiet : BOOLEAN]

LeftInv ==
  /\ tries \in Nat /\ sock \in Sockets
  /\ ended \cup orphans \subseteq 1 .. tries
  /\ Here => Me \in 1 .. tries /\ Me \notin ended \cup orphans
  /\ OnlyKnownLeaks

(* What LeftInv is about.                                                  *)
leftParts == <<sock, tries, open, ended, orphans>>

LEMMA NoSockIs == NoSock \in Sockets /\ NoSock.conn = 0
  BY DEF NoSock, Sockets

LEMMA FreshSockIs ==
  ASSUME NEW c \in Nat \ {0}, NEW b \in BOOLEAN
  PROVE  /\ FreshSock(c, b) \in Sockets /\ FreshSock(c, b).conn = c
         /\ FreshSock(c, b) # NoSock
  BY DEF FreshSock, NoSock, Sockets

LEMMA LeftUnchanged ==
  ASSUME LeftInv, UNCHANGED leftParts
  PROVE  LeftInv'
  BY DEF LeftInv, leftParts, OnlyKnownLeaks, Held, Here, Me

(* The socket object is gone and its descriptor closed.                    *)
LEMMA Released ==
  ASSUME LeftInv, sock' = NoSock, open' = open \ Held, UNCHANGED <<ended, orphans>>,
         tries' \in {tries, tries + 1}
  PROVE  LeftInv'
<1>1. Held \cap (ended \cup orphans) = {}
  BY DEF LeftInv, Held
<1>2. open' = ended \cup orphans
  BY <1>1 DEF LeftInv, OnlyKnownLeaks
<1>3. Held' = {} /\ ~Here'
  BY DEF Held, Here
<1> QED
  BY <1>2, <1>3, NoSockIs DEF LeftInv, OnlyKnownLeaks

(* A new connection takes the place of the old one.                        *)
LEMMA Replaced ==
  ASSUME LeftInv, tries' = tries + 1, open' = (open \ Held) \cup {tries'},
         NEW b \in BOOLEAN, sock' = FreshSock(tries', b), UNCHANGED <<ended, orphans>>
  PROVE  LeftInv'
<1>1. Held \cap (ended \cup orphans) = {}
  BY DEF LeftInv, Held
<1>2. open' = ended \cup orphans \cup {tries'}
  BY <1>1 DEF LeftInv, OnlyKnownLeaks
<1>3. tries \in Nat /\ tries' \in Nat \ {0}
  BY DEF LeftInv
<1>4. sock' \in Sockets /\ Me' = tries' /\ Here'
  BY <1>3, FreshSockIs DEF Me, Here
<1>5. Held' = {tries'}
  BY <1>4 DEF Held
<1>6. ended \cup orphans \subseteq 1 .. tries /\ tries' \notin 1 .. tries
  BY <1>3 DEF LeftInv
<1>7. 1 .. tries \subseteq 1 .. tries' /\ tries' \in 1 .. tries'
  BY <1>3
<1> QED
  BY <1>2, <1>3, <1>4, <1>5, <1>6, <1>7 DEF LeftInv, OnlyKnownLeaks

(* A constructor throws: nobody holds the new connection.                  *)
LEMMA Orphaned ==
  ASSUME LeftInv, tries' = tries + 1, open' = (open \ Held) \cup {tries'},
         sock' = NoSock, orphans' = orphans \cup {tries'}, UNCHANGED ended
  PROVE  LeftInv'
<1>1. Held \cap (ended \cup orphans) = {}
  BY DEF LeftInv, Held
<1>2. open' = ended \cup orphans'
  BY <1>1 DEF LeftInv, OnlyKnownLeaks
<1>3. Held' = {} /\ ~Here'
  BY DEF Held, Here
<1>4. tries \in Nat /\ 1 .. tries \subseteq 1 .. tries' /\ tries' \in 1 .. tries'
  BY DEF LeftInv
<1> QED
  BY <1>2, <1>3, <1>4, NoSockIs DEF LeftInv, OnlyKnownLeaks

(* The server closed: the socket object is deleted, its descriptor stays.  *)
LEMMA LeftOpen ==
  ASSUME LeftInv, Here, sock' = NoSock, ended' = ended \cup {Me},
         UNCHANGED <<open, orphans, tries>>
  PROVE  LeftInv'
<1>1. Held = {Me} /\ Held' = {} /\ ~Here'
  BY DEF Held, Here
<1> QED
  BY <1>1, NoSockIs DEF LeftInv, OnlyKnownLeaks

LEMMA LeftStep == LeftInv /\ [Next]_vars => LeftInv'
<1> SUFFICES ASSUME LeftInv, [Next]_vars PROVE LeftInv'
  OBVIOUS
<1>1. CASE UNCHANGED vars
  BY <1>1, LeftUnchanged DEF vars, sockVars, leftVars, leftParts
<1>2. CASE Server
  BY <1>2, LeftUnchanged DEF Server, ServerSends, ServerFinishes, ServerResets,
    sockVars, leftVars, leftParts
<1>3. CASE ConnectFails
  BY <1>3, Released DEF ConnectFails, Attempts, Holds, leftVars
<1>4. CASE ConnectSucceeds
  BY <1>4, Replaced DEF ConnectSucceeds, Attempts, Holds, leftVars
<1>5. CASE NonBlockingFails
  <2>1. CASE pc = "built"
    BY <1>5, <2>1, Replaced DEF NonBlockingFails, Attempts, Holds
  <2>2. CASE pc # "built"
    BY <1>5, <2>2, Orphaned DEF NonBlockingFails, Attempts, Holds
  <2> QED
    BY <2>1, <2>2
<1>6. CASE BuildUnconnected
  BY <1>6, LeftUnchanged DEF BuildUnconnected, sockVars, leftVars, leftParts
<1>7. CASE Close \/ Destroy
  BY <1>7, Released DEF Close, Destroy, Holds, leftVars
<1>8. CASE Quiet
  <2>1. sock' \in Sockets /\ Me' = Me
    BY <1>8 DEF Quiet, LeftInv, Sockets, Me
  <2>2. Here /\ Here'
    <3>1. Here /\ Me \in 1 .. tries /\ tries \in Nat
      BY <1>8 DEF Quiet, LeftInv
    <3>2. sock'.conn # NoSock.conn
      BY <2>1, <3>1, NoSockIs DEF Me
    <3> QED
      BY <3>1, <3>2 DEF Here
  <2>3. Held' = Held
    BY <2>1, <2>2 DEF Held
  <2> QED
    BY <1>8, <2>1, <2>2, <2>3 DEF Quiet, LeftInv, OnlyKnownLeaks, leftVars
<1>9. CASE \E w \in 0 .. MaxOut : SendAsync(w)
  BY <1>9, LeftUnchanged DEF SendAsync, leftVars, leftParts
<1>10. CASE Idle
  <2>1. CASE IdlePostsClosed
    BY <2>1, LeftOpen DEF IdlePostsClosed, Idles, Holds
  <2>2. CASE ~IdlePostsClosed
    BY <1>10, <2>2, LeftUnchanged DEF Idle, IdleReads, IdleRejects, IdleThrows, IdleReset,
      IdleWrites, sockVars, leftVars, leftParts
  <2> QED
    BY <2>1, <2>2
<1>11. CASE GetMsg \/ Recv
  BY <1>11, LeftUnchanged DEF GetMsg, Recv, RecvReads, RecvPacket, RecvBad, RecvFails,
    sockVars, leftVars, leftParts
<1> QED
  BY <1>1, <1>2, <1>3, <1>4, <1>5, <1>6, <1>7, <1>8, <1>9, <1>10, <1>11 DEF Next, Program

(* However often a program connects, reconnects and closes, whatever fails *)
(* and whoever closes: the descriptors left open are those of pcClosed and *)
(* of constructors that threw.                                             *)
THEOREM LeaksKnown == Spec => []OnlyKnownLeaks
<1>1. Init => LeftInv
  BY NoSockIs DEF Init, LeftInv, OnlyKnownLeaks, Held, Here
<1>2. LeftInv => OnlyKnownLeaks
  BY DEF LeftInv
<1> QED
  BY <1>1, <1>2, LeftStep, PTL DEF Spec

(***************************************************************************)
(* The messages of a connector, in the order they were sent.               *)
(***************************************************************************)

Number == Nat \ {0}

MessagesTyped ==
  /\ kind \in {"blocking", "async"} /\ tries \in 0 .. MaxConns
  /\ que \in Seq(Conn \X Nat) /\ inbuf \in Seq(Number)
  /\ got \in [Conn -> Seq(Nat)] /\ net \in [Conn -> Seq(Number)]
  /\ sent \in [Conn -> Nat] /\ broken \in [Conn -> SUBSET Nat]
  /\ peer \in [Conn -> {"none", "up", "finished", "reset"}]

(* The connection a connector holds is its latest; one it has not made yet *)
(* carries nothing, and one that was reset has nothing left to read.       *)
Numbered ==
  /\ kind = "blocking" => que = << >>
  /\ Here => Me = tries /\ Me \in Conn
  /\ \A c \in Conn : c > tries =>
       got[c] = << >> /\ net[c] = << >> /\ sent[c] = 0 /\ peer[c] = "none"
  /\ \A c \in Conn : peer[c] = "reset" => net[c] = << >>
  /\ \A i \in DOMAIN que : que[i][1] <= tries

Ok(c) == kind = "async" \/ broken[c] = {}

(* What was given and is queued of a connection.                           *)
InOrder(c) ==
  /\ \A i \in DOMAIN got[c] :
       got[c][i] = i \/ (got[c][i] = Closed /\ i = Len(got[c]))
  /\ \A i \in DOMAIN que :
       que[i][1] = c /\ que[i][2] # Closed => Before(c, i) = 1 .. que[i][2] - 1
  /\ AllOf(c) \subseteq {Closed} \cup 1 .. sent[c]

(* n packets of the connection the connector holds are given or queued,    *)
(* those in the buffer come next, and then those under way.                *)
FollowsOn(n) ==
  /\ AllOf(Me) = 1 .. n /\ n + Len(inbuf) <= sent[Me]
  /\ \A i \in DOMAIN inbuf : inbuf[i] = n + i
  /\ peer[Me] # "reset" =>
       /\ n + Len(inbuf) + Len(net[Me]) = sent[Me]
       /\ \A i \in DOMAIN net[Me] : net[Me][i] = n + Len(inbuf) + i

StreamInv ==
  /\ MessagesTyped /\ Numbered /\ ClosedIsLast
  /\ \A c \in Conn : Ok(c) => InOrder(c)
  /\ Here /\ Ok(Me) => \E n \in Nat : FollowsOn(n)

(* What StreamInv is about.                                                *)
streamParts == <<kind, Here, Me, tries, que, inbuf, got, net, sent, broken, peer>>

LEMMA StreamUnchanged ==
  ASSUME StreamInv, UNCHANGED streamParts
  PROVE  StreamInv'
<1>1. \A c, i : Before(c, i)' = Before(c, i)
  BY DEF Before, streamParts
<1>2. \A c : AllOf(c)' = AllOf(c)
  BY <1>1 DEF AllOf, streamParts
<1>3. MessagesTyped' /\ Numbered' /\ ClosedIsLast' /\ Here' = Here /\ Me' = Me
  BY DEF StreamInv, MessagesTyped, Numbered, ClosedIsLast, Held, streamParts
<1>4. \A c : Ok(c)' = Ok(c) /\ InOrder(c)' = InOrder(c)
  BY <1>1, <1>2 DEF Ok, InOrder, streamParts
<1>5. \A n : FollowsOn(n)' = FollowsOn(n)
  BY <1>2, <1>3 DEF FollowsOn, streamParts
<1> QED
  BY <1>3, <1>4, <1>5 DEF StreamInv

LEMMA BeforeUnchanged ==
  ASSUME UNCHANGED <<que, got>>
  PROVE  /\ \A c, i : Before(c, i)' = Before(c, i)
         /\ \A c : AllOf(c)' = AllOf(c)
  BY DEF Before, AllOf

(* More was sent, or a connection begun: nothing is given or queued.       *)
LEMMA StillInOrder ==
  ASSUME NEW c \in Conn, InOrder(c), UNCHANGED <<que, got>>,
         sent[c] \in Nat, sent'[c] \in Nat, sent[c] <= sent'[c]
  PROVE  InOrder(c)'
<1>1. 1 .. sent[c] \subseteq 1 .. sent'[c]
  OBVIOUS
<1> QED
  BY <1>1, BeforeUnchanged DEF InOrder

LEMMA ServerStream ==
  ASSUME StreamInv, Server
  PROVE  StreamInv'
<1>1. PICK c \in Conn : ServerSends(c) \/ ServerFinishes(c) \/ ServerResets(c)
  BY DEF Server
<1>2. UNCHANGED <<kind, sock, tries, que, inbuf, got, broken>>
  BY <1>1 DEF ServerSends, ServerFinishes, ServerResets, sockVars
<1>3. Here' = Here /\ Me' = Me /\ Held' = Held /\ \A d : Ok(d)' = Ok(d)
  BY <1>2 DEF Here, Me, Held, Ok
<1>4. ClosedIsLast'
  BY <1>2, <1>3 DEF StreamInv, ClosedIsLast
<1>5. MessagesTyped /\ Numbered /\ sent[c] \in Nat /\ net[c] \in Seq(Number)
  BY DEF StreamInv, MessagesTyped
<1>6. CASE ServerSends(c)
  <2>1. /\ sent' = [sent EXCEPT ![c] = sent[c] + 1] /\ UNCHANGED peer /\ peer[c] = "up"
        /\ net' = [net EXCEPT ![c] = Append(net[c], sent[c] + 1)]
    BY <1>5, <1>6 DEF ServerSends, MessagesTyped
  <2>2. sent[c] + 1 \in Number
    BY <1>5 DEF Number
  <2>3. /\ Append(net[c], sent[c] + 1) \in Seq(Number)
        /\ Len(Append(net[c], sent[c] + 1)) = Len(net[c]) + 1
        /\ \A i \in 1 .. Len(net[c]) : Append(net[c], sent[c] + 1)[i] = net[c][i]
        /\ Append(net[c], sent[c] + 1)[Len(net[c]) + 1] = sent[c] + 1
    BY <1>5, <2>2, AppendProperties
  <2>4. MessagesTyped'
    BY <1>2, <1>5, <2>1, <2>2, <2>3 DEF MessagesTyped, Number
  <2>5. Numbered'
    BY <1>2, <1>3, <1>5, <2>1 DEF Numbered, MessagesTyped
  <2>6. \A d \in Conn : sent'[d] \in Nat /\ sent[d] \in Nat /\ sent[d] <= sent'[d]
    BY <1>5, <2>1 DEF MessagesTyped
  <2>7. \A d \in Conn : Ok(d)' => InOrder(d)'
    BY <1>2, <1>3, <2>6, StillInOrder DEF StreamInv
  <2>8. ASSUME Here, Ok(Me), NEW n \in Nat, FollowsOn(n)
        PROVE  FollowsOn(n)'
    <3>1. Me \in Conn /\ Len(inbuf) \in Nat
      BY <1>5, <2>8, LenProperties DEF Numbered, MessagesTyped
    <3>2. /\ AllOf(Me)' = 1 .. n /\ n + Len(inbuf) <= sent[Me]
          /\ \A i \in DOMAIN inbuf : inbuf[i] = n + i
      BY <1>2, <1>3, <2>8, BeforeUnchanged DEF FollowsOn
    <3>3. CASE Me # c
      <4>1. sent'[Me] = sent[Me] /\ net'[Me] = net[Me]
        BY <1>5, <2>1, <3>1, <3>3 DEF MessagesTyped
      <4> QED
        BY <1>2, <1>3, <2>1, <2>8, <3>2, <4>1 DEF FollowsOn
    <3>4. CASE Me = c
      <4>1. sent'[Me] = sent[Me] + 1 /\ net'[Me] = Append(net[c], sent[c] + 1)
        BY <1>5, <2>1, <3>4 DEF MessagesTyped
      <4>2. /\ n + Len(inbuf) + Len(net[Me]) = sent[Me]
            /\ \A i \in DOMAIN net[Me] : net[Me][i] = n + Len(inbuf) + i
        BY <2>1, <2>8, <3>4 DEF FollowsOn
      <4>3. Len(net[Me]) \in Nat /\ DOMAIN net[Me] = 1 .. Len(net[Me])
        BY <1>5, <3>4, LenProperties
      <4>4. Len(net'[Me]) = Len(net[Me]) + 1 /\ DOMAIN net'[Me] = 1 .. Len(net[Me]) + 1
        BY <2>3, <3>4, <4>1, LenProperties
      <4>0. n + Len(inbuf) <= sent[Me] + 1 /\ n + Len(inbuf) + (Len(net[Me]) + 1) = sent[Me] + 1
        <5>1. n \in Nat /\ Len(inbuf) \in Nat /\ Len(net[Me]) \in Nat /\ sent[Me] \in Nat
          BY <1>5, <2>8, <3>1, <3>4, <4>3
        <5>2. n + Len(inbuf) + Len(net[Me]) = sent[Me]
          BY <4>2
        <5> DEFINE a == Len(inbuf)
                   b == Len(net[Me])
                   s == sent[Me]
        <5>3. a \in Nat /\ b \in Nat /\ s \in Nat /\ n + a + b = s
          BY <5>1, <5>2
        <5> HIDE DEF a, b, s
        <5>4. n + a <= s + 1 /\ n + a + (b + 1) = s + 1
          BY <5>1, <5>3
        <5> QED
          BY <5>4 DEF a, b, s
      <4>5. \A i \in DOMAIN net'[Me] : net'[Me][i] = n + Len(inbuf) + i
        <5> SUFFICES ASSUME NEW i \in 1 .. Len(net[Me]) + 1
                     PROVE  net'[Me][i] = n + Len(inbuf) + i
          BY <4>4
        <5>1. CASE i \in 1 .. Len(net[Me])
          BY <2>3, <3>4, <4>1, <4>2, <4>3, <5>1
        <5>2. CASE i = Len(net[Me]) + 1
          <6>1. net'[Me][i] = sent[Me] + 1
            BY <2>3, <3>4, <4>1, <5>2
          <6> QED
            BY <4>0, <5>2, <6>1
        <5> QED
          BY <4>3, <5>1, <5>2
      <4>6. n + Len(inbuf) <= sent'[Me] /\ n + Len(inbuf) + Len(net'[Me]) = sent'[Me]
        <5>1. Len(net'[Me]) = Len(net[Me]) + 1 /\ sent'[Me] = sent[Me] + 1
          BY <4>1, <4>4
        <5> QED
          BY <4>0, <5>1
      <4> QED
        BY <1>2, <1>3, <3>2, <4>5, <4>6 DEF FollowsOn
    <3> QED
      BY <3>3, <3>4
  <2> QED
    BY <1>3, <1>4, <2>4, <2>5, <2>7, <2>8 DEF StreamInv
<1>7. CASE ServerFinishes(c) \/ ServerResets(c)
  <2>1. /\ UNCHANGED sent
        /\ \A d \in Conn : \/ net'[d] = net[d] /\ (peer'[d] = "reset" <=> peer[d] = "reset")
                           \/ net'[d] = << >> /\ peer'[d] = "reset" /\ peer[d] # "none"
        /\ \A d \in Conn : peer[d] = "none" => peer'[d] = "none" /\ net'[d] = net[d]
    <3>1. CASE ServerFinishes(c)
      BY <1>5, <3>1 DEF ServerFinishes, MessagesTyped
    <3>2. CASE ServerResets(c)
      <4>1. /\ peer[c] # "none" /\ UNCHANGED sent
            /\ peer' = [peer EXCEPT ![c] = "reset"] /\ net' = [net EXCEPT ![c] = << >>]
        BY <3>2 DEF ServerResets
      <4> QED
        BY <1>5, <4>1 DEF MessagesTyped
    <3> QED
      BY <1>7, <3>1, <3>2
  <2>2. << >> \in Seq(Number)
    BY EmptySeq
  <2>3. MessagesTyped'
    BY <1>2, <1>5, <1>7, <2>2 DEF ServerFinishes, ServerResets, MessagesTyped
  <2>4. Numbered'
    BY <1>2, <1>3, <1>5, <2>1 DEF Numbered
  <2>5. \A d \in Conn : Ok(d)' => InOrder(d)'
    BY <1>2, <1>3, <1>5, <2>1, StillInOrder DEF StreamInv, MessagesTyped
  <2>6. ASSUME Here, Ok(Me), NEW n \in Nat, FollowsOn(n)
        PROVE  FollowsOn(n)'
    <3>1. Me \in Conn
      BY <1>5, <2>6 DEF Numbered
    <3>2. /\ AllOf(Me)' = 1 .. n /\ n + Len(inbuf) <= sent[Me]
          /\ \A i \in DOMAIN inbuf : inbuf[i] = n + i
      BY <1>2, <1>3, <2>6, BeforeUnchanged DEF FollowsOn
    <3>3. peer'[Me] # "reset" => net'[Me] = net[Me] /\ peer[Me] # "reset"
      BY <2>1, <3>1
    <3> QED
      BY <1>2, <1>3, <2>1, <2>6, <3>2, <3>3 DEF FollowsOn
  <2> QED
    BY <1>3, <1>4, <2>3, <2>4, <2>5, <2>6 DEF StreamInv
<1> QED
  BY <1>1, <1>6, <1>7

(* A connection takes the place of the old one, or nothing does.           *)
LEMMA ConnectStream ==
  ASSUME StreamInv, Attempts, inbuf' = << >>,
         \/ sock' = NoSock
         \/ \E b \in BOOLEAN : sock' = FreshSock(tries', b),
         UNCHANGED peer \/ peer' = [peer EXCEPT ![tries'] = "up"],
         UNCHANGED <<kind, que, got, sent, net, broken>>
  PROVE  StreamInv'
<1>1. MessagesTyped /\ Numbered /\ tries' = tries + 1 /\ tries' \in Conn /\ tries \in Nat
  BY ConnectorConstants DEF StreamInv, MessagesTyped, Attempts, Conn
<1>2. Here' => Me' = tries' /\ sock' # NoSock
  BY <1>1, FreshSockIs DEF Here, Me
<1>3. MessagesTyped'
  <2>1. << >> \in Seq(Number) /\ tries' \in 0 .. MaxConns
    BY <1>1, EmptySeq, ConnectorConstants DEF Conn
  <2> QED
    BY <1>1, <2>1 DEF MessagesTyped
<1>4. \A c \in Conn : c > tries' => c > tries /\ c # tries'
  BY <1>1 DEF Conn
<1>5. peer' \in [Conn -> {"none", "up", "finished", "reset"}]
  BY <1>3 DEF MessagesTyped
<1>6. \A c \in Conn : c # tries' => peer'[c] = peer[c]
  BY <1>1 DEF MessagesTyped
<1>7. got[tries'] = << >> /\ net[tries'] = << >> /\ sent[tries'] = 0 /\ peer[tries'] = "none"
  BY <1>1 DEF Numbered
<1>8. \A i \in DOMAIN que : que[i][1] <= tries /\ que[i][1] # tries' /\ que[i][1] <= tries'
  <2>1. \A i \in DOMAIN que : que[i][1] \in Nat
    <3>1. DOMAIN que = 1 .. Len(que) /\ que \in Seq(Conn \X Nat)
      BY <1>1, LenProperties DEF MessagesTyped
    <3>2. \A i \in DOMAIN que : que[i] \in Conn \X Nat
      BY <3>1, ElementOfSeq
    <3> QED
      BY <3>2 DEF Conn
  <2> QED
    BY <1>1, <2>1 DEF Numbered
<1>9. Numbered'
  BY <1>1, <1>2, <1>4, <1>6, <1>7, <1>8 DEF Numbered
<1>10. ClosedIsLast'
  <2>1. \A c \in Conn : \A i \in DOMAIN got[c] : c # tries'
    BY <1>7
  <2>2. Held' \subseteq {tries'}
    BY <1>2 DEF Held
  <2> QED
    BY <1>8, <2>1, <2>2 DEF StreamInv, ClosedIsLast
<1>11. \A c \in Conn : Ok(c)' => InOrder(c)'
  BY <1>1, StillInOrder DEF StreamInv, MessagesTyped, Ok
<1>12. Here' => FollowsOn(0)'
  <2>1. AllOf(tries') = {}
    <3>1. ToSet(got[tries']) = {}
      BY <1>7 DEF ToSet
    <3>2. DOMAIN que = 1 .. Len(que) /\ Len(que) \in Nat
      BY <1>1, LenProperties DEF MessagesTyped
    <3>3. {x \in 1 .. (Len(que) + 1) - 1 : que[x][1] = tries'} = {}
      BY <1>8, <3>2
    <3> QED
      BY <3>1, <3>3 DEF AllOf, Before
  <2>2. Here' => AllOf(Me)' = 1 .. 0
    BY <1>2, <2>1, BeforeUnchanged
  <2>3. Len(<< >>) = 0 /\ DOMAIN << >> = {}
    OBVIOUS
  <2> QED
    BY <1>2, <1>7, <2>2, <2>3 DEF FollowsOn
<1> QED
  BY <1>3, <1>9, <1>10, <1>11, <1>12 DEF StreamInv

(* The socket object is deleted; the queue is left alone, or emptied.      *)
LEMMA DroppedStream ==
  ASSUME StreamInv, sock' = NoSock, inbuf' = << >>, que' \in {que, << >>},
         UNCHANGED <<kind, tries, got, net, sent, broken, peer>>
  PROVE  StreamInv'
<1>1. ~Here' /\ Held' = {} /\ \A c : Ok(c)' = Ok(c)
  BY DEF Here, Held, Ok
<1>2. << >> \in Seq(Number) /\ << >> \in Seq(Conn \X Nat) /\ Len(<< >>) = 0 /\ DOMAIN << >> = {}
  BY EmptySeq
<1>3. MessagesTyped' /\ Numbered'
  BY <1>1, <1>2 DEF StreamInv, MessagesTyped, Numbered
<1>4. ClosedIsLast'
  <2>1. CASE UNCHANGED que
    BY <1>1, <2>1 DEF StreamInv, ClosedIsLast
  <2>2. CASE que' = << >>
    BY <1>1, <1>2, <2>2 DEF StreamInv, ClosedIsLast
  <2> QED
    BY <2>1, <2>2
<1>5. ASSUME NEW c \in Conn, InOrder(c)
      PROVE  InOrder(c)'
  <2>1. CASE UNCHANGED que
    BY <1>5, <2>1, BeforeUnchanged DEF InOrder
  <2>2. CASE que' = << >>
    <3>1. AllOf(c)' = ToSet(got[c]) /\ ToSet(got[c]) \subseteq AllOf(c)
      BY <1>2, <2>2 DEF AllOf, Before
    <3> QED
      BY <1>2, <1>5, <2>2, <3>1 DEF InOrder
  <2> QED
    BY <2>1, <2>2
<1> QED
  BY <1>1, <1>3, <1>4, <1>5 DEF StreamInv

LEMMA GivenStream ==
  ASSUME StreamInv, GetMsg
  PROVE  StreamInv'
<1> DEFINE q == Head(que)[1]
           m == Head(que)[2]
           g == Append(got[q], m)
           l == Len(que)
           k == Len(got[q])
<1>1. /\ MessagesTyped /\ Numbered /\ ClosedIsLast
      /\ que' = Tail(que) /\ got' = [got EXCEPT ![q] = g] /\ que # << >>
      /\ UNCHANGED <<kind, sock, tries, inbuf, net, sent, broken, peer>>
  BY DEF StreamInv, GetMsg, sockVars, peerVars
<1>2. /\ l \in Nat \ {0} /\ DOMAIN que = 1 .. l /\ que[1] = Head(que)
      /\ que' \in Seq(Conn \X Nat) /\ DOMAIN que' = 1 .. l - 1 /\ Len(que') = l - 1
      /\ \A i \in 1 .. l - 1 : que'[i] = que[i + 1]
      /\ \A i \in 1 .. l - 1 : i + 1 \in 1 .. l
  BY <1>1, LenProperties, EmptySeq, HeadTailProperties DEF MessagesTyped
<1>3. que[1][1] = q /\ que[1][2] = m /\ q \in Conn /\ m \in Nat
  BY <1>1, <1>2, HeadTailProperties DEF MessagesTyped
<1>4. /\ got[q] \in Seq(Nat) /\ k \in Nat /\ DOMAIN got[q] = 1 .. k
      /\ g \in Seq(Nat) /\ Len(g) = k + 1 /\ DOMAIN g = 1 .. k + 1
      /\ \A i \in 1 .. k : g[i] = got[q][i]
      /\ g[k + 1] = m
  <2>1. got[q] \in Seq(Nat) /\ k \in Nat /\ DOMAIN got[q] = 1 .. k
    BY <1>1, <1>3, LenProperties DEF MessagesTyped
  <2> QED
    BY <1>3, <2>1, AppendProperties, LenProperties
<1>5. got'[q] = g /\ \A c \in Conn : c # q => got'[c] = got[c]
  BY <1>1, <1>3 DEF MessagesTyped
<1>6. \A i \in 1 .. k : got[q][i] # Closed
  BY <1>1, <1>2, <1>3, <1>4 DEF ClosedIsLast
<1> HIDE DEF q, m, g, l, k
<1>7. ASSUME NEW c \in Conn, NEW i \in 1 .. l
      PROVE  Before(c, i)' = Before(c, i + 1)
  <2> DEFINE P == {x \in 1 .. i - 1 : que'[x][1] = c}
             Q == {x \in 1 .. (i + 1) - 1 : que[x][1] = c}
  <2>1. \A x \in P : x + 1 \in Q /\ que'[x] = que[x + 1]
    BY <1>2
  <2>2. \A x \in Q : x = 1 \/ (x - 1 \in P /\ que'[x - 1] = que[x])
    BY <1>2
  <2>3. 1 \in Q <=> q = c
    BY <1>2, <1>3
  <2>4. ToSet(got'[c]) = ToSet(got[c]) \cup (IF c = q THEN {m} ELSE {})
    <3>1. CASE c = q
      <4>1. ToSet(g) = {g[x] : x \in 1 .. k + 1} /\ ToSet(got[q]) = {got[q][x] : x \in 1 .. k}
        BY <1>4 DEF ToSet
      <4>2. \A x \in 1 .. k + 1 : x \in 1 .. k \/ x = k + 1
        BY <1>4
      <4>3. 1 .. k \subseteq 1 .. k + 1 /\ k + 1 \in 1 .. k + 1
        BY <1>4
      <4>4. ToSet(g) = ToSet(got[q]) \cup {m}
        BY <1>4, <4>1, <4>2, <4>3
      <4> QED
        BY <1>5, <3>1, <4>4
    <3>2. CASE c # q
      BY <1>5, <3>2
    <3> QED
      BY <3>1, <3>2
  <2>5. {que[x][2] : x \in Q} = {que'[x][2] : x \in P} \cup (IF c = q THEN {m} ELSE {})
    <3>1. {que'[x][2] : x \in P} \subseteq {que[x][2] : x \in Q}
      BY <2>1
    <3>2. q = c => m \in {que[x][2] : x \in Q}
      BY <1>3, <2>3
    <3>3. ASSUME NEW x \in Q
          PROVE  que[x][2] \in {que'[y][2] : y \in P} \cup (IF c = q THEN {m} ELSE {})
      BY <1>3, <2>2, <2>3
    <3> QED
      BY <3>1, <3>2, <3>3
  <2> HIDE DEF P, Q
  <2>6. Before(c, i)' = ToSet(got'[c]) \cup {que'[x][2] : x \in P}
    BY DEF Before, P
  <2>7. Before(c, i + 1) = ToSet(got[c]) \cup {que[x][2] : x \in Q}
    BY DEF Before, Q
  <2> QED
    BY <2>4, <2>5, <2>6, <2>7
<1>8. \A c \in Conn : AllOf(c)' = AllOf(c)
  <2>1. l \in 1 .. l /\ l - 1 + 1 = l
    BY <1>2
  <2> QED
    BY <1>2, <1>7, <2>1 DEF AllOf, l
<1>9. Here' = Here /\ Me' = Me /\ Held' = Held /\ \A c : Ok(c)' = Ok(c)
  BY <1>1 DEF Here, Me, Held, Ok
<1>10. MessagesTyped'
  BY <1>1, <1>2, <1>3, <1>4 DEF MessagesTyped
<1>11. Numbered'
  <2>1. q <= tries
    BY <1>1, <1>2, <1>3 DEF Numbered
  <2>2. ~(q > tries)
    BY <1>1, <1>3, <2>1 DEF MessagesTyped, Conn
  <2>3. kind # "blocking"
    BY <1>1 DEF Numbered
  <2> QED
    BY <1>1, <1>2, <1>5, <1>9, <2>2, <2>3 DEF Numbered
<1>12. ClosedIsLast'
  <2>1. ASSUME NEW c \in Conn, NEW i \in DOMAIN got'[c], got'[c][i] = Closed
        PROVE  i = Len(got'[c]) /\ c \notin Held' /\ \A j \in DOMAIN que' : que'[j][1] # c
    <3>1. CASE c # q
      BY <1>1, <1>2, <1>5, <1>9, <2>1, <3>1 DEF ClosedIsLast
    <3>2. CASE c = q
      <4>1. i = k + 1 /\ m = Closed
        BY <1>4, <1>5, <1>6, <2>1, <3>2
      <4>2. que[1][1] \notin Held /\ \A j \in 1 + 1 .. l : que[j][1] # que[1][1]
        <5>1. 1 \in DOMAIN que /\ que[1][2] = Closed
          BY <1>2, <1>3, <4>1
        <5>2. \A e \in DOMAIN que : que[e][2] = Closed =>
                que[e][1] \notin Held /\ \A j \in e + 1 .. Len(que) : que[j][1] # que[e][1]
          BY <1>1 DEF ClosedIsLast
        <5> QED
          BY <5>1, <5>2 DEF l
      <4>3. \A j \in DOMAIN que' : que'[j] = que[j + 1] /\ j + 1 \in 1 + 1 .. l
        BY <1>2
      <4> QED
        BY <1>3, <1>4, <1>5, <1>9, <3>2, <4>1, <4>2, <4>3
    <3> QED
      BY <3>1, <3>2
  <2>2. ASSUME NEW i \in DOMAIN que', que'[i][2] = Closed
        PROVE  que'[i][1] \notin Held' /\ \A j \in i + 1 .. Len(que') : que'[j][1] # que'[i][1]
    <3>1. i + 1 \in 1 .. l /\ que'[i] = que[i + 1]
      BY <1>2
    <3>2. que[i + 1][1] \notin Held /\ \A j \in (i + 1) + 1 .. l : que[j][1] # que[i + 1][1]
      BY <1>1, <1>2, <2>2, <3>1 DEF ClosedIsLast, l
    <3>3. \A j \in i + 1 .. Len(que') : que'[j] = que[j + 1] /\ j + 1 \in (i + 1) + 1 .. l
      BY <1>2
    <3> QED
      BY <1>9, <3>1, <3>2, <3>3
  <2>3. \A i, j \in DOMAIN que' : i < j => que'[i][1] <= que'[j][1]
    <3>1. \A i, j \in 1 .. l : i < j => que[i][1] <= que[j][1]
      BY <1>1, <1>2 DEF ClosedIsLast
    <3>2. \A i, j \in 1 .. l - 1 : i < j => que[i + 1][1] <= que[j + 1][1]
      <4>1. \A i, j \in 1 .. l - 1 : i + 1 \in 1 .. l /\ (i < j => i + 1 < j + 1)
        BY <1>2
      <4> QED
        BY <3>1, <4>1
    <3>3. \A i \in DOMAIN que' : i \in 1 .. l - 1 /\ que'[i] = que[i + 1]
      BY <1>2
    <3> QED
      BY <3>2, <3>3
  <2> QED
    BY <2>1, <2>2, <2>3 DEF ClosedIsLast
<1>13. ASSUME NEW c \in Conn, InOrder(c)
       PROVE  InOrder(c)'
  <2>1. ASSUME NEW i \in DOMAIN got'[c]
        PROVE  got'[c][i] = i \/ (got'[c][i] = Closed /\ i = Len(got'[c]))
    <3>1. CASE c # q
      BY <1>5, <1>13, <2>1, <3>1 DEF InOrder
    <3>2. CASE c = q
      <4>1. \A j \in 1 .. k : got[q][j] = j
        BY <1>4, <1>6, <1>13, <3>2 DEF InOrder
      <4>2. m # Closed => m = k + 1
        <5> SUFFICES ASSUME m # Closed PROVE m = k + 1
          OBVIOUS
        <5>1. Before(q, 1) = 1 .. m - 1
          <6>1. \A e \in DOMAIN que : que[e][1] = q /\ que[e][2] # Closed =>
                   Before(q, e) = 1 .. que[e][2] - 1
            BY <1>13, <3>2 DEF InOrder
          <6>2. 1 \in DOMAIN que
            BY <1>2
          <6> QED
            BY <1>3, <6>1, <6>2
        <5>2. Before(q, 1) = ToSet(got[q])
          BY DEF Before
        <5>3. ToSet(got[q]) = 1 .. k
          BY <1>4, <4>1 DEF ToSet
        <5>4. 1 .. m - 1 = 1 .. k /\ m \in Nat \ {0} /\ k \in Nat
          BY <1>3, <1>4, <5>1, <5>2, <5>3 DEF Closed
        <5>5. k <= m - 1 /\ m - 1 <= k
          <6>1. k >= 1 => k \in 1 .. m - 1
            BY <5>4
          <6>2. m - 1 >= 1 => m - 1 \in 1 .. k
            BY <5>4
          <6> QED
            BY <5>4, <6>1, <6>2
        <5> QED
          BY <5>4, <5>5
      <4> QED
        <5>1. i \in 1 .. k \/ i = k + 1
          BY <1>4, <1>5, <2>1, <3>2
        <5>2. CASE i \in 1 .. k
          BY <1>4, <1>5, <3>2, <4>1, <5>2
        <5>3. CASE i = k + 1
          BY <1>4, <1>5, <3>2, <4>2, <5>3
        <5> QED
          BY <5>1, <5>2, <5>3
    <3> QED
      BY <3>1, <3>2
  <2>2. ASSUME NEW i \in DOMAIN que', que'[i][1] = c, que'[i][2] # Closed
        PROVE  Before(c, i)' = 1 .. que'[i][2] - 1
    <3>1. i \in 1 .. l /\ i + 1 \in 1 .. l /\ que'[i] = que[i + 1]
      BY <1>2
    <3> QED
      BY <1>2, <1>7, <1>13, <2>2, <3>1 DEF InOrder
  <2> QED
    BY <1>1, <1>8, <1>13, <2>1, <2>2 DEF InOrder
<1>14. ASSUME Here, NEW n \in Nat, FollowsOn(n)
       PROVE  FollowsOn(n)'
  <2>1. Me \in Conn
    BY <1>1, <1>14 DEF Numbered
  <2> QED
    BY <1>1, <1>8, <1>9, <1>14, <2>1 DEF FollowsOn
<1> QED
  BY <1>9, <1>10, <1>11, <1>12, <1>13, <1>14 DEF StreamInv

(* The elements of a sequence behind the first i, as far as the j-th.      *)
LEMMA PartOf ==
  ASSUME NEW S, NEW s \in Seq(S), NEW i \in Nat, NEW j \in Nat, i <= j, j <= Len(s)
  PROVE  /\ SubSeq(s, i + 1, j) \in Seq(S) /\ Len(SubSeq(s, i + 1, j)) = j - i
         /\ \A p \in 1 .. j - i : SubSeq(s, i + 1, j)[p] = s[i + p]
<1> DEFINE t == SubSeq(s, i + 1, j)
<1>1. Len(s) \in Nat /\ \A x \in 1 .. Len(s) : s[x] \in S
  BY LenProperties, ElementOfSeq
<1>2. \A x \in i + 1 .. j : s[x] \in S
  <2>1. \A x \in i + 1 .. j : x \in 1 .. Len(s)
    BY <1>1
  <2> QED
    BY <1>1, <2>1
<1>3. /\ i + 1 \in Int /\ j \in Int /\ j - (i + 1) + 1 = j - i
      /\ (IF i + 1 <= j THEN j - (i + 1) + 1 ELSE 0) = j - i
      /\ \A p \in 1 .. j - i : i + 1 + p - 1 = i + p
  OBVIOUS
<1>4. /\ t \in Seq(S) /\ Len(t) = IF i + 1 <= j THEN j - (i + 1) + 1 ELSE 0
      /\ \A p \in 1 .. j - (i + 1) + 1 : t[p] = s[i + 1 + p - 1]
  BY <1>2, <1>3, SubSeqProperties
<1> HIDE DEF t
<1>5. t \in Seq(S) /\ Len(t) = j - i /\ \A p \in 1 .. j - i : t[p] = s[i + p]
  BY <1>3, <1>4
<1> QED
  BY <1>5 DEF t

LEMMA FrontOf ==
  ASSUME NEW S, NEW s \in Seq(S), NEW j \in Nat, j <= Len(s)
  PROVE  /\ SubSeq(s, 1, j) \in Seq(S) /\ Len(SubSeq(s, 1, j)) = j
         /\ \A p \in 1 .. j : SubSeq(s, 1, j)[p] = s[p]
<1>1. /\ SubSeq(s, 0 + 1, j) \in Seq(S) /\ Len(SubSeq(s, 0 + 1, j)) = j - 0
      /\ \A p \in 1 .. j - 0 : SubSeq(s, 0 + 1, j)[p] = s[0 + p]
  <2>1. 0 \in Nat /\ 0 <= j
    OBVIOUS
  <2> QED
    BY <2>1, PartOf
<1>2. 0 + 1 = 1 /\ j - 0 = j /\ \A p \in 1 .. j : 0 + p = p
  OBVIOUS
<1> QED
  BY <1>1, <1>2

(* Messages of the connection a connector holds join the queue.            *)
LEMMA QueuedMore ==
  ASSUME StreamInv, Here, NEW ms \in Seq(Conn \X Nat), UNCHANGED got,
         que' = que \o ms, \A i \in DOMAIN ms : ms[i][1] = Me
  PROVE  /\ que' \in Seq(Conn \X Nat) /\ Len(que') = Len(que) + Len(ms)
         /\ \A i \in 1 .. Len(que) : que'[i] = que[i]
         /\ \A i \in 1 .. Len(ms) : que'[Len(que) + i] = ms[i]
         /\ \A c \in Conn, i \in 1 .. Len(que) + 1 : Before(c, i)' = Before(c, i)
         /\ \A c \in Conn \ {Me} : AllOf(c)' = AllOf(c)
         /\ \A c \in {Me}, x \in 0 .. Len(ms) : \A i \in {Len(que) + x + 1} :
              Before(c, i)' = AllOf(c) \cup {ms[j][2] : j \in 1 .. x}
         /\ \A c \in {Me} : AllOf(c)' = AllOf(c) \cup {ms[i][2] : i \in 1 .. Len(ms)}
<1> DEFINE l == Len(que)
           k == Len(ms)
<1>1. /\ que \in Seq(Conn \X Nat) /\ l \in Nat /\ DOMAIN que = 1 .. l
      /\ k \in Nat /\ DOMAIN ms = 1 .. k /\ Me \in Conn
  BY LenProperties DEF StreamInv, MessagesTyped, Numbered
<1>2. /\ que' \in Seq(Conn \X Nat) /\ Len(que') = l + k
      /\ \A i \in 1 .. l + k : que'[i] = IF i <= l THEN que[i] ELSE ms[i - l]
  BY <1>1, ConcatProperties
<1> HIDE DEF l, k
<1>3. \A i \in 1 .. l : que'[i] = que[i]
  BY <1>1, <1>2
<1>4. \A i \in 1 .. k : que'[l + i] = ms[i]
  <2> TAKE i \in 1 .. k
  <2>1. l + i \in 1 .. l + k /\ ~(l + i <= l) /\ (l + i) - l = i
    BY <1>1
  <2> QED
    BY <1>2, <2>1
<1>5. ASSUME NEW c \in Conn, NEW i \in 1 .. l + 1
      PROVE  Before(c, i)' = Before(c, i)
  <2>1. \A x \in 1 .. i - 1 : que'[x] = que[x]
    BY <1>1, <1>3
  <2> DEFINE P == {x \in 1 .. i - 1 : que'[x][1] = c}
             Q == {x \in 1 .. i - 1 : que[x][1] = c}
  <2>2. P = Q /\ \A x \in Q : que'[x] = que[x]
    BY <2>1
  <2> HIDE DEF P, Q
  <2>3. {que'[x][2] : x \in P} = {que[x][2] : x \in Q}
    BY <2>2
  <2>4. Before(c, i)' = ToSet(got[c]) \cup {que'[x][2] : x \in P}
    BY DEF Before, P
  <2>5. Before(c, i) = ToSet(got[c]) \cup {que[x][2] : x \in Q}
    BY DEF Before, Q
  <2> QED
    BY <2>3, <2>4, <2>5
<1>6. ASSUME NEW c \in Conn, NEW x \in 0 .. k, NEW e \in {l + x + 1}
      PROVE  Before(c, e)' =
               AllOf(c) \cup IF c = Me THEN {ms[i][2] : i \in 1 .. x} ELSE {}
  <2> DEFINE Q == {y \in 1 .. (l + 1) - 1 : que[y][1] = c}
             P == {y \in 1 .. e - 1 : que'[y][1] = c}
             N == IF c = Me THEN 1 .. x ELSE {}
  <2>1. \A y \in Q : y \in P /\ que'[y] = que[y]
    BY <1>1, <1>3
  <2>2. \A y \in P : (y \in Q /\ que'[y] = que[y]) \/ (y - l \in N /\ que'[y] = ms[y - l])
    <3> TAKE y \in P
    <3>1. y \in 1 .. l + x /\ que'[y][1] = c
      BY <1>1
    <3>2. CASE y <= l
      BY <1>1, <1>3, <3>1, <3>2
    <3>3. CASE ~(y <= l)
      <4>1. y \in 1 .. l + k /\ y - l \in 1 .. x /\ y - l \in DOMAIN ms
        <5>1. x \in Nat /\ x <= k /\ y \in Nat /\ y <= l + x /\ y > l
          BY <1>1, <3>1, <3>3
        <5>2. y - l \in 1 .. x /\ y \in 1 .. l + k /\ y - l \in 1 .. k
          BY <1>1, <5>1
        <5> QED
          BY <1>1, <5>2
      <4>2. que'[y] = ms[y - l]
        BY <1>2, <3>3, <4>1
      <4> QED
        BY <3>1, <4>1, <4>2
    <3> QED
      BY <3>2, <3>3
  <2>3. \A i \in N : l + i \in P /\ que'[l + i] = ms[i]
    <3> TAKE i \in N
    <3>1. c = Me /\ i \in 1 .. k /\ i \in DOMAIN ms /\ l + i \in 1 .. e - 1
      BY <1>1
    <3> QED
      BY <1>4, <3>1
  <2>4. Before(c, e)' = ToSet(got[c]) \cup {que'[y][2] : y \in P}
    BY DEF Before
  <2>5. AllOf(c) = ToSet(got[c]) \cup {que[y][2] : y \in Q}
    BY DEF AllOf, Before, l
  <2> HIDE DEF P, Q, N
  <2>6. {que'[y][2] : y \in P} = {que[y][2] : y \in Q} \cup {ms[i][2] : i \in N}
    <3>1. \A y \in P : que'[y][2] \in {que[z][2] : z \in Q} \cup {ms[i][2] : i \in N}
      BY <2>2
    <3>2. \A y \in Q : que[y][2] \in {que'[z][2] : z \in P}
      BY <2>1
    <3>3. \A i \in N : ms[i][2] \in {que'[z][2] : z \in P}
      BY <2>3
    <3>4. {que'[y][2] : y \in P} \subseteq {que[y][2] : y \in Q} \cup {ms[i][2] : i \in N}
      BY <3>1
    <3>5. {que[y][2] : y \in Q} \cup {ms[i][2] : i \in N} \subseteq {que'[y][2] : y \in P}
      BY <3>2, <3>3
    <3> QED
      BY <3>4, <3>5
  <2>7. {ms[i][2] : i \in N} = IF c = Me THEN {ms[i][2] : i \in 1 .. x} ELSE {}
    BY DEF N
  <2> QED
    BY <2>4, <2>5, <2>6, <2>7
<1>7. \A c \in Conn, e \in {l + k + 1} : AllOf(c)' = Before(c, e)'
  BY <1>2 DEF AllOf
<1>8. \A c \in Conn : AllOf(c)' =
        AllOf(c) \cup IF c = Me THEN {ms[i][2] : i \in 1 .. k} ELSE {}
  BY <1>1, <1>6, <1>7
<1>9. \A c \in {Me}, x \in 0 .. k : \A i \in {l + x + 1} :
        Before(c, i)' = AllOf(c) \cup {ms[j][2] : j \in 1 .. x}
  BY <1>1, <1>6
<1>10. /\ \A c \in Conn \ {Me} : AllOf(c)' = AllOf(c)
       /\ \A c \in {Me} : AllOf(c)' = AllOf(c) \cup {ms[i][2] : i \in 1 .. k}
  BY <1>1, <1>8
<1>11. que' \in Seq(Conn \X Nat) /\ Len(que') = l + k
  BY <1>2
<1> QED
  BY <1>3, <1>4, <1>5, <1>9, <1>10, <1>11 DEF l, k

(* idle() makes messages of the first x packets it has, and leaves the     *)
(* others in the buffer.                                                   *)
LEMMA ExtractStream ==
  ASSUME StreamInv, Idles, NEW k \in Nat, k <= Len(net[Me]),
         NEW all, all = inbuf \o SubSeq(net[Me], 1, k), NEW x \in 0 .. Len(all),
         net' = [net EXCEPT ![Me] = SubSeq(@, k + 1, Len(@))],
         que' = que \o Messages(SubSeq(all, 1, x)),
         inbuf' = SubSeq(all, x + 1, Len(all)),
         UNCHANGED <<kind, sock, tries, got, sent, broken, peer>>
  PROVE  StreamInv'
<1> DEFINE b == Len(inbuf)
           d == Len(net[Me])
           a == Len(all)
           l == Len(que)
           taken == SubSeq(net[Me], 1, k)
           rest == SubSeq(net[Me], k + 1, d)
           ms == Messages(SubSeq(all, 1, x))
<1>1. /\ MessagesTyped /\ Numbered /\ ClosedIsLast /\ Here /\ kind = "async"
      /\ Me \in Conn /\ Me = tries /\ tries \in Nat
  BY DEF StreamInv, Idles, Numbered, MessagesTyped
<1>2. /\ net[Me] \in Seq(Number) /\ d \in Nat /\ k <= d /\ DOMAIN net[Me] = 1 .. d
      /\ inbuf \in Seq(Number) /\ b \in Nat /\ DOMAIN inbuf = 1 .. b
      /\ que \in Seq(Conn \X Nat) /\ l \in Nat /\ DOMAIN que = 1 .. l
  BY <1>1, LenProperties DEF MessagesTyped
<1>3. \A i \in 1 .. d : net[Me][i] \in Number
  BY <1>2, ElementOfSeq
<1>4. /\ taken \in Seq(Number) /\ Len(taken) = k
      /\ \A i \in 1 .. k : taken[i] = net[Me][i]
  BY <1>2, FrontOf
<1>5. /\ rest \in Seq(Number) /\ Len(rest) = d - k
      /\ \A i \in 1 .. d - k : rest[i] = net[Me][k + i]
  BY <1>2, PartOf
<1>6. /\ all \in Seq(Number) /\ a = b + k /\ a \in Nat
      /\ \A i \in 1 .. b + k : all[i] = IF i <= b THEN inbuf[i] ELSE taken[i - b]
  <2>1. inbuf \in Seq(Number) /\ taken \in Seq(Number) /\ all = inbuf \o taken
    BY <1>2, <1>4
  <2> HIDE DEF taken
  <2>2. /\ inbuf \o taken \in Seq(Number) /\ Len(inbuf \o taken) = Len(inbuf) + Len(taken)
        /\ \A i \in 1 .. Len(inbuf) + Len(taken) :
             (inbuf \o taken)[i] = IF i <= Len(inbuf) THEN inbuf[i] ELSE taken[i - Len(inbuf)]
    BY <2>1, ConcatProperties
  <2>3. Len(inbuf) = b /\ Len(taken) = k /\ Len(all) = a
    BY <1>4
  <2>4. /\ all \in Seq(Number) /\ a = b + k
        /\ \A i \in 1 .. b + k : all[i] = IF i <= b THEN inbuf[i] ELSE taken[i - b]
    BY <2>1, <2>2, <2>3
  <2> HIDE DEF a, b
  <2> QED
    BY <1>2, <2>4
<1>7. net'[Me] = rest /\ \A c \in Conn \ {Me} : net'[c] = net[c]
  BY <1>1, <1>2 DEF MessagesTyped
<1> HIDE DEF taken, rest, b, d
<1>8. /\ inbuf' \in Seq(Number) /\ Len(inbuf') = a - x /\ DOMAIN inbuf' = 1 .. a - x
      /\ \A i \in 1 .. a - x : inbuf'[i] = all[x + i]
  <2> DEFINE r == SubSeq(all, x + 1, a)
  <2>1. r \in Seq(Number) /\ Len(r) = a - x /\ \A i \in 1 .. a - x : r[i] = all[x + i]
    <3>1. x \in Nat /\ a \in Nat /\ x <= a /\ a <= Len(all) /\ all \in Seq(Number)
      BY <1>6
    <3> HIDE DEF a
    <3> QED
      BY <3>1, PartOf
  <2> HIDE DEF r
  <2>2. DOMAIN r = 1 .. a - x
    BY <2>1, LenProperties
  <2> QED
    BY <2>1, <2>2 DEF r
<1>9. /\ ms \in Seq(Conn \X Nat) /\ Len(ms) = x /\ DOMAIN ms = 1 .. x
      /\ \A i \in 1 .. x : ms[i][1] = Me /\ ms[i][2] = all[i] /\ all[i] \in Number
  <2> DEFINE f == SubSeq(all, 1, x)
  <2>1. x \in Nat /\ x <= Len(all) /\ \A i \in 1 .. x : all[i] \in Number
    BY <1>6, ElementOfSeq
  <2>2. f \in Seq(Number) /\ Len(f) = x /\ \A i \in 1 .. x : f[i] = all[i]
    BY <1>6, <2>1, FrontOf
  <2> HIDE DEF f
  <2>3. DOMAIN f = 1 .. x
    BY <2>2, LenProperties
  <2> DEFINE mf == [i \in 1 .. x |-> <<Me, f[i]>>]
  <2>4. ms = mf
    BY <2>3 DEF Messages, f
  <2>5. mf \in [1 .. x -> Conn \X Nat]
    BY <1>1, <2>1, <2>2 DEF Number
  <2>6. DOMAIN mf = 1 .. x /\ \A i \in 1 .. x : mf[i][1] = Me /\ mf[i][2] = all[i]
    BY <2>2
  <2> HIDE DEF mf
  <2>7. mf \in Seq(Conn \X Nat)
    BY <2>1, <2>5
  <2>8. Len(mf) = x
    BY <2>1, <2>6, <2>7, LenProperties
  <2> HIDE DEF ms
  <2> QED
    BY <2>1, <2>4, <2>6, <2>7, <2>8
<1> HIDE DEF a, ms
<1>10. /\ que' \in Seq(Conn \X Nat) /\ Len(que') = l + x /\ DOMAIN que' = 1 .. l + x
       /\ \A i \in 1 .. l : que'[i] = que[i]
       /\ \A i \in 1 .. x : que'[l + i] = ms[i]
       /\ \A c \in Conn, i \in 1 .. l + 1 : Before(c, i)' = Before(c, i)
       /\ \A c \in Conn \ {Me} : AllOf(c)' = AllOf(c)
       /\ \A c \in {Me}, y \in 0 .. x : \A i \in {l + y + 1} :
            Before(c, i)' = AllOf(c) \cup {ms[j][2] : j \in 1 .. y}
       /\ \A c \in {Me} : AllOf(c)' = AllOf(c) \cup {ms[i][2] : i \in 1 .. x}
  <2>1. que' = que \o ms
    BY DEF ms
  <2>2. \A i \in DOMAIN ms : ms[i][1] = Me
    BY <1>9
  <2> QED
    BY <1>1, <1>9, <2>1, <2>2, QueuedMore, LenProperties
<1> HIDE DEF l
<1>11. x \in Nat /\ x <= a /\ x \in 0 .. x
  BY <1>6 DEF a
<1>12. Here' = Here /\ Me' = Me /\ Held' = Held /\ \A c : Ok(c)' = Ok(c)
  BY DEF Here, Me, Held, Ok
<1>13. MessagesTyped'
  BY <1>1, <1>5, <1>7, <1>8, <1>10 DEF MessagesTyped
<1>14. \A i \in DOMAIN que' : (i \in 1 .. l /\ que'[i] = que[i])
         \/ (i - l \in 1 .. x /\ i \notin 1 .. l 
             /\ que'[i][1] = Me /\ que'[i][2] = all[i - l] /\ all[i - l] \in Number)
  <2> TAKE i \in DOMAIN que'
  <2>1. i \in 1 .. l + x
    BY <1>10
  <2>2. CASE i <= l
    BY <1>2, <1>10, <2>1, <2>2
  <2>3. CASE ~(i <= l)
    <3>1. i - l \in 1 .. x /\ l + (i - l) = i /\ i \notin 1 .. l
      BY <1>2, <1>11, <2>1, <2>3
    <3>2. que'[l + (i - l)] = ms[i - l]
      BY <1>9, <1>10, <3>1
    <3>3. que'[i] = ms[i - l]
      BY <3>1, <3>2
    <3>4. ms[i - l][1] = Me /\ ms[i - l][2] = all[i - l] /\ all[i - l] \in Number
      BY <1>9, <3>1
    <3> QED
      BY <3>1, <3>3, <3>4
  <2> QED
    BY <2>2, <2>3
<1>15. Numbered'
  <2>1. peer[Me] = "reset" => net'[Me] = << >>
    <3>1. peer[Me] = "reset" => d = 0
      BY <1>1 DEF Numbered, d
    <3>2. d = 0 => Len(rest) = 0
      BY <1>2, <1>5
    <3> QED
      BY <1>5, <1>7, <3>1, <3>2, EmptySeq
  <2>2. \A i \in DOMAIN que' : que'[i][1] <= tries
    <3> TAKE i \in DOMAIN que'
    <3>1. CASE i \in 1 .. l
      BY <1>1, <1>2, <1>14, <3>1 DEF Numbered
    <3>2. CASE i \notin 1 .. l
      <4>1. que'[i][1] = tries
        BY <1>1, <1>14, <3>2
      <4> QED
        BY <1>1, <4>1
    <3> QED
      BY <3>1, <3>2
  <2>3. \A c \in Conn : c > tries => c # Me
    BY <1>1 DEF Conn
  <2> QED
    BY <1>1, <1>7, <1>12, <2>1, <2>2, <2>3 DEF Numbered
<1>16. ClosedIsLast'
  <2>1. Me \in Held
    BY <1>1 DEF Held
  <2>2. ASSUME NEW c \in Conn, NEW i \in DOMAIN got[c], got[c][i] = Closed
        PROVE  i = Len(got[c]) /\ c \notin Held /\ \A j \in DOMAIN que' : que'[j][1] # c
    <3>1. i = Len(got[c]) /\ c \notin Held /\ \A j \in 1 .. l : que[j][1] # c
      BY <1>1, <1>2, <2>2 DEF ClosedIsLast
    <3>2. c # Me
      BY <2>1, <3>1
    <3> QED
      BY <1>14, <3>1, <3>2
  <2>3. ASSUME NEW i \in DOMAIN que', que'[i][2] = Closed
        PROVE  que'[i][1] \notin Held /\ \A j \in i + 1 .. Len(que') : que'[j][1] # que'[i][1]
    <3>1. i \in 1 .. l /\ que'[i] = que[i]
      <4>1. ASSUME que'[i][2] = all[i - l], all[i - l] \in Number
            PROVE  FALSE
        BY <2>3, <4>1 DEF Number, Closed
      <4> QED
        BY <1>14, <4>1
    <3>2. que[i][1] \notin Held /\ \A j \in i + 1 .. l : que[j][1] # que[i][1]
      BY <1>1, <1>2, <2>3, <3>1 DEF ClosedIsLast, l
    <3>3. que[i][1] # Me
      BY <2>1, <3>2
    <3>4. \A j \in i + 1 .. Len(que') : j \in DOMAIN que' /\ (j \in 1 .. l => j \in i + 1 .. l)
      BY <1>2, <1>10, <1>11, <3>1
    <3> QED
      <4> SUFFICES ASSUME NEW j \in i + 1 .. Len(que')
                   PROVE  que'[j][1] # que[i][1]
        BY <3>1, <3>2
      <4>1. CASE j \in 1 .. l
        BY <1>10, <3>2, <3>4, <4>1
      <4>2. CASE j \notin 1 .. l
        BY <1>14, <3>3, <3>4, <4>2
      <4> QED
        BY <4>1, <4>2
  <2>4. ASSUME NEW i \in DOMAIN que', NEW j \in DOMAIN que', i < j
        PROVE  que'[i][1] <= que'[j][1]
    <3>1. CASE j \in 1 .. l
      <4>1. i \in 1 .. l
        BY <1>2, <1>10, <1>11, <2>4, <3>1
      <4>2. que[i][1] <= que[j][1]
        BY <1>1, <1>2, <2>4, <3>1, <4>1 DEF ClosedIsLast
      <4> QED
        BY <1>14, <3>1, <4>1, <4>2
    <3>2. CASE j \notin 1 .. l
      <4>1. que'[j][1] = tries
        BY <1>1, <1>14, <3>2
      <4> QED
        BY <1>15, <4>1 DEF Numbered
    <3> QED
      BY <3>1, <3>2
  <2> QED
    BY <1>12, <2>2, <2>3, <2>4 DEF ClosedIsLast
<1>17. PICK n \in Nat : FollowsOn(n)
  BY <1>1 DEF StreamInv, Ok
<1>18. \A i \in 1 .. a : all[i] = n + i
  <2> TAKE i \in 1 .. a
  <2>1. CASE i <= b
    <3>1. i \in 1 .. b /\ all[i] = inbuf[i]
      BY <1>2, <1>6, <2>1
    <3> QED
      BY <1>2, <1>17, <3>1 DEF FollowsOn
  <2>2. CASE ~(i <= b)
    <3>1. i - b \in 1 .. k /\ i - b \in 1 .. d /\ all[i] = taken[i - b] /\ d # 0
      <4>1. i \in 1 .. b + k /\ all[i] = taken[i - b]
        BY <1>6, <2>2
      <4>2. i - b \in 1 .. k
        BY <1>2, <2>2, <4>1
      <4> QED
        BY <1>2, <4>1, <4>2
    <3>2. all[i] = net[Me][i - b]
      BY <1>4, <3>1
    <3>3. peer[Me] # "reset"
      BY <1>1, <3>1 DEF Numbered, d
    <3>4. net[Me][i - b] = n + b + (i - b)
      BY <1>2, <1>17, <3>1, <3>3 DEF FollowsOn, b
    <3> QED
      BY <1>2, <1>6, <1>17, <3>2, <3>4
  <2> QED
    BY <2>1, <2>2
<1>19. n + a <= sent[Me] /\ sent[Me] \in Nat
  <2>1. sent[Me] \in Nat /\ n + b <= sent[Me]
    BY <1>1, <1>17 DEF MessagesTyped, FollowsOn, b
  <2>2. CASE peer[Me] = "reset"
    <3>1. d = 0
      BY <1>1, <2>2 DEF Numbered, d
    <3> QED
      BY <1>2, <1>6, <2>1, <3>1
  <2>3. CASE peer[Me] # "reset"
    <3>1. n + b + d = sent[Me]
      BY <1>17, <2>3 DEF FollowsOn, b, d
    <3> QED
      BY <1>2, <1>6, <2>1, <3>1
  <2> QED
    BY <2>2, <2>3
<1>20. \A c \in {Me}, y \in 0 .. x : \A i \in {l + y + 1} : Before(c, i)' = 1 .. n + y
  <2> TAKE c \in {Me}, y \in 0 .. x
  <2> TAKE e \in {l + y + 1}
  <2>1. \A i \in 1 .. y : ms[i][2] = n + i
    <3> TAKE i \in 1 .. y
    <3>1. i \in 1 .. x /\ i \in 1 .. a
      BY <1>6, <1>11
    <3> QED
      BY <1>9, <1>18, <3>1
  <2>2. {ms[i][2] : i \in 1 .. y} = {n + i : i \in 1 .. y}
    BY <2>1
  <2>3. 1 .. n + y = (1 .. n) \cup {n + i : i \in 1 .. y}
    <3>1. \A j \in 1 .. n + y : j \in 1 .. n \/ (j - n \in 1 .. y /\ j = n + (j - n))
      BY <1>11
    <3>2. \A i \in 1 .. y : n + i \in 1 .. n + y
      BY <1>11
    <3>3. 1 .. n \subseteq 1 .. n + y
      BY <1>11
    <3> QED
      BY <3>1, <3>2, <3>3
  <2> QED
    BY <1>10, <1>17, <2>2, <2>3 DEF FollowsOn
<1>21. \A c \in {Me} : AllOf(c)' = 1 .. n + x
  <2>1. \A c \in {Me} : \A i \in {l + x + 1} : AllOf(c)' = Before(c, i)'
    BY <1>10, <1>11
  <2> QED
    BY <1>11, <1>20, <2>1
<1>22. ASSUME NEW c \in Conn, InOrder(c)
       PROVE  InOrder(c)'
  <2>1. AllOf(c)' \subseteq {Closed} \cup 1 .. sent[c]
    <3>1. CASE c = Me
      <4>1. 1 .. n + x \subseteq 1 .. sent[c]
        BY <1>6, <1>11, <1>19, <3>1
      <4>2. AllOf(c)' = 1 .. n + x
        BY <1>21, <3>1
      <4> QED
        BY <4>1, <4>2
    <3>2. CASE c # Me
      BY <1>10, <1>22, <3>2 DEF InOrder
    <3> QED
      BY <3>1, <3>2
  <2>2. ASSUME NEW i \in DOMAIN que', que'[i][1] = c, que'[i][2] # Closed
        PROVE  Before(c, i)' = 1 .. que'[i][2] - 1
    <3>1. CASE i \in 1 .. l
      <4>1. que'[i] = que[i] /\ i \in 1 .. l + 1
        BY <1>2, <1>10, <3>1
      <4> QED
        BY <1>2, <1>10, <1>22, <2>2, <3>1, <4>1 DEF InOrder
    <3>2. CASE i \notin 1 .. l
      <4>1. i - l \in 1 .. x /\ que'[i][1] = Me /\ que'[i][2] = all[i - l]
        BY <1>14, <3>2
      <4>2. i \in Nat
        BY <1>10
      <4>3. i = l + (i - l - 1) + 1 /\ i - l - 1 \in 0 .. x /\ i - l \in 1 .. a
        <5>1. i - l \in Nat /\ i - l >= 1 /\ i - l <= x /\ x <= a
          BY <1>11, <4>1
        <5>2. x \in Nat /\ a \in Nat /\ l \in Nat
          BY <1>2, <1>6, <1>11
        <5> HIDE DEF l, a
        <5>3. i - l \in 1 .. a
          BY <5>1, <5>2
        <5>4. i - l - 1 \in 0 .. x
          BY <5>1, <5>2
        <5>5. i = l + (i - l - 1) + 1
          BY <4>2, <5>2
        <5> QED
          BY <5>3, <5>4, <5>5
      <4>4. c = Me
        BY <2>2, <4>1
      <4>5. Before(c, i)' = 1 .. n + (i - l - 1)
        BY <1>20, <4>3, <4>4
      <4>6. all[i - l] = n + (i - l)
        BY <1>18, <4>3
      <4>7. all[i - l] - 1 = n + (i - l - 1)
        <5> DEFINE v == all[i - l]
        <5>1. n \in Nat /\ i \in Nat /\ l \in Nat /\ v = n + (i - l)
          BY <1>2, <1>17, <4>2, <4>6
        <5> HIDE DEF v
        <5>2. v - 1 = n + (i - l - 1)
          BY <5>1
        <5> QED
          BY <5>2 DEF v
      <4> QED
        BY <2>2, <4>1, <4>5, <4>7
    <3> QED
      BY <3>1, <3>2
  <2> QED
    BY <1>22, <2>1, <2>2 DEF InOrder
<1>23. FollowsOn(n + x)'
  <2>1. n + x + Len(inbuf') <= sent[Me]
    BY <1>6, <1>8, <1>11, <1>19
  <2>2. \A i \in DOMAIN inbuf' : inbuf'[i] = n + x + i
    <3> TAKE i \in DOMAIN inbuf'
    <3>1. i \in 1 .. a - x /\ inbuf'[i] = all[x + i]
      BY <1>8
    <3>5. x + i \in 1 .. a
      BY <1>6, <1>11, <3>1
    <3>2. all[x + i] = n + (x + i)
      BY <1>18, <3>5
    <3>3. n + (x + i) = n + x + i
      BY <1>11, <3>1
    <3> QED
      BY <3>1, <3>2, <3>3
  <2>3. ASSUME peer[Me] # "reset"
        PROVE  /\ n + x + Len(inbuf') + Len(net'[Me]) = sent[Me]
               /\ \A i \in DOMAIN net'[Me] : net'[Me][i] = n + x + Len(inbuf') + i
    <3>1. n + b + d = sent[Me] /\ \A i \in 1 .. d : net[Me][i] = n + b + i
      BY <1>2, <1>17, <2>3 DEF FollowsOn, b, d
    <3>2. n + x + (a - x) + (d - k) = sent[Me]
      BY <1>2, <1>6, <1>11, <3>1
    <3>3. \A i \in 1 .. d - k : net'[Me][i] = n + x + (a - x) + i
      <4> TAKE i \in 1 .. d - k
      <4>1. k + i \in 1 .. d /\ net'[Me][i] = net[Me][k + i]
        BY <1>2, <1>5, <1>7
      <4>2. net[Me][k + i] = n + b + (k + i)
        BY <3>1, <4>1
      <4> QED
        BY <1>2, <1>6, <1>11, <4>1, <4>2
    <3>4. Len(net'[Me]) = d - k /\ DOMAIN net'[Me] = 1 .. d - k
      BY <1>5, <1>7, LenProperties
    <3> QED
      BY <1>8, <3>2, <3>3, <3>4
  <2> QED
    BY <1>12, <1>21, <2>1, <2>2, <2>3 DEF FollowsOn
<1> QED
  BY <1>11, <1>12, <1>13, <1>15, <1>16, <1>22, <1>23 DEF StreamInv

(* pcClosed goes to the end of the queue, and the socket object with it.   *)
LEMMA PostedStream ==
  ASSUME StreamInv, IdlePostsClosed
  PROVE  StreamInv'
<1> DEFINE l == Len(que)
           ms == <<<<Me, Closed>>>>
<1>1. /\ MessagesTyped /\ Numbered /\ ClosedIsLast /\ Here /\ kind = "async"
      /\ Me \in Conn /\ Me = tries /\ tries \in Nat
      /\ que' = Append(que, <<Me, Closed>>) /\ sock' = NoSock /\ inbuf' = << >>
      /\ UNCHANGED <<kind, tries, got, net, sent, broken, peer>>
  BY DEF StreamInv, IdlePostsClosed, Idles, Holds, Numbered, MessagesTyped, peerVars
<1>2. que \in Seq(Conn \X Nat) /\ l \in Nat /\ DOMAIN que = 1 .. l
  BY <1>1, LenProperties DEF MessagesTyped
<1>3. /\ ms \in Seq(Conn \X Nat) /\ Len(ms) = 1 /\ DOMAIN ms = {1}
      /\ ms[1][1] = Me /\ ms[1][2] = Closed
  BY <1>1 DEF Closed
<1>4. que' = que \o ms
  <2> DEFINE e == <<Me, Closed>>
  <2>1. e \in Conn \X Nat
    BY <1>1 DEF Closed
  <2> HIDE DEF e
  <2>2. Append(que, e) = que \o <<e>>
    BY <1>2, <2>1, AppendIsConcat
  <2> QED
    BY <1>1, <2>2 DEF e
<1> HIDE DEF ms
<1>5. /\ que' \in Seq(Conn \X Nat) /\ Len(que') = l + 1
      /\ \A i \in 1 .. l : que'[i] = que[i]
      /\ \A i \in 1 .. 1 : que'[l + i] = ms[i]
      /\ \A c \in Conn, i \in 1 .. l + 1 : Before(c, i)' = Before(c, i)
      /\ \A c \in Conn \ {Me} : AllOf(c)' = AllOf(c)
      /\ \A c \in {Me} : AllOf(c)' = AllOf(c) \cup {ms[i][2] : i \in 1 .. 1}
  <2>1. \A i \in DOMAIN ms : ms[i][1] = Me
    BY <1>3
  <2> QED
    BY <1>1, <1>3, <1>4, <2>1, QueuedMore
<1> HIDE DEF l
<1>6. /\ DOMAIN que' = 1 .. l + 1
      /\ que'[l + 1][1] = Me /\ que'[l + 1][2] = Closed
      /\ \A i \in DOMAIN que' : i \in 1 .. l \/ (i = l + 1 /\ i \notin 1 .. l)
  <2>1. DOMAIN que' = 1 .. l + 1
    BY <1>5, LenProperties
  <2>2. que'[l + 1] = ms[1]
    BY <1>5
  <2> QED
    BY <1>2, <1>3, <2>1, <2>2
<1>7. ~Here' /\ Held' = {} /\ Held = {Me} /\ \A c : Ok(c)' = Ok(c)
  BY <1>1 DEF Here, Held, Ok
<1>8. MessagesTyped'
  BY <1>1, <1>5, EmptySeq DEF MessagesTyped
<1>9. Numbered'
  <2>1. \A i \in DOMAIN que' : que'[i][1] <= tries
    <3> TAKE i \in DOMAIN que'
    <3>1. CASE i \in 1 .. l
      BY <1>1, <1>2, <1>5, <3>1 DEF Numbered
    <3>2. CASE i = l + 1
      BY <1>1, <1>6, <3>2
    <3> QED
      BY <1>6, <3>1, <3>2
  <2> QED
    BY <1>1, <1>7, <2>1 DEF Numbered
<1>10. ClosedIsLast'
  <2>1. ASSUME NEW c \in Conn, NEW i \in DOMAIN got[c], got[c][i] = Closed
        PROVE  i = Len(got[c]) /\ \A j \in DOMAIN que' : que'[j][1] # c
    <3>1. i = Len(got[c]) /\ c # Me /\ \A j \in 1 .. l : que[j][1] # c
      BY <1>1, <1>2, <1>7, <2>1 DEF ClosedIsLast
    <3>2. ASSUME NEW j \in DOMAIN que'
          PROVE  que'[j][1] # c
      BY <1>5, <1>6, <3>1
    <3> QED
      BY <3>1, <3>2
  <2>2. ASSUME NEW i \in DOMAIN que', que'[i][2] = Closed, NEW j \in i + 1 .. Len(que')
        PROVE  que'[j][1] # que'[i][1]
    <3>1. i \in 1 .. l /\ que'[i] = que[i]
      BY <1>2, <1>5, <1>6, <2>2
    <3>2. que[i][1] # Me /\ \A x \in i + 1 .. l : que[x][1] # que[i][1]
      BY <1>1, <1>2, <1>7, <2>2, <3>1 DEF ClosedIsLast, l
    <3>3. CASE j \in 1 .. l
      <4>1. j \in i + 1 .. l
        BY <3>3
      <4> QED
        BY <1>5, <3>1, <3>2, <3>3, <4>1
    <3>4. CASE j = l + 1
      BY <1>6, <3>1, <3>2, <3>4
    <3>5. j \in 1 .. l \/ j = l + 1
      BY <1>2, <1>5, <3>1
    <3> QED
      BY <3>3, <3>4, <3>5
  <2>3. ASSUME NEW i \in DOMAIN que', NEW j \in DOMAIN que', i < j
        PROVE  que'[i][1] <= que'[j][1]
    <3>1. CASE j \in 1 .. l
      <4>1. i \in 1 .. l
        BY <1>2, <1>6, <2>3, <3>1
      <4>2. que[i][1] <= que[j][1]
        BY <1>1, <1>2, <2>3, <3>1, <4>1 DEF ClosedIsLast
      <4> QED
        BY <1>5, <3>1, <4>1, <4>2
    <3>2. CASE j = l + 1
      <4>1. que'[j][1] = tries
        BY <1>1, <1>6, <3>2
      <4> QED
        BY <1>1, <1>9, <4>1 DEF Numbered
    <3> QED
      BY <1>6, <3>1, <3>2
  <2> QED
    BY <1>1, <1>7, <2>1, <2>2, <2>3 DEF ClosedIsLast
<1>11. ASSUME NEW c \in Conn, InOrder(c)
       PROVE  InOrder(c)'
  <2>1. AllOf(c)' \subseteq AllOf(c) \cup {Closed}
    <3>1. CASE c = Me
      <4>1. {ms[i][2] : i \in 1 .. 1} = {Closed}
        BY <1>3
      <4> QED
        BY <1>5, <3>1, <4>1
    <3>2. CASE c # Me
      BY <1>5, <3>2
    <3> QED
      BY <3>1, <3>2
  <2>2. ASSUME NEW i \in DOMAIN que', que'[i][1] = c, que'[i][2] # Closed
        PROVE  Before(c, i)' = 1 .. que'[i][2] - 1
    <3>1. i \in 1 .. l /\ i \in 1 .. l + 1
      BY <1>2, <1>6, <2>2
    <3>2. Before(c, i) = 1 .. que[i][2] - 1
      BY <1>2, <1>5, <1>11, <2>2, <3>1 DEF InOrder
    <3> QED
      BY <1>5, <3>1, <3>2
  <2> QED
    BY <1>1, <1>11, <2>1, <2>2 DEF InOrder
<1> QED
  BY <1>7, <1>8, <1>9, <1>10, <1>11 DEF StreamInv

(* A connector that blocks has nothing queued.                             *)
LEMMA BlocksIs ==
  ASSUME StreamInv, Blocks
  PROVE  /\ MessagesTyped /\ Numbered /\ ClosedIsLast /\ Here /\ kind = "blocking"
         /\ Me \in Conn /\ que = << >> /\ Len(que) = 0 /\ DOMAIN que = {}
         /\ \A c : AllOf(c) = ToSet(got[c])
         /\ \A i \in DOMAIN got[Me] : got[Me][i] # Closed
<1>1. /\ MessagesTyped /\ Numbered /\ ClosedIsLast /\ Here /\ kind = "blocking"
      /\ Me \in Conn /\ que = << >> /\ Len(que) = 0 /\ DOMAIN que = {}
  BY DEF StreamInv, Blocks, Numbered
<1>2. \A c : AllOf(c) = ToSet(got[c])
  BY <1>1 DEF AllOf, Before
<1>3. \A i \in DOMAIN got[Me] : got[Me][i] # Closed
  BY <1>1 DEF ClosedIsLast, Held
<1> QED
  BY <1>1, <1>2, <1>3

LEMMA BufferStream ==
  ASSUME StreamInv, NEW k \in Nat, NEW part \in BOOLEAN, RecvReads(k, part)
  PROVE  StreamInv'
<1> DEFINE d == Len(net[Me])
           r == SubSeq(net[Me], k + 1, d)
           t == SubSeq(net[Me], 1, k)
<1>1. /\ MessagesTyped /\ Numbered /\ ClosedIsLast /\ Here /\ kind = "blocking" /\ Me \in Conn
      /\ inbuf = << >> /\ k <= d /\ net' = [net EXCEPT ![Me] = r] /\ inbuf' = t
      /\ UNCHANGED <<kind, sock, tries, que, got, sent, broken, peer>>
  BY BlocksIs DEF RecvReads, Blocks, Receives
<1>2. net[Me] \in Seq(Number) /\ d \in Nat /\ DOMAIN net[Me] = 1 .. d
  BY <1>1, LenProperties DEF MessagesTyped
<1>3. r \in Seq(Number) /\ Len(r) = d - k /\ \A i \in 1 .. d - k : r[i] = net[Me][k + i]
  BY <1>1, <1>2, PartOf
<1>4. t \in Seq(Number) /\ Len(t) = k /\ \A i \in 1 .. k : t[i] = net[Me][i]
  BY <1>1, <1>2, FrontOf
<1>5. net'[Me] = r /\ \A c \in Conn \ {Me} : net'[c] = net[c]
  BY <1>1 DEF MessagesTyped
<1> HIDE DEF r, t
<1>6. Here' = Here /\ Me' = Me /\ Held' = Held /\ \A c : Ok(c)' = Ok(c)
  BY <1>1 DEF Here, Me, Held, Ok
<1>7. MessagesTyped'
  BY <1>1, <1>3, <1>4, <1>5 DEF MessagesTyped
<1>8. Numbered' /\ ClosedIsLast'
  <2>1. peer[Me] = "reset" => r = << >>
    <3>1. peer[Me] = "reset" => d = 0
      BY <1>1 DEF Numbered
    <3>2. d = 0 => Len(r) = 0
      BY <1>1, <1>2, <1>3
    <3> QED
      BY <1>3, <3>1, <3>2, EmptySeq
  <2>2. \A c \in Conn : c > tries => c # Me
    BY <1>1 DEF Numbered, Conn, MessagesTyped
  <2>3. Numbered'
    BY <1>1, <1>5, <1>6, <2>1, <2>2 DEF Numbered
  <2> QED
    BY <1>1, <1>6, <2>3 DEF ClosedIsLast
<1>9. \A c \in Conn : Ok(c)' => InOrder(c)'
  BY <1>1, <1>6, StillInOrder DEF StreamInv, MessagesTyped
<1>10. ASSUME NEW n \in Nat, FollowsOn(n)
       PROVE  FollowsOn(n)'
  <2>1. \A c : AllOf(c)' = AllOf(c)
    BY <1>1, BeforeUnchanged
  <2>2. /\ AllOf(Me) = 1 .. n /\ n <= sent[Me] /\ sent[Me] \in Nat
        /\ peer[Me] # "reset" => n + d = sent[Me] /\ \A i \in 1 .. d : net[Me][i] = n + i
    <3>1. Len(inbuf) = 0 /\ n + 0 = n /\ n + 0 + d = n + d
      BY <1>1, <1>2, <1>10
    <3>2. sent[Me] \in Nat
      BY <1>1 DEF MessagesTyped
    <3>3. AllOf(Me) = 1 .. n /\ n + Len(inbuf) <= sent[Me]
      BY <1>10 DEF FollowsOn
    <3>4. ASSUME peer[Me] # "reset"
          PROVE  n + Len(inbuf) + d = sent[Me] /\ \A i \in 1 .. d : net[Me][i] = n + Len(inbuf) + i
      BY <1>2, <1>10, <3>4 DEF FollowsOn
    <3> QED
      BY <3>1, <3>2, <3>3, <3>4
  <2>3. peer[Me] = "reset" => d = 0 /\ k = 0
    BY <1>1 DEF Numbered
  <2>4. n + k <= sent[Me]
    BY <1>1, <1>2, <1>10, <2>2, <2>3
  <2>5. DOMAIN t = 1 .. k
    BY <1>4, LenProperties
  <2>6. \A i \in 1 .. k : t[i] = n + i
    <3> TAKE i \in 1 .. k
    <3>1. i \in 1 .. d /\ peer[Me] # "reset"
      BY <1>1, <1>2, <2>3
    <3> QED
      BY <1>4, <2>2, <3>1
  <2>7. ASSUME peer[Me] # "reset"
        PROVE  /\ n + k + (d - k) = sent[Me]
               /\ \A i \in 1 .. d - k : r[i] = n + k + i
    <3>1. n + k + (d - k) = n + d
      <4>1. n \in Nat /\ d \in Nat /\ k \in Nat
        BY <1>2, <1>10
      <4> HIDE DEF d
      <4> QED
        BY <4>1
    <3>2. ASSUME NEW i \in 1 .. d - k
          PROVE  r[i] = n + k + i
      <4>1. k + i \in 1 .. d /\ n + (k + i) = n + k + i
        BY <1>2, <1>10
      <4> QED
        BY <1>3, <2>2, <2>7, <4>1
    <3> QED
      BY <2>2, <2>7, <3>1, <3>2
  <2>8. DOMAIN r = 1 .. d - k
    BY <1>3, LenProperties
  <2> HIDE DEF d
  <2>9. Len(inbuf') = k /\ DOMAIN inbuf' = 1 .. k /\ \A i \in 1 .. k : inbuf'[i] = n + i
    BY <1>1, <1>4, <2>5, <2>6
  <2>10. Len(net'[Me]) = d - k /\ DOMAIN net'[Me] = 1 .. d - k
    BY <1>3, <1>5, <2>8
  <2>11. peer[Me] # "reset" =>
           /\ n + k + (d - k) = sent[Me]
           /\ \A i \in 1 .. d - k : net'[Me][i] = n + k + i
    BY <1>5, <2>7
  <2>12. AllOf(Me)' = 1 .. n
    BY <1>6, <2>1, <2>2
  <2> QED
    BY <1>1, <1>6, <2>4, <2>9, <2>10, <2>11, <2>12 DEF FollowsOn
<1> QED
  BY <1>6, <1>7, <1>8, <1>9, <1>10 DEF StreamInv

LEMMA SameCount ==
  ASSUME NEW a \in Nat, NEW b \in Nat, 1 .. a = 1 .. b
  PROVE  a = b
<1>1. a >= 1 => a \in 1 .. b
  OBVIOUS
<1>2. b >= 1 => b \in 1 .. a
  OBVIOUS
<1> QED
  BY <1>1, <1>2

LEMMA PacketStream ==
  ASSUME StreamInv, RecvPacket
  PROVE  StreamInv'
<1> DEFINE g == got[Me]
           k == Len(g)
           h == Head(inbuf)
           t == Tail(inbuf)
           b == Len(inbuf)
           gh == Append(g, h)
<1>1. /\ MessagesTyped /\ Numbered /\ ClosedIsLast /\ Here /\ kind = "blocking" /\ Me \in Conn
      /\ DOMAIN que = {} /\ Len(que) = 0 /\ \A c : AllOf(c) = ToSet(got[c])
      /\ \A i \in DOMAIN g : g[i] # Closed
      /\ inbuf # << >> /\ inbuf' = t /\ got' = [got EXCEPT ![Me] = gh]
      /\ UNCHANGED <<kind, sock, tries, que, sent, net, broken, peer>>
  BY BlocksIs DEF RecvPacket, Blocks, peerVars
<1>2. g \in Seq(Nat) /\ k \in Nat /\ DOMAIN g = 1 .. k
  BY <1>1, LenProperties DEF MessagesTyped
<1>3. /\ h \in Number /\ t \in Seq(Number) /\ Len(t) = b - 1 /\ DOMAIN t = 1 .. b - 1
      /\ \A i \in 1 .. b - 1 : t[i] = inbuf[i + 1]
      /\ b \in Nat \ {0} /\ DOMAIN inbuf = 1 .. b /\ inbuf[1] = h
  <2>1. inbuf \in Seq(Number)
    BY <1>1 DEF MessagesTyped
  <2> QED
    BY <1>1, <2>1, HeadTailProperties, LenProperties, EmptySeq
<1>4. /\ gh \in Seq(Nat) /\ Len(gh) = k + 1 /\ DOMAIN gh = 1 .. k + 1
      /\ \A i \in 1 .. k : gh[i] = g[i]
      /\ gh[k + 1] = h
  <2>1. h \in Nat
    BY <1>3 DEF Number
  <2> QED
    BY <1>2, <2>1, AppendProperties, LenProperties
<1>5. got'[Me] = gh /\ \A c \in Conn \ {Me} : got'[c] = got[c]
  BY <1>1 DEF MessagesTyped
<1>6. Here' = Here /\ Me' = Me /\ Held' = Held /\ \A c : Ok(c)' = Ok(c)
  BY <1>1 DEF Here, Me, Held, Ok
<1> HIDE DEF g, k, h, t, b, gh
<1>7. MessagesTyped'
  BY <1>1, <1>3, <1>4, <1>5 DEF MessagesTyped
<1>8. Numbered'
  <2>1. \A c \in Conn : c > tries => c # Me
    BY <1>1 DEF Numbered, Conn, MessagesTyped
  <2> QED
    BY <1>1, <1>5, <1>6, <2>1 DEF Numbered
<1>9. \A i \in 1 .. k + 1 : gh[i] # Closed
  <2> TAKE i \in 1 .. k + 1
  <2>1. CASE i \in 1 .. k
    BY <1>1, <1>2, <1>4, <2>1
  <2>2. CASE i = k + 1
    BY <1>3, <1>4, <2>2 DEF Number, Closed
  <2> QED
    BY <1>2, <2>1, <2>2
<1>10. ClosedIsLast'
  <2>1. ASSUME NEW c \in Conn, NEW i \in DOMAIN got'[c], got'[c][i] = Closed
        PROVE  i = Len(got'[c]) /\ c \notin Held
    <3>1. c # Me
      BY <1>4, <1>5, <1>9, <2>1
    <3> QED
      BY <1>1, <1>5, <2>1, <3>1 DEF ClosedIsLast
  <2> QED
    BY <1>1, <1>6, <2>1 DEF ClosedIsLast
<1>11. \A c \in Conn : AllOf(c)' = ToSet(got'[c])
  BY <1>1 DEF AllOf, Before
<1>12. ASSUME NEW c \in Conn \ {Me}, InOrder(c)
       PROVE  InOrder(c)'
  BY <1>1, <1>5, <1>11, <1>12 DEF InOrder
<1>13. ASSUME Ok(Me)
       PROVE  /\ \A c \in {Me} : InOrder(c)'
              /\ \E n \in Nat : FollowsOn(n)'
  <2>1. PICK n \in Nat : FollowsOn(n)
    BY <1>1, <1>13 DEF StreamInv
  <2>2. InOrder(Me)
    BY <1>1, <1>13 DEF StreamInv
  <2>3. \A i \in 1 .. k : g[i] = i
    BY <1>1, <1>2, <2>2 DEF InOrder, g
  <2>4. ToSet(g) = 1 .. k
    BY <1>2, <2>3 DEF ToSet
  <2>5. AllOf(Me) = 1 .. n /\ n + b <= sent[Me] /\ \A i \in 1 .. b : inbuf[i] = n + i
    BY <1>3, <2>1 DEF FollowsOn, b
  <2>6. k = n
    <3>1. 1 .. k = 1 .. n
      BY <1>1, <2>4, <2>5 DEF g
    <3> QED
      BY <1>2, <2>1, <3>1, SameCount
  <2>7. h = k + 1
    BY <1>3, <2>5, <2>6
  <2>8. \A i \in 1 .. k + 1 : gh[i] = i
    <3> TAKE i \in 1 .. k + 1
    <3>1. i \in 1 .. k \/ i = k + 1
      BY <1>2
    <3> QED
      BY <1>4, <2>3, <2>7, <3>1
  <2>9. ToSet(gh) = 1 .. k + 1
    BY <1>4, <2>8 DEF ToSet
  <2>10. \A c \in {Me} : AllOf(c)' = 1 .. k + 1
    BY <1>1, <1>5, <1>11, <2>9
  <2>11. sent[Me] \in Nat /\ k + 1 <= sent[Me]
    <3>1. sent[Me] \in Nat
      BY <1>1 DEF MessagesTyped
    <3> QED
      BY <1>2, <1>3, <2>5, <2>6, <3>1
  <2>12. 1 .. k + 1 \subseteq 1 .. sent[Me]
    BY <1>2, <2>11
  <2>13. \A c \in {Me} : InOrder(c)'
    BY <1>1, <1>4, <1>5, <2>8, <2>10, <2>12 DEF InOrder
  <2>14. \A i \in 1 .. b - 1 : t[i] = n + 1 + i
    <3> TAKE i \in 1 .. b - 1
    <3>1. i + 1 \in 1 .. b /\ n + (i + 1) = n + 1 + i
      BY <1>3, <2>1
    <3> QED
      BY <1>3, <2>5, <3>1
  <2>15. n + 1 + (b - 1) = n + b
    BY <1>3, <2>1
  <2>16. peer[Me] # "reset" =>
           /\ n + b + Len(net[Me]) = sent[Me]
           /\ \A i \in DOMAIN net[Me] : net[Me][i] = n + b + i
    BY <2>1 DEF FollowsOn, b
  <2>17. FollowsOn(n + 1)'
    <3> DEFINE p == n + 1
    <3>1. p + (b - 1) = n + b
      BY <2>15
    <3>2. /\ \A c \in {Me} : AllOf(c)' = 1 .. p
          /\ \A i \in 1 .. b - 1 : t[i] = p + i
      BY <2>6, <2>10, <2>14
    <3> HIDE DEF p
    <3>3. FollowsOn(p)'
      <4>1. Len(inbuf') = b - 1 /\ DOMAIN inbuf' = 1 .. b - 1 /\ inbuf' = t
        BY <1>1, <1>3
      <4>2. AllOf(Me)' = 1 .. p
        BY <1>6, <3>2
      <4> QED
        BY <1>1, <1>6, <2>5, <2>16, <3>1, <3>2, <4>1, <4>2 DEF FollowsOn
    <3> QED
      BY <3>3 DEF p
  <2>18. n + 1 \in Nat
    BY <2>1
  <2> QED
    BY <2>13, <2>17, <2>18
<1> QED
  BY <1>6, <1>7, <1>8, <1>10, <1>12, <1>13 DEF StreamInv

(* After an invalid packet nothing is promised of its connection.          *)
LEMMA BadStream ==
  ASSUME StreamInv, RecvBad
  PROVE  StreamInv'
<1>1. /\ MessagesTyped /\ Numbered /\ ClosedIsLast /\ Here /\ kind = "blocking" /\ Me \in Conn
      /\ inbuf # << >> /\ Head(inbuf) \in broken[Me] /\ inbuf' = << >>
      /\ UNCHANGED <<kind, sock, tries, que, got, sent, net, peer>>
      /\ \/ broken' = [broken EXCEPT ![Me] = @ \cup {Head(net[Me])}] /\ net[Me] # << >>
         \/ UNCHANGED broken
  BY BlocksIs DEF RecvBad, Blocks
<1>2. net[Me] # << >> => Head(net[Me]) \in Nat
  <2>1. net[Me] \in Seq(Number)
    BY <1>1 DEF MessagesTyped
  <2> QED
    BY <2>1, HeadTailProperties DEF Number
<1>3. MessagesTyped'
  BY <1>1, <1>2, EmptySeq DEF MessagesTyped
<1>4. Here' = Here /\ Me' = Me /\ Held' = Held /\ ~Ok(Me)' /\ \A c \in Conn : Ok(c)' => Ok(c)
  <2>1. Here' = Here /\ Me' = Me /\ Held' = Held
    BY <1>1 DEF Here, Me, Held
  <2>2. Head(inbuf) \in broken'[Me] /\ \A c \in Conn : broken[c] \subseteq broken'[c]
    BY <1>1 DEF MessagesTyped
  <2>3. \A c \in Conn : Ok(c)' => Ok(c)
    BY <1>1, <2>2 DEF Ok
  <2>4. ~Ok(Me)'
    BY <1>1, <2>1, <2>2 DEF Ok
  <2> QED
    BY <2>1, <2>3, <2>4
<1>5. Numbered' /\ ClosedIsLast'
  BY <1>1, <1>4 DEF Numbered, ClosedIsLast
<1>6. \A c \in Conn : Ok(c)' => InOrder(c)'
  BY <1>1, <1>4, StillInOrder DEF StreamInv, MessagesTyped
<1> QED
  BY <1>3, <1>4, <1>5, <1>6 DEF StreamInv

LEMMA StreamInit == Init => StreamInv
<1> SUFFICES ASSUME Init PROVE StreamInv
  OBVIOUS
<1>1. /\ ~Here /\ Held = {} /\ tries = 0 /\ que = << >> /\ inbuf = << >>
      /\ DOMAIN que = {} /\ Len(que) = 0
      /\ \A c \in Conn : /\ got[c] = << >> /\ net[c] = << >> /\ sent[c] = 0 /\ peer[c] = "none"
                         /\ DOMAIN got[c] = {}
  BY DEF Init, Here, Held
<1>2. MessagesTyped
  <2>1. << >> \in Seq(Number) /\ << >> \in Seq(Nat) /\ << >> \in Seq(Conn \X Nat) /\ 0 \in 0 .. MaxConns
    BY EmptySeq, ConnectorConstants
  <2>2. broken \in [Conn -> SUBSET Nat]
    BY DEF Init, Packet
  <2> QED
    BY <2>1, <2>2 DEF Init, MessagesTyped
<1>3. Numbered /\ ClosedIsLast
  BY <1>1 DEF Numbered, ClosedIsLast
<1>4. \A c \in Conn : InOrder(c)
  <2> TAKE c \in Conn
  <2>1. AllOf(c) = {}
    BY <1>1 DEF AllOf, Before, ToSet
  <2> QED
    BY <1>1, <2>1 DEF InOrder
<1> QED
  BY <1>1, <1>2, <1>3, <1>4 DEF StreamInv

LEMMA IdleStream ==
  ASSUME StreamInv, Idle
  PROVE  StreamInv'
<1>1. CASE \E k \in 0 .. MaxIn, part \in BOOLEAN : \E w \in 0 .. MaxOut : IdleReads(k, part, w)
  <2>1. PICK k \in 0 .. MaxIn, part \in BOOLEAN, w \in 0 .. MaxOut : IdleReads(k, part, w)
    BY <1>1
  <2> DEFINE all == inbuf \o SubSeq(net[Me], 1, k)
  <2>2. /\ Idles /\ k \in Nat /\ k <= Len(net[Me])
        /\ net' = [net EXCEPT ![Me] = SubSeq(@, k + 1, Len(@))]
        /\ que' = que \o Messages(all) /\ inbuf' = << >>
        /\ UNCHANGED <<kind, sock, tries, got, sent, broken, peer>>
    BY <2>1, ConnectorConstants DEF IdleReads, Receives
  <2>3. inbuf \in Seq(Number) /\ net[Me] \in Seq(Number)
    BY <2>2 DEF StreamInv, MessagesTyped, Numbered, Idles
  <2>4. SubSeq(net[Me], 1, k) \in Seq(Number)
    BY <2>2, <2>3, FrontOf
  <2>5. all \in Seq(Number)
    BY <2>3, <2>4, ConcatProperties
  <2> HIDE DEF all
  <2>6. /\ SubSeq(all, 1, Len(all)) = all /\ SubSeq(all, Len(all) + 1, Len(all)) = << >>
        /\ Len(all) \in 0 .. Len(all)
    <3>1. Len(all) \in Nat /\ Len(all) + 1 \in Int /\ Len(all) \in Int /\ Len(all) < Len(all) + 1
      BY <2>5, LenProperties
    <3>2. SubSeq(all, Len(all) + 1, Len(all)) = << >>
      BY <3>1, SubSeqEmpty
    <3> QED
      BY <2>5, <3>1, <3>2, SubSeqFull
  <2>7. /\ all = inbuf \o SubSeq(net[Me], 1, k)
        /\ que' = que \o Messages(SubSeq(all, 1, Len(all)))
        /\ inbuf' = SubSeq(all, Len(all) + 1, Len(all))
    BY <2>2, <2>6 DEF all
  <2> QED
    BY <2>2, <2>6, <2>7, ExtractStream
<1>2. CASE \E k \in 0 .. MaxIn, part \in BOOLEAN : IdleRejects(k, part)
  <2>1. PICK k \in 0 .. MaxIn, part \in BOOLEAN : IdleRejects(k, part)
    BY <1>2
  <2> DEFINE all == inbuf \o SubSeq(net[Me], 1, k)
  <2>2. PICK i \in DOMAIN all :
          que' = que \o Messages(SubSeq(all, 1, i - 1)) /\ inbuf' = SubSeq(all, i, Len(all))
    BY <2>1 DEF IdleRejects
  <2>3. /\ Idles /\ k \in Nat /\ k <= Len(net[Me])
        /\ net' = [net EXCEPT ![Me] = SubSeq(@, k + 1, Len(@))]
        /\ UNCHANGED <<kind, sock, tries, got, sent, broken, peer>>
    BY <2>1, ConnectorConstants DEF IdleRejects, Receives
  <2>4. inbuf \in Seq(Number) /\ net[Me] \in Seq(Number)
    BY <2>3 DEF StreamInv, MessagesTyped, Numbered, Idles
  <2>5. SubSeq(net[Me], 1, k) \in Seq(Number)
    BY <2>3, <2>4, FrontOf
  <2>6. all \in Seq(Number)
    BY <2>4, <2>5, ConcatProperties
  <2> HIDE DEF all
  <2>7. i \in 1 .. Len(all) /\ Len(all) \in Nat
    BY <2>2, <2>6, LenProperties
  <2>8. i - 1 \in 0 .. Len(all) /\ (i - 1) + 1 = i
    BY <2>7
  <2>9. all = inbuf \o SubSeq(net[Me], 1, k) /\ inbuf' = SubSeq(all, (i - 1) + 1, Len(all))
    BY <2>2, <2>8 DEF all
  <2> QED
    BY <2>2, <2>3, <2>8, <2>9, ExtractStream
<1>3. CASE IdlePostsClosed
  BY <1>3, PostedStream
<1>4. CASE IdleThrows \/ IdleReset \/ \E w \in 1 .. MaxOut : IdleWrites(w)
  BY <1>4, StreamUnchanged DEF IdleThrows, IdleReset, IdleWrites, sockVars, peerVars, Here, Me, streamParts
<1> QED
  BY <1>1, <1>2, <1>3, <1>4 DEF Idle

LEMMA RecvStream ==
  ASSUME StreamInv, Recv
  PROVE  StreamInv'
<1>1. CASE \E k \in 0 .. MaxIn, part \in BOOLEAN : RecvReads(k, part)
  <2>1. \A k \in 0 .. MaxIn : k \in Nat
    BY ConnectorConstants
  <2> QED
    BY <1>1, <2>1, BufferStream
<1>2. CASE RecvPacket
  BY <1>2, PacketStream
<1>3. CASE RecvBad
  BY <1>3, BadStream
<1>4. CASE RecvFails
  BY <1>4, StreamUnchanged DEF RecvFails, peerVars, Here, Me, streamParts
<1> QED
  BY <1>1, <1>2, <1>3, <1>4 DEF Recv

LEMMA ProgramStream ==
  ASSUME LeftInv, StreamInv, Program
  PROVE  StreamInv'
<1>1. CASE ConnectFails
  BY <1>1, ConnectStream DEF ConnectFails, Attempts, Holds, peerVars
<1>2. CASE ConnectSucceeds
  <2>1. (kind = "async") \in BOOLEAN
    OBVIOUS
  <2> QED
    BY <1>2, <2>1, ConnectStream DEF ConnectSucceeds, Attempts, Holds, Reached
<1>3. CASE NonBlockingFails
  <2>1. sock' = NoSock \/ sock' = FreshSock(tries', FALSE)
    BY <1>3 DEF NonBlockingFails, Holds
  <2> QED
    BY <1>3, <2>1, ConnectStream DEF NonBlockingFails, Attempts, Holds, Reached
<1>4. CASE BuildUnconnected
  BY <1>4, StreamUnchanged DEF BuildUnconnected, sockVars, peerVars, Here, Me, streamParts
<1>5. CASE Close \/ Destroy
  BY <1>5, DroppedStream DEF Close, Destroy, Holds, peerVars
<1>6. CASE \E w \in 0 .. MaxOut : SendAsync(w)
  BY <1>6, StreamUnchanged DEF SendAsync, peerVars, Here, Me, streamParts
<1>7. CASE Quiet
  <2>1. Me' = Me /\ Here /\ sock' \in Sockets
    BY <1>7 DEF Quiet, LeftInv, Sockets, Me
  <2>2. Me # 0
    BY <2>1 DEF LeftInv
  <2>3. Here' = Here
    BY <2>1, <2>2, NoSockIs DEF Here, Me
  <2> QED
    BY <1>7, <2>1, <2>3, StreamUnchanged DEF Quiet, peerVars, streamParts
<1> QED
  BY <1>1, <1>2, <1>3, <1>4, <1>5, <1>6, <1>7 DEF Program

LEMMA StreamStep == LeftInv /\ StreamInv /\ [Next]_vars => StreamInv'
<1> SUFFICES ASSUME LeftInv, StreamInv, [Next]_vars PROVE StreamInv'
  OBVIOUS
<1>1. CASE UNCHANGED vars
  BY <1>1, StreamUnchanged DEF vars, sockVars, peerVars, Here, Me, streamParts
<1> QED
  BY <1>1, ServerStream, ProgramStream, IdleStream, GivenStream, RecvStream DEF Next

LEMMA Streams == Spec => [](LeftInv /\ StreamInv)
<1>1. Init => LeftInv
  BY NoSockIs DEF Init, LeftInv, OnlyKnownLeaks, Held, Here
<1> QED
  BY <1>1, LeftStep, StreamInit, StreamStep, PTL DEF Spec

(* A program that reads the queue, or calls recvPacket(), is given every   *)
(* connection's packets in the order they were sent, none left out and     *)
(* none twice, whatever the sizes of the reads and the buffer, however     *)
(* often it connects again and wherever a connection ends.                 *)
THEOREM PacketsInOrder == Spec => []StreamKept
<1>1. StreamInv => StreamKept
  <2> SUFFICES ASSUME StreamInv PROVE StreamKept
    OBVIOUS
  <2>1. \A c \in Conn : Ok(c) => InOrder(c)
    BY DEF StreamInv
  <2>2. ASSUME Here, peer[Me] # "reset", Ok(Me)
        PROVE  LET n == sent[Me] - Len(net[Me]) - Len(inbuf)
               IN /\ n \in 0 .. sent[Me] /\ AllOf(Me) = 1 .. n
                  /\ \A i \in DOMAIN inbuf : inbuf[i] = n + i
                  /\ \A i \in DOMAIN net[Me] : net[Me][i] = n + Len(inbuf) + i
    <3>1. PICK n \in Nat : FollowsOn(n)
      BY <2>2 DEF StreamInv
    <3> DEFINE b == Len(inbuf)
               d == Len(net[Me])
               s == sent[Me]
    <3>2. b \in Nat /\ d \in Nat /\ s \in Nat
      BY <2>2, LenProperties DEF StreamInv, MessagesTyped, Numbered
    <3>3. n + b + d = s
      BY <2>2, <3>1 DEF FollowsOn
    <3> HIDE DEF b, d, s
    <3>4. n = s - d - b /\ n \in 0 .. s
      BY <3>1, <3>2, <3>3
    <3>5. n = sent[Me] - Len(net[Me]) - Len(inbuf) /\ n \in 0 .. sent[Me]
      BY <3>4 DEF b, d, s
    <3> QED
      BY <2>2, <3>1, <3>5 DEF FollowsOn
  <2> QED
    BY <2>1, <2>2 DEF StreamKept, Ok, InOrder
<1> QED
  BY <1>1, Streams, PTL

(* Whichever of the packets, the end of the connection and the next        *)
(* connection the program hears of first, pcClosed closes the messages of  *)
(* its connection.                                                         *)
THEOREM ClosedEndsConnection == Spec => []ClosedIsLast
<1>1. StreamInv => ClosedIsLast
  BY DEF StreamInv
<1> QED
  BY <1>1, Streams, PTL
=============================================================================
