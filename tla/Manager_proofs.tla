---------------------------- MODULE Manager_proofs ---------------------------
(***************************************************************************)
(* Who deletes what in a SimpleManager that has not been destroyed, and in *)
(* what order a handler is given what its client sent, for any number of   *)
(* connections and packets.                                                *)
(***************************************************************************)
EXTENDS Manager, SequenceTheorems, TLAPS

Starting == {"start", "create", "assign", "post"}

(* What the other invariants read; the queues and the wires are left out.  *)
Types ==
  /\ mpc \in {"unstarted", "select", "ended"} \cup Starting
  /\ owned \subseteq Client /\ gone \in BOOLEAN
  /\ mpc \in Starting => acc \in owned
  /\ hpc \in [Client -> {"none", "loop", "ready", "pump", "delete", "null", "ended"}]
  /\ kpc \in [Client -> {"none", "delete", "null", "done"}]
  /\ thread \in [Client -> {"null", "set", "freed"}]
  /\ run \in [Client -> BOOLEAN]
  /\ listed \in [Client -> BOOLEAN]
  /\ raced \subseteq Client
  /\ sockFrees \in [Client -> Nat] /\ thrFrees \in [Client -> Nat]

(* A handler deletes the socket it lists once; a thread about to look at   *)
(* its socket still lists it.                                              *)
SocketInv(c) ==
  /\ sockFrees[c] = IF c \in owned /\ ~listed[c] THEN 1 ELSE 0
  /\ listed[c] => c \in owned
  /\ hpc[c] = "ready" => listed[c]
  /\ hpc[c] # "none" => c \in owned

SelfIn(c)  == hpc[c] \in {"delete", "null"}
OtherIn(c) == kpc[c] \in {"delete", "null"}
Unassigned(c) == c \notin owned \/ (acc = c /\ mpc \in {"start", "create", "assign"})

(* Where no two threads met in stop(), a thread object that is set has not *)
(* been deleted, whoever is about to delete it found it set, and it is set *)
(* once.                                                                   *)
ThreadInv(c) ==
  /\ Unassigned(c) => thread[c] = "null" /\ thrFrees[c] = 0 /\ ~SelfIn(c) /\ ~OtherIn(c)
  /\ c \notin raced =>
       /\ ~(SelfIn(c) /\ OtherIn(c))
       /\ thread[c] = "set" => thrFrees[c] = 0
       /\ thrFrees[c] <= 1
       /\ hpc[c] = "delete" \/ kpc[c] = "delete" => thread[c] = "set"
       /\ hpc[c] = "null" \/ kpc[c] = "null" => thread[c] = "freed"
       /\ thread[c] = "freed" => SelfIn(c) \/ OtherIn(c)

DeletionInv == Types /\ (~gone => \A c \in Client : SocketInv(c) /\ ThreadInv(c))

LEMMA InitDeletion == Init => DeletionInv
<1> SUFFICES ASSUME Init PROVE DeletionInv
  OBVIOUS
<1>1. Types
  BY DEF Init, Types, Starting
<1>2. ASSUME NEW c \in Client PROVE SocketInv(c)
  BY <1>2 DEF Init, SocketInv
<1>3. ASSUME NEW c \in Client PROVE ThreadInv(c)
  BY <1>3 DEF Init, ThreadInv, SelfIn, OtherIn, Unassigned
<1> QED
  BY <1>1, <1>2, <1>3 DEF DeletionInv

LEMMA TypesStep == DeletionInv /\ [Next]_vars => Types'
<1> SUFFICES ASSUME DeletionInv, [Next]_vars PROVE Types'
  OBVIOUS
<1> USE DEF DeletionInv, Types, Starting, managerVars, threadVars, clientVars
<1>1. CASE UNCHANGED vars
  BY <1>1 DEF vars
<1>2. CASE StartServer \/ ManagerEnds \/ StopManager
  BY <1>2 DEF StartServer, ManagerEnds, StopManager
<1>3. ASSUME NEW c \in Client, Accept(c) PROVE Types'
  BY <1>3 DEF Accept
<1>4. CASE SetRun \/ CreateThread \/ CreateFails \/ AssignThread \/ PostNew
  BY <1>4 DEF SetRun, CreateThread, CreateFails, AssignThread, PostNew
<1>5. CASE Destroy
  <2>1. sockFrees' \in [Client -> Nat]
    <3>1. \A c \in Client : sockFrees[c] + (IF listed[c] THEN 1 ELSE 0)
                                         + (IF c \in owned THEN 1 ELSE 0) \in Nat
      OBVIOUS
    <3> QED
      BY <1>5, <3>1, Zenon DEF Destroy
  <2>2. thrFrees' \in [Client -> Nat]
    <3>1. \A c \in Client : thrFrees[c] + 1 \in Nat /\ thrFrees[c] \in Nat
      OBVIOUS
    <3> QED
      BY <1>5, <3>1, Zenon DEF Destroy
  <2>3. run' \in [Client -> BOOLEAN] /\ listed' \in [Client -> BOOLEAN]
    BY <1>5, Zenon DEF Destroy
  <2>4. thread' \in [Client -> {"null", "set", "freed"}]
    BY <1>5 DEF Destroy
  <2> QED
    BY <1>5, <2>1, <2>2, <2>3, <2>4 DEF Destroy
<1>6. ASSUME NEW c \in Client, Connect(c) \/ Send(c) \/ Leave(c) PROVE Types'
  BY <1>6 DEF Connect, Send, Leave
<1>7. ASSUME NEW c \in Client, SelectReady(c) \/ ReadEnd(c) \/ Handle(c) \/ Pumped(c)
                                \/ HandlerEnds(c) PROVE Types'
  <2>1. CASE SelectReady(c)
    BY <2>1 DEF SelectReady
  <2>2. CASE Handle(c)
    BY <2>2 DEF Handle
  <2>3. CASE Pumped(c) \/ HandlerEnds(c)
    BY <2>3 DEF Pumped, HandlerEnds
  <2>4. CASE ReadEnd(c)
    <3>1. sockFrees' \in [Client -> Nat] /\ listed' \in [Client -> BOOLEAN]
      BY <2>4 DEF ReadEnd
    <3> QED
      BY <2>4, <3>1 DEF ReadEnd
  <2> QED
    BY <1>7, <2>1, <2>2, <2>3, <2>4
<1>8. ASSUME NEW c \in Client, NEW k \in 1 .. MaxPackets, ReadSocket(c, k) PROVE Types'
  BY <1>8 DEF ReadSocket
<1>9. ASSUME NEW c \in Client, KillSelf(c) \/ KillOther(c) PROVE Types'
  BY <1>9 DEF KillSelf, KillOther
<1>10. ASSUME NEW c \in Client, DeleteSelf(c) \/ NullSelf(c) PROVE Types'
  BY <1>10 DEF DeleteSelf, NullSelf, Deletes
<1>11. ASSUME NEW c \in Client, DeleteOther(c) \/ NullOther(c) PROVE Types'
  BY <1>11 DEF DeleteOther, NullOther, Deletes
<1> QED
  BY <1>1, <1>2, <1>3, <1>4, <1>5, <1>6, <1>7, <1>8, <1>9, <1>10, <1>11
    DEF Next, ManagerStep, HandlerStep

LEMMA DeletionStep == DeletionInv /\ [Next]_vars => DeletionInv'
<1> SUFFICES ASSUME DeletionInv, [Next]_vars PROVE DeletionInv'
  OBVIOUS
<1>1. Types /\ Types'
  BY TypesStep DEF DeletionInv
<1> SUFFICES ASSUME ~gone', NEW c \in Client PROVE SocketInv(c)' /\ ThreadInv(c)'
  BY <1>1 DEF DeletionInv
<1>2. CASE UNCHANGED vars
  BY <1>2 DEF DeletionInv, vars, managerVars, threadVars, SocketInv, ThreadInv, SelfIn,
    OtherIn, Unassigned
<1>3. ~Destroy
  BY DEF Destroy
<1> SUFFICES ASSUME Next PROVE SocketInv(c)' /\ ThreadInv(c)'
  BY <1>2
<1>4. ~gone
  BY <1>3 DEF Next, StartServer, ManagerStep, CreateFails, StopManager, Connect, Send, Leave,
    HandlerStep, KillSelf, KillOther, DeleteOther, NullOther, Accept, SetRun, CreateThread,
    AssignThread, PostNew, ManagerEnds, SelectReady, ReadSocket, ReadEnd, Handle, Pumped,
    HandlerEnds, DeleteSelf, NullSelf, managerVars
<1>5. SocketInv(c) /\ ThreadInv(c)
  BY <1>4 DEF DeletionInv
<1> USE <1>1, <1>5 DEF Types, SocketInv, ThreadInv, SelfIn, OtherIn, Unassigned, Starting,
    managerVars, threadVars, clientVars
<1>6. CASE StartServer \/ ManagerEnds \/ StopManager \/ CreateFails
  BY <1>6 DEF StartServer, ManagerEnds, StopManager, CreateFails
<1>7. ASSUME NEW d \in Client, Accept(d) PROVE SocketInv(c)' /\ ThreadInv(c)'
  BY <1>7 DEF Accept
<1>8. CASE SetRun
  BY <1>8 DEF SetRun
<1>9. CASE CreateThread
  BY <1>9 DEF CreateThread
<1>10. CASE AssignThread
  BY <1>10 DEF AssignThread
<1>11. CASE PostNew
  BY <1>11 DEF PostNew
<1>12. ASSUME NEW d \in Client, Connect(d) \/ Send(d) \/ Leave(d) \/ Handle(d)
       PROVE  SocketInv(c)' /\ ThreadInv(c)'
  BY <1>12 DEF Connect, Send, Leave, Handle
<1>13. ASSUME NEW d \in Client, SelectReady(d) \/ Pumped(d) \/ HandlerEnds(d)
       PROVE  SocketInv(c)' /\ ThreadInv(c)'
  BY <1>13 DEF SelectReady, Readable, Pumped, HandlerEnds
<1>14. ASSUME NEW d \in Client, NEW k \in 1 .. MaxPackets, ReadSocket(d, k)
       PROVE  SocketInv(c)' /\ ThreadInv(c)'
  BY <1>14 DEF ReadSocket
<1>15. ASSUME NEW d \in Client, ReadEnd(d) PROVE SocketInv(c)' /\ ThreadInv(c)'
  BY <1>15 DEF ReadEnd
<1>16. ASSUME NEW d \in Client, KillSelf(d) PROVE SocketInv(c)' /\ ThreadInv(c)'
  BY <1>16 DEF KillSelf, InStop
<1>17. ASSUME NEW d \in Client, KillOther(d) PROVE SocketInv(c)' /\ ThreadInv(c)'
  BY <1>17 DEF KillOther, InStop
<1>18. ASSUME NEW d \in Client, DeleteSelf(d) \/ NullSelf(d)
       PROVE  SocketInv(c)' /\ ThreadInv(c)'
  BY <1>18 DEF DeleteSelf, NullSelf, Deletes
<1>19. ASSUME NEW d \in Client, DeleteOther(d) \/ NullOther(d)
       PROVE  SocketInv(c)' /\ ThreadInv(c)'
  BY <1>19 DEF DeleteOther, NullOther, Deletes
<1> QED
  BY <1>3, <1>6, <1>7, <1>8, <1>9, <1>10, <1>11, <1>12, <1>13, <1>14, <1>15, <1>16, <1>17,
    <1>18, <1>19 DEF Next, ManagerStep, HandlerStep

(* Until the destructor runs, each socket is deleted once, by its handler, *)
(* although two lists hold it, and each thread object at most once unless  *)
(* two threads were in stop() of it at the same time.                      *)
THEOREM NothingDeletedTwice == Spec => []DeletedOnce
<1>1. DeletionInv => DeletedOnce
  BY DEF DeletionInv, DeletedOnce, SocketInv, ThreadInv, Types
<1> QED
  BY <1>1, InitDeletion, DeletionStep, PTL DEF Spec

-----------------------------------------------------------------------------
(* What InsertAt() of SequencesExt is, element by element.                 *)
LEMMA InsertAtProperties ==
  ASSUME NEW S, NEW s \in Seq(S), NEW e \in S, NEW p \in 1 .. Len(s) + 1
  PROVE  /\ InsertAt(s, p, e) \in Seq(S)
         /\ Len(InsertAt(s, p, e)) = Len(s) + 1
         /\ \A j \in 1 .. Len(s) + 1 :
              InsertAt(s, p, e)[j] = IF j < p THEN s[j] ELSE IF j = p THEN e ELSE s[j - 1]
<1> DEFINE a == SubSeq(s, 1, p - 1)
           b == SubSeq(s, p, Len(s))
<1>0. Len(s) \in Nat /\ \A i \in 1 .. Len(s) : s[i] \in S
  BY LenProperties, ElementOfSeq
<1>1. /\ a \in Seq(S) /\ Len(a) = p - 1 /\ \A i \in 1 .. p - 1 : a[i] = s[i]
  BY <1>0, SubSeqProperties
<1>2. /\ b \in Seq(S) /\ Len(b) = Len(s) - p + 1
      /\ \A i \in 1 .. Len(s) - p + 1 : b[i] = s[p + i - 1]
  BY <1>0, SubSeqProperties
<1> DEFINE one == <<e>>
           ae == a \o one
<1>3. one \in Seq(S) /\ Len(one) = 1 /\ one[1] = e
  OBVIOUS
<1> HIDE DEF a, b, one
<1>4. /\ ae \in Seq(S) /\ Len(ae) = p
      /\ \A i \in 1 .. p : ae[i] = IF i < p THEN s[i] ELSE e
  <2>1. /\ ae \in Seq(S) /\ Len(ae) = Len(a) + Len(one)
        /\ \A i \in 1 .. Len(a) + Len(one) :
             ae[i] = IF i <= Len(a) THEN a[i] ELSE one[i - Len(a)]
    BY <1>1, <1>3, ConcatProperties
  <2> HIDE DEF ae
  <2>2. Len(a) = p - 1 /\ p \in Nat \ {0} /\ Len(a) + Len(one) = p
    BY <1>0, <1>1, <1>3
  <2>3. \A i \in 1 .. p : ae[i] = IF i < p THEN s[i] ELSE e
    <3> SUFFICES ASSUME NEW i \in 1 .. p PROVE ae[i] = IF i < p THEN s[i] ELSE e
      OBVIOUS
    <3>1. CASE i < p
      <4>1. i <= Len(a) /\ i \in 1 .. Len(a) + Len(one) /\ i \in 1 .. p - 1
        BY <2>2, <3>1
      <4>2. ae[i] = a[i] /\ a[i] = s[i]
        BY <1>1, <2>1, <4>1
      <4> QED
        BY <3>1, <4>2
    <3>2. CASE i = p
      <4>1. ~(p <= Len(a)) /\ p - Len(a) = 1 /\ p \in 1 .. Len(a) + Len(one) /\ ~(p < p)
        BY <2>2
      <4>2. ae[p] = one[p - Len(a)]
        BY <2>1, <4>1
      <4> QED
        BY <1>3, <3>2, <4>1, <4>2
    <3> QED
      BY <2>2, <3>1, <3>2
  <2> QED
    BY <2>1, <2>2, <2>3
<1> HIDE DEF ae
<1>5. /\ ae \o b \in Seq(S) /\ Len(ae \o b) = Len(s) + 1
      /\ \A j \in 1 .. Len(s) + 1 : (ae \o b)[j] = IF j <= p THEN ae[j] ELSE b[j - p]
  <2>1. /\ ae \o b \in Seq(S) /\ Len(ae \o b) = Len(ae) + Len(b)
        /\ \A i \in 1 .. Len(ae) + Len(b) : (ae \o b)[i] = IF i <= Len(ae) THEN ae[i] ELSE b[i - Len(ae)]
    BY <1>2, <1>4, ConcatProperties
  <2> QED
    BY <1>0, <1>2, <1>4, <2>1
<1>6. ASSUME NEW j \in 1 .. Len(s) + 1
      PROVE  (ae \o b)[j] = IF j < p THEN s[j] ELSE IF j = p THEN e ELSE s[j - 1]
  <2>1. CASE j <= p
    BY <1>0, <1>4, <1>5, <2>1
  <2>2. CASE j > p
    <3>1. b[j - p] = s[p + (j - p) - 1] /\ p + (j - p) - 1 = j - 1
      BY <1>0, <1>2, <2>2
    <3> QED
      BY <1>0, <1>5, <2>2, <3>1
  <2>3. j <= p \/ j > p
    BY <1>0
  <2> QED
    BY <2>1, <2>2, <2>3
<1>7. InsertAt(s, p, e) = ae \o b
  BY DEF InsertAt, ae, a, b, one
<1> QED
  BY <1>5, <1>6, <1>7

LEMMA InsertAtEnd ==
  ASSUME NEW S, NEW s \in Seq(S), NEW e \in S
  PROVE  InsertAt(s, Len(s) + 1, e) = Append(s, e)
<1> DEFINE t == InsertAt(s, Len(s) + 1, e)
           u == Append(s, e)
<1>0. Len(s) \in Nat /\ Len(s) + 1 \in 1 .. Len(s) + 1
  BY LenProperties
<1>1. /\ t \in Seq(S) /\ Len(t) = Len(s) + 1
      /\ \A j \in 1 .. Len(s) + 1 : t[j] = IF j < Len(s) + 1 THEN s[j] ELSE e
  <2>1. /\ t \in Seq(S) /\ Len(t) = Len(s) + 1
        /\ \A j \in 1 .. Len(s) + 1 :
             t[j] = IF j < Len(s) + 1 THEN s[j] ELSE IF j = Len(s) + 1 THEN e ELSE s[j - 1]
    BY <1>0, InsertAtProperties
  <2> HIDE DEF t
  <2> QED
    BY <1>0, <2>1
<1>2. /\ u \in Seq(S) /\ Len(u) = Len(s) + 1 /\ u[Len(s) + 1] = e
      /\ \A j \in 1 .. Len(s) : u[j] = s[j]
  BY AppendProperties
<1> HIDE DEF t, u
<1>3. \A j \in 1 .. Len(t) : t[j] = u[j]
  BY <1>0, <1>1, <1>2
<1>4. t = u
  BY <1>1, <1>2, <1>3, SeqEqual
<1> QED
  BY <1>4 DEF t, u

LEMMA InsertAtConcat ==
  ASSUME NEW S, NEW s \in Seq(S), NEW t \in Seq(S), NEW e \in S, NEW p \in 1 .. Len(s) + 1
  PROVE  InsertAt(s \o t, p, e) = InsertAt(s, p, e) \o t
<1> DEFINE st == s \o t
           v  == InsertAt(st, p, e)
           i  == InsertAt(s, p, e)
           w  == i \o t
<1>0. Len(s) \in Nat /\ Len(t) \in Nat
  BY LenProperties
<1>1. /\ st \in Seq(S) /\ Len(st) = Len(s) + Len(t)
      /\ \A j \in 1 .. Len(s) + Len(t) : st[j] = IF j <= Len(s) THEN s[j] ELSE t[j - Len(s)]
  BY ConcatProperties
<1>2. /\ i \in Seq(S) /\ Len(i) = Len(s) + 1
      /\ \A j \in 1 .. Len(s) + 1 : i[j] = IF j < p THEN s[j] ELSE IF j = p THEN e ELSE s[j - 1]
  BY InsertAtProperties
<1>3. p \in 1 .. Len(st) + 1
  BY <1>0, <1>1
<1> HIDE DEF st, i, v, w
<1>4. /\ v \in Seq(S) /\ Len(v) = Len(st) + 1
      /\ \A j \in 1 .. Len(st) + 1 : v[j] = IF j < p THEN st[j] ELSE IF j = p THEN e ELSE st[j - 1]
  <2>1. st \in Seq(S)
    BY <1>1
  <2>2. /\ InsertAt(st, p, e) \in Seq(S) /\ Len(InsertAt(st, p, e)) = Len(st) + 1
        /\ \A j \in 1 .. Len(st) + 1 :
             InsertAt(st, p, e)[j] = IF j < p THEN st[j] ELSE IF j = p THEN e ELSE st[j - 1]
    BY <1>3, <2>1, InsertAtProperties
  <2> QED
    BY <2>2 DEF v
<1>5. /\ w \in Seq(S) /\ Len(w) = Len(i) + Len(t)
      /\ \A j \in 1 .. Len(i) + Len(t) : w[j] = IF j <= Len(i) THEN i[j] ELSE t[j - Len(i)]
  BY <1>2, ConcatProperties DEF w
<1>6. ASSUME NEW j \in 1 .. Len(v) PROVE v[j] = w[j]
  <2>0. j \in 1 .. Len(s) + Len(t) + 1
    BY <1>0, <1>1, <1>4
  <2>1. CASE j < p
    <3>1. v[j] = st[j] /\ st[j] = s[j]
      BY <1>0, <1>1, <1>4, <2>0, <2>1
    <3>2. w[j] = i[j] /\ i[j] = s[j]
      BY <1>0, <1>2, <1>5, <2>0, <2>1
    <3> QED
      BY <3>1, <3>2
  <2>2. CASE j = p
    BY <1>0, <1>1, <1>2, <1>4, <1>5, <2>0, <2>2
  <2>3. CASE j > p /\ j <= Len(s) + 1
    <3>1. v[j] = st[j - 1] /\ st[j - 1] = s[j - 1]
      BY <1>0, <1>1, <1>4, <2>0, <2>3
    <3>2. w[j] = i[j] /\ i[j] = s[j - 1]
      BY <1>0, <1>2, <1>5, <2>0, <2>3
    <3> QED
      BY <3>1, <3>2
  <2>4. CASE j > Len(s) + 1
    <3>0. j - 1 \in 1 .. Len(s) + Len(t) /\ ~(j - 1 <= Len(s)) /\ j # p /\ ~(j < p)
      BY <1>0, <2>0, <2>4
    <3>1. v[j] = st[j - 1] /\ st[j - 1] = t[(j - 1) - Len(s)]
      BY <1>0, <1>1, <1>4, <2>0, <3>0
    <3>2. w[j] = t[j - (Len(s) + 1)]
      BY <1>0, <1>2, <1>5, <2>0, <2>4
    <3>3. (j - 1) - Len(s) = j - (Len(s) + 1)
      BY <1>0
    <3> QED
      BY <3>1, <3>2, <3>3
  <2> QED
    BY <1>0, <2>0, <2>1, <2>2, <2>3, <2>4
<1>7. Len(v) = Len(w)
  BY <1>0, <1>1, <1>2, <1>4, <1>5
<1>8. v = w
  BY <1>4, <1>5, <1>6, <1>7, SeqEqual
<1> QED
  BY <1>8 DEF v, w, st, i

-----------------------------------------------------------------------------
(* What the order of messages reads: a wire holds packets that were sent,  *)
(* and the manager accepts one connection at a time.                       *)
Word == Seq(0 .. New)

FlowTypes ==
  /\ que \in [Client -> Word] /\ handled \in [Client -> Word]
  /\ wire \in [Client -> Seq(Packet)] /\ sent \in [Client -> 0 .. MaxPackets]
  /\ \A c \in Client : Len(wire[c]) <= sent[c]
  /\ peer \in [Client -> {"none", "up", "left"}]
  /\ mpc \notin Starting => acc = None

(* HandlerOrder, for one handler.                                          *)
Ordered(c) ==
  /\ wire[c] = [i \in 1 .. Len(wire[c]) |-> Read(c) + i]
  /\ Ended(c) => wire[c] = << >>
  /\ IF Posted(c)
       THEN \E p \in 1 .. Len(Due(c)) + 1 : Given(c) = InsertAt(Due(c), p, New)
       ELSE Given(c) = Due(c)

(* Only the end of a connection takes a client off its handler's list.     *)
Departed(c) == Ended(c) => peer[c] = "left"

OrderInv ==
  DeletionInv /\ FlowTypes /\ (~gone => \A c \in Client : Ordered(c) /\ Departed(c))

LEMMA WordElements == Closed \in 0 .. New /\ New \in 0 .. New /\ Packet \subseteq 0 .. New /\ New \in Nat
BY ManagerConstants DEF Closed, New, Packet

LEMMA WordAssociative == \A s, t, u \in Word : s \o (t \o u) = (s \o t) \o u
<1> TAKE s, t, u \in Word
<1> DEFINE S == 0 .. New
<1>1. s \in Seq(S) /\ t \in Seq(S) /\ u \in Seq(S)
  BY DEF Word
<1> HIDE DEF S
<1> QED
  BY <1>1, ConcatAssociative

LEMMA InitOrder == Init => OrderInv
<1> SUFFICES ASSUME Init PROVE FlowTypes /\ \A c \in Client : Ordered(c) /\ Departed(c)
  BY InitDeletion DEF OrderInv
<1>0. /\ << >> \in Word /\ << >> \in Seq(Packet) /\ Len(<< >>) = 0
      /\ 0 \in 0 .. MaxPackets
  BY EmptySeq, ManagerConstants DEF Word
<1>1. /\ que \in [Client -> Word] /\ handled \in [Client -> Word]
      /\ wire \in [Client -> Seq(Packet)] /\ sent \in [Client -> 0 .. MaxPackets]
      /\ peer \in [Client -> {"none", "up", "left"}]
      /\ mpc \notin Starting => acc = None
  BY <1>0 DEF Init
<1>2. ASSUME NEW c \in Client
      PROVE  /\ wire[c] = << >> /\ sent[c] = 0 /\ handled[c] = << >> /\ que[c] = << >>
             /\ ~Ended(c) /\ ~Posted(c)
  BY DEF Init, Ended, Posted
<1>3. FlowTypes
  BY <1>0, <1>1, <1>2 DEF FlowTypes
<1>4. ASSUME NEW c \in Client PROVE Ordered(c) /\ Departed(c)
  <2>1. Read(c) = 0
    BY <1>0, <1>2 DEF Read
  <2>2. Due(c) = << >>
    BY <1>2, <2>1 DEF Due
  <2>3. Given(c) = << >>
    BY <1>2 DEF Given
  <2>4. wire[c] = [i \in 1 .. Len(wire[c]) |-> Read(c) + i]
    BY <1>0, <1>2
  <2> QED
    BY <1>2, <2>2, <2>3, <2>4 DEF Ordered, Departed
<1> QED
  BY <1>3, <1>4

LEMMA FlowTypesStep == DeletionInv /\ FlowTypes /\ [Next]_vars => FlowTypes'
<1> SUFFICES ASSUME DeletionInv, FlowTypes, [Next]_vars PROVE FlowTypes'
  OBVIOUS
<1>0. /\ que \in [Client -> Word] /\ handled \in [Client -> Word]
      /\ wire \in [Client -> Seq(Packet)] /\ sent \in [Client -> 0 .. MaxPackets]
      /\ \A c \in Client : Len(wire[c]) <= sent[c] /\ Len(wire[c]) \in Nat
      /\ \A c \in Client : que[c] \in Word /\ handled[c] \in Word /\ wire[c] \in Seq(Packet)
      /\ peer \in [Client -> {"none", "up", "left"}]
      /\ mpc \notin Starting => acc = None
      /\ << >> \in Word
  <2>1. \A c \in Client : wire[c] \in Seq(Packet)
    BY DEF FlowTypes
  <2>2. \A c \in Client : Len(wire[c]) \in Nat
    BY <2>1, LenProperties
  <2> QED
    BY <2>1, <2>2, EmptySeq DEF FlowTypes, Word
<1>1. mpc \in Starting => acc \in Client
  BY DEF DeletionInv, Types
<1> USE DEF managerVars, threadVars, clientVars
(* A step that leaves the queues, the wires and the counts.                *)
<1>2. ASSUME UNCHANGED <<que, handled, wire, sent>>, peer' \in [Client -> {"none", "up", "left"}],
             mpc' \notin Starting => acc' = None
      PROVE FlowTypes'
  BY <1>2, <1>0 DEF FlowTypes
<1>3. ASSUME UNCHANGED vars PROVE FlowTypes'
  BY <1>0, <1>2, <1>3 DEF vars
<1>4. ASSUME StartServer \/ ManagerEnds \/ StopManager PROVE FlowTypes'
  BY <1>0, <1>2, <1>4 DEF StartServer, ManagerEnds, StopManager, Starting
<1>5. ASSUME NEW c \in Client, Accept(c) PROVE FlowTypes'
  BY <1>0, <1>2, <1>5 DEF Accept, Starting
<1>6. ASSUME SetRun \/ CreateThread \/ CreateFails \/ AssignThread PROVE FlowTypes'
  BY <1>0, <1>2, <1>6 DEF SetRun, CreateThread, CreateFails, AssignThread, Starting
<1>7. ASSUME PostNew PROVE FlowTypes'
  <2>1. acc \in Client
    BY <1>1, <1>7 DEF PostNew, Starting
  <2>2. Append(que[acc], New) \in Word
    BY <1>0, <2>1, WordElements, AppendProperties DEF Word
  <2> QED
    BY <1>0, <1>7, <2>2 DEF PostNew, FlowTypes
<1>8. ASSUME Destroy PROVE FlowTypes'
  <2>1. que' \in [Client -> Word]
    BY <1>0, <1>8 DEF Destroy
  <2> QED
    BY <1>0, <1>8, <2>1 DEF Destroy, FlowTypes
<1>9. ASSUME NEW c \in Client, Connect(c) \/ Leave(c) PROVE FlowTypes'
  BY <1>0, <1>2, <1>9 DEF Connect, Leave
<1>10. ASSUME NEW c \in Client, Send(c) PROVE FlowTypes'
  <2>1. sent[c] + 1 \in 0 .. MaxPackets /\ sent[c] + 1 \in Packet
    BY <1>0, <1>10, ManagerConstants DEF Send, Packet
  <2>2. sent' = [sent EXCEPT ![c] = sent[c] + 1] /\ wire' = [wire EXCEPT ![c] = Append(wire[c], sent[c] + 1)]
    BY <1>0, <1>10 DEF Send
  <2>3. Append(wire[c], sent[c] + 1) \in Seq(Packet) /\ Len(Append(wire[c], sent[c] + 1)) = Len(wire[c]) + 1
    BY <1>0, <2>1, AppendProperties
  <2>4. \A d \in Client : Len(wire'[d]) <= sent'[d]
    BY <1>0, <2>2, <2>3
  <2>5. sent' \in [Client -> 0 .. MaxPackets] /\ wire' \in [Client -> Seq(Packet)]
    BY <1>0, <2>1, <2>2, <2>3
  <2> QED
    BY <1>0, <1>10, <2>4, <2>5 DEF Send, FlowTypes
<1>11. ASSUME NEW c \in Client, SelectReady(c) \/ Pumped(c) \/ HandlerEnds(c) PROVE FlowTypes'
  BY <1>0, <1>2, <1>11 DEF SelectReady, Pumped, HandlerEnds
<1>12. ASSUME NEW c \in Client, NEW k \in 1 .. MaxPackets, ReadSocket(c, k) PROVE FlowTypes'
  <2> DEFINE a == SubSeq(wire[c], 1, k)
             b == SubSeq(wire[c], k + 1, Len(wire[c]))
  <2>1. k \in 1 .. Len(wire[c]) /\ k \in Nat
    BY <1>12 DEF ReadSocket
  <2>2. a \in Seq(Packet) /\ b \in Seq(Packet) /\ Len(b) = Len(wire[c]) - k
    <3>1. \A i \in 1 .. Len(wire[c]) : wire[c][i] \in Packet
      BY <1>0, ElementOfSeq
    <3> QED
      BY <1>0, <2>1, <3>1, SubSeqProperties
  <2>3. que' = [que EXCEPT ![c] = que[c] \o a] /\ wire' = [wire EXCEPT ![c] = b]
    BY <1>12 DEF ReadSocket
  <2> HIDE DEF a, b
  <2>4. que[c] \o a \in Word
    <3>1. a \in Seq(0 .. New)
      BY <2>2, WordElements, SeqMonotonic
    <3> QED
      BY <1>0, <3>1, ConcatProperties DEF Word
  <2>5. \A d \in Client : Len(wire'[d]) <= sent[d]
    BY <1>0, <2>1, <2>2, <2>3
  <2>6. que' \in [Client -> Word] /\ wire' \in [Client -> Seq(Packet)]
    BY <1>0, <2>2, <2>3, <2>4
  <2> QED
    BY <1>0, <1>12, <2>5, <2>6 DEF ReadSocket, FlowTypes
<1>13. ASSUME NEW c \in Client, ReadEnd(c) PROVE FlowTypes'
  <2>1. Append(que[c], Closed) \in Word
    BY <1>0, WordElements, AppendProperties DEF Word
  <2> QED
    BY <1>0, <1>13, <2>1 DEF ReadEnd, FlowTypes
<1>14. ASSUME NEW c \in Client, Handle(c) PROVE FlowTypes'
  <2>1. Head(que[c]) \in 0 .. New /\ Tail(que[c]) \in Word
    BY <1>0, <1>14, HeadTailProperties DEF Handle, Word
  <2>2. Append(handled[c], Head(que[c])) \in Word
    BY <1>0, <2>1, AppendProperties DEF Word
  <2> QED
    BY <1>0, <1>14, <2>1, <2>2 DEF Handle, FlowTypes
<1>15. ASSUME NEW c \in Client, KillSelf(c) \/ KillOther(c) PROVE FlowTypes'
  BY <1>0, <1>2, <1>15 DEF KillSelf, KillOther
<1>16. ASSUME NEW c \in Client, DeleteSelf(c) \/ NullSelf(c) \/ DeleteOther(c) \/ NullOther(c)
       PROVE  FlowTypes'
  BY <1>0, <1>2, <1>16 DEF DeleteSelf, NullSelf, DeleteOther, NullOther
<1> QED
  BY <1>3, <1>4, <1>5, <1>6, <1>7, <1>8, <1>9, <1>10, <1>11, <1>12, <1>13, <1>14, <1>15, <1>16
    DEF Next, ManagerStep, HandlerStep

LEMMA FunctionIsSeq ==
  ASSUME NEW S, NEW n \in Nat, NEW f \in [1 .. n -> S]
  PROVE  f \in Seq(S) /\ Len(f) = n
<1>1. f \in Seq(S)
  BY SeqDef
<1>2. DOMAIN f = 1 .. Len(f) /\ Len(f) \in Nat
  BY <1>1, LenProperties
<1> QED
  BY <1>1, <1>2

LEMMA DueProperties ==
  ASSUME FlowTypes, NEW c \in Client
  PROVE  /\ Read(c) \in 0 .. MaxPackets
         /\ Due(c) \in Word
         /\ Len(Due(c)) = Read(c) + (IF Ended(c) THEN 1 ELSE 0)
         /\ \A i \in 1 .. Len(Due(c)) : Due(c)[i] = IF i <= Read(c) THEN i ELSE Closed
<1>1. wire[c] \in Seq(Packet) /\ sent[c] \in 0 .. MaxPackets /\ Len(wire[c]) <= sent[c]
  BY DEF FlowTypes
<1>2. Read(c) \in 0 .. MaxPackets
  BY <1>1, LenProperties, ManagerConstants DEF Read
<1> DEFINE n == Read(c) + (IF Ended(c) THEN 1 ELSE 0)
<1>3. n \in Nat
  BY <1>2, ManagerConstants
<1>4. Due(c) = [i \in 1 .. n |-> IF i <= Read(c) THEN i ELSE Closed]
  BY DEF Due
<1> HIDE DEF n
<1>5. \A i \in 1 .. n : (IF i <= Read(c) THEN i ELSE Closed) \in 0 .. New
  BY <1>2, <1>3, ManagerConstants DEF New, Closed
<1>6. Due(c) \in [1 .. n -> 0 .. New]
  BY <1>4, <1>5
<1>7. Due(c) \in Word /\ Len(Due(c)) = n
  BY <1>3, <1>6, FunctionIsSeq DEF Word
<1>8. \A i \in 1 .. n : Due(c)[i] = IF i <= Read(c) THEN i ELSE Closed
  BY <1>4
<1> QED
  BY <1>2, <1>7, <1>8 DEF n

(* A step after which what a handler is given, and what it is due, are     *)
(* longer by the same messages.                                            *)
LEMMA BothGrow ==
  ASSUME FlowTypes, FlowTypes', NEW c \in Client, Ordered(c), NEW x \in Word,
         Given(c)' = Given(c) \o x, Due(c)' = Due(c) \o x, Posted(c)' <=> Posted(c),
         wire'[c] = [i \in 1 .. Len(wire'[c]) |-> Read(c)' + i],
         Ended(c)' => wire'[c] = << >>
  PROVE  Ordered(c)'
<1>0. New \in 0 .. New
  BY WordElements
<1>1. Due(c) \in Word /\ Len(Due(c)) \in Nat /\ Len(x) \in Nat
  BY DueProperties, LenProperties DEF Word
<1>2. Len(Due(c) \o x) = Len(Due(c)) + Len(x)
  BY <1>1, ConcatProperties DEF Word
<1>3. ASSUME Posted(c)
      PROVE  \E p \in 1 .. Len(Due(c)') + 1 : Given(c)' = InsertAt(Due(c)', p, New)
  <2>1. PICK p \in 1 .. Len(Due(c)) + 1 : Given(c) = InsertAt(Due(c), p, New)
    BY <1>3 DEF Ordered
  <2>2. InsertAt(Due(c) \o x, p, New) = InsertAt(Due(c), p, New) \o x
    BY <1>0, <1>1, InsertAtConcat DEF Word
  <2>3. p \in 1 .. Len(Due(c) \o x) + 1
    BY <1>1, <1>2
  <2> QED
    BY <2>1, <2>2, <2>3
<1>4. ASSUME ~Posted(c) PROVE Given(c)' = Due(c)'
  BY <1>4 DEF Ordered
<1> QED
  BY <1>3, <1>4 DEF Ordered

(* A step that changes none of this.                                       *)
LEMMA OrderedFrame ==
  ASSUME NEW c \in Client, Ordered(c), Departed(c),
         wire'[c] = wire[c], sent'[c] = sent[c], handled'[c] = handled[c], que'[c] = que[c],
         Ended(c)' <=> Ended(c), Posted(c)' <=> Posted(c),
         peer[c] = "left" => peer'[c] = "left"
  PROVE  Ordered(c)' /\ Departed(c)'
<1>1. Read(c)' = Read(c) /\ Given(c)' = Given(c)
  BY DEF Read, Given
<1>2. Due(c)' = Due(c)
  BY <1>1 DEF Due
<1> QED
  BY <1>1, <1>2 DEF Ordered, Departed

LEMMA SendOrder ==
  ASSUME OrderInv, ~gone, NEW c \in Client, Send(c) PROVE Ordered(c)' /\ Departed(c)'
<1>0. /\ wire \in [Client -> Seq(Packet)] /\ wire[c] \in Seq(Packet) /\ Len(wire[c]) \in Nat
      /\ sent \in [Client -> 0 .. MaxPackets] /\ sent[c] \in 0 .. MaxPackets
      /\ Ordered(c) /\ Departed(c) /\ Read(c) \in Nat
  BY LenProperties, DueProperties DEF OrderInv, FlowTypes
<1>1. peer[c] = "up" /\ ~Ended(c)
  BY <1>0 DEF Send, Departed
<1> DEFINE w == Append(wire[c], sent[c] + 1)
<1>2. /\ wire'[c] = w /\ sent'[c] = sent[c] + 1 /\ sent[c] + 1 \in Packet
      /\ UNCHANGED <<handled, que, peer, listed, owned, acc>>
  BY <1>0, ManagerConstants DEF Send, managerVars, Packet
<1>3. /\ w \in Seq(Packet) /\ Len(w) = Len(wire[c]) + 1
      /\ \A i \in 1 .. Len(wire[c]) : w[i] = wire[c][i]
      /\ w[Len(wire[c]) + 1] = sent[c] + 1
  BY <1>0, <1>2, AppendProperties
<1> HIDE DEF w
<1>4. Read(c)' = Read(c) /\ sent[c] = Read(c) + Len(wire[c])
  BY <1>0, <1>2, <1>3 DEF Read
<1>5. Given(c)' = Given(c) /\ (Ended(c)' <=> Ended(c)) /\ (Posted(c)' <=> Posted(c))
  BY <1>2 DEF Given, Ended, Posted
<1>6. Due(c)' = Due(c)
  BY <1>4, <1>5 DEF Due
<1>7. wire'[c] = [i \in 1 .. Len(wire'[c]) |-> Read(c)' + i]
  <2>1. \A i \in 1 .. Len(wire[c]) : wire[c][i] = Read(c) + i
    BY <1>0 DEF Ordered
  <2>2. \A i \in 1 .. Len(w) : w[i] = Read(c) + i
    BY <1>0, <1>3, <1>4, <2>1
  <2>3. w \in [1 .. Len(w) -> Packet]
    BY <1>3, LenProperties
  <2>4. w = [i \in 1 .. Len(w) |-> Read(c) + i]
    BY <2>2, <2>3
  <2> QED
    BY <1>2, <1>4, <2>4
<1> QED
  BY <1>0, <1>1, <1>2, <1>5, <1>6, <1>7 DEF Ordered, Departed

LEMMA ReadOrder ==
  ASSUME OrderInv, FlowTypes', ~gone, NEW c \in Client, NEW k \in 1 .. MaxPackets, ReadSocket(c, k)
  PROVE  Ordered(c)' /\ Departed(c)'
<1> DEFINE a == SubSeq(wire[c], 1, k)
           b == SubSeq(wire[c], k + 1, Len(wire[c]))
<1>0. /\ FlowTypes /\ wire \in [Client -> Seq(Packet)] /\ wire[c] \in Seq(Packet)
      /\ Len(wire[c]) \in Nat /\ sent[c] \in 0 .. MaxPackets /\ sent[c] \in Nat
      /\ que \in [Client -> Word] /\ que[c] \in Word /\ handled[c] \in Word
      /\ Ordered(c) /\ Departed(c) /\ Read(c) \in Nat
  BY LenProperties, DueProperties, ManagerConstants DEF OrderInv, FlowTypes
<1>1. k \in 1 .. Len(wire[c]) /\ k \in Nat
  BY DEF ReadSocket
<1>2. ~Ended(c)
  BY DEF ReadSocket, OrderInv, DeletionInv, SocketInv, Ended
<1>3. /\ wire'[c] = b /\ que'[c] = que[c] \o a
      /\ UNCHANGED <<handled, sent, peer, listed, owned, acc>>
  BY <1>0 DEF ReadSocket, managerVars
<1>4. /\ a \in Seq(Packet) /\ Len(a) = k /\ \A i \in 1 .. k : a[i] = wire[c][i]
      /\ b \in Seq(Packet) /\ Len(b) = Len(wire[c]) - k
      /\ \A i \in 1 .. Len(wire[c]) - k : b[i] = wire[c][k + i]
  <2>1. \A i \in 1 .. Len(wire[c]) : wire[c][i] \in Packet
    BY <1>0, ElementOfSeq
  <2>2. a \in Seq(Packet) /\ Len(a) = k /\ \A i \in 1 .. k : a[i] = wire[c][i]
    BY <1>0, <1>1, <2>1, SubSeqProperties
  <2>3. /\ b \in Seq(Packet) /\ Len(b) = Len(wire[c]) - k
        /\ \A i \in 1 .. Len(wire[c]) - k : b[i] = wire[c][k + i]
    BY <1>0, <1>1, <2>1, SubSeqProperties
  <2> QED
    BY <2>2, <2>3
<1> HIDE DEF a, b
<1>5. a \in Word
  BY <1>4, WordElements, SeqMonotonic DEF Word
<1>6. (Ended(c)' <=> Ended(c)) /\ (Posted(c)' <=> Posted(c)) /\ Departed(c)'
  BY <1>0, <1>3 DEF Ended, Posted, Departed
<1>7. Given(c)' = Given(c) \o a
  <2>1. handled[c] \o (que[c] \o a) = (handled[c] \o que[c]) \o a
    BY <1>0, <1>5, WordAssociative
  <2> QED
    BY <1>3, <2>1 DEF Given
<1>8. Read(c)' = Read(c) + k
  BY <1>0, <1>1, <1>3, <1>4 DEF Read
<1>9. \A i \in 1 .. Len(wire[c]) : wire[c][i] = Read(c) + i
  BY <1>0 DEF Ordered
<1>10. Due(c)' = Due(c) \o a
  <2> DEFINE u == Due(c) \o a
             r == Read(c)
  <2>1. /\ Due(c) \in Word /\ Len(Due(c)) = r
        /\ \A i \in 1 .. r : Due(c)[i] = IF i <= r THEN i ELSE Closed
    BY <1>0, <1>2, DueProperties
  <2>2. /\ u \in Word /\ Len(u) = Len(Due(c)) + Len(a)
        /\ \A i \in 1 .. Len(Due(c)) + Len(a) :
             u[i] = IF i <= Len(Due(c)) THEN Due(c)[i] ELSE a[i - Len(Due(c))]
    BY <1>5, <2>1, ConcatProperties DEF Word
  <2> HIDE DEF u, r
  <2>3. r \in Nat
    BY <1>0 DEF r
  <2>4. ASSUME NEW i \in 1 .. r + k PROVE u[i] = IF i <= r + k THEN i ELSE Closed
    <3>1. CASE i <= r
      BY <1>1, <1>4, <2>1, <2>2, <2>3, <3>1
    <3>2. CASE i > r
      <4>1. i - r \in 1 .. k /\ i - r \in 1 .. Len(wire[c])
        BY <1>0, <1>1, <2>3, <3>2
      <4>2. a[i - r] = wire[c][i - r] /\ wire[c][i - r] = r + (i - r)
        BY <1>4, <1>9, <4>1 DEF r
      <4>3. u[i] = a[i - r]
        BY <1>1, <1>4, <2>1, <2>2, <2>3, <3>2
      <4> QED
        BY <1>1, <2>3, <4>2, <4>3
    <3> QED
      BY <1>1, <2>3, <3>1, <3>2
  <2>5. u \in [1 .. Len(u) -> 0 .. New] /\ Len(u) = r + k
    BY <1>4, <2>1, <2>2, LenProperties DEF Word
  <2>6. u = [i \in 1 .. r + k |-> IF i <= r + k THEN i ELSE Closed]
    BY <2>4, <2>5
  <2>7. Due(c)' = [i \in 1 .. (r + k) + 0 |-> IF i <= r + k THEN i ELSE Closed]
    BY <1>2, <1>6, <1>8 DEF Due, r
  <2>8. (r + k) + 0 = r + k
    BY <1>1, <2>3
  <2> QED
    BY <2>6, <2>7, <2>8 DEF u
<1>11. wire'[c] = [i \in 1 .. Len(wire'[c]) |-> Read(c)' + i]
  <2>1. ASSUME NEW i \in 1 .. Len(b) PROVE b[i] = (Read(c) + k) + i
    <3>1. k + i \in 1 .. Len(wire[c]) /\ b[i] = wire[c][k + i]
      BY <1>0, <1>1, <1>4
    <3> QED
      BY <1>0, <1>1, <1>9, <3>1
  <2>2. b \in [1 .. Len(b) -> Packet]
    BY <1>4, LenProperties
  <2>3. b = [i \in 1 .. Len(b) |-> (Read(c) + k) + i]
    BY <2>1, <2>2
  <2> QED
    BY <1>3, <1>8, <2>3
<1>12. Ordered(c)'
  BY <1>0, <1>2, <1>5, <1>6, <1>7, <1>10, <1>11, BothGrow
<1> QED
  BY <1>6, <1>12

LEMMA EndOrder ==
  ASSUME OrderInv, FlowTypes', ~gone, NEW c \in Client, ReadEnd(c)
  PROVE  Ordered(c)' /\ Departed(c)'
<1> DEFINE x == << Closed >>
<1>0. /\ FlowTypes /\ wire[c] = << >> /\ Len(wire[c]) = 0 /\ sent[c] \in 0 .. MaxPackets
      /\ que \in [Client -> Word] /\ que[c] \in Word /\ handled[c] \in Word /\ sent[c] \in Nat
      /\ listed \in [Client -> BOOLEAN] /\ Ordered(c) /\ Read(c) \in Nat
  <2>1. /\ FlowTypes /\ wire[c] = << >> /\ sent[c] \in 0 .. MaxPackets
        /\ que \in [Client -> Word] /\ que[c] \in Word /\ handled[c] \in Word
        /\ listed \in [Client -> BOOLEAN] /\ Ordered(c)
    BY DEF OrderInv, FlowTypes, ReadEnd, DeletionInv, Types
  <2>2. Read(c) \in 0 .. MaxPackets
    BY <2>1, DueProperties
  <2> QED
    BY <2>1, <2>2, EmptySeq, ManagerConstants
<1>1. ~Ended(c) /\ c \in owned /\ peer[c] = "left"
  BY DEF ReadEnd, OrderInv, DeletionInv, SocketInv, Ended
<1>2. /\ que'[c] = Append(que[c], Closed) /\ listed'[c] = FALSE
      /\ UNCHANGED <<handled, wire, sent, peer, owned, acc>>
  BY <1>0 DEF ReadEnd, managerVars, clientVars
<1>3. x \in Word /\ Len(x) = 1 /\ x[1] = Closed
  BY WordElements DEF Word
<1>4. Append(que[c], Closed) = que[c] \o x
  BY <1>0, WordElements, AppendIsConcat DEF Word
<1> HIDE DEF x
<1>5. Given(c)' = Given(c) \o x
  <2>1. handled[c] \o (que[c] \o x) = (handled[c] \o que[c]) \o x
    BY <1>0, <1>3, WordAssociative
  <2> QED
    BY <1>2, <1>4, <2>1 DEF Given
<1>6. Read(c)' = Read(c) /\ Ended(c)' /\ (Posted(c)' <=> Posted(c))
  BY <1>1, <1>2 DEF Read, Ended, Posted
<1>7. Due(c)' = Due(c) \o x
  <2> DEFINE u == Due(c) \o x
             r == Read(c)
  <2>1. /\ Due(c) \in Word /\ Len(Due(c)) = r
        /\ \A i \in 1 .. r : Due(c)[i] = IF i <= r THEN i ELSE Closed
    BY <1>0, <1>1, DueProperties
  <2>2. /\ u \in Word /\ Len(u) = Len(Due(c)) + Len(x)
        /\ \A i \in 1 .. Len(Due(c)) + Len(x) :
             u[i] = IF i <= Len(Due(c)) THEN Due(c)[i] ELSE x[i - Len(Due(c))]
    BY <1>3, <2>1, ConcatProperties DEF Word
  <2> HIDE DEF u, r
  <2>3. r \in Nat
    BY <1>0 DEF r
  <2>4. ASSUME NEW i \in 1 .. r + 1 PROVE u[i] = IF i <= r THEN i ELSE Closed
    <3>1. CASE i <= r
      BY <1>3, <2>1, <2>2, <2>3, <3>1
    <3>2. CASE i = r + 1
      <4>1. u[i] = x[i - r] /\ i - r = 1
        BY <1>3, <2>1, <2>2, <2>3, <3>2
      <4> QED
        BY <1>3, <2>3, <3>2, <4>1
    <3> QED
      BY <2>3, <3>1, <3>2
  <2>5. u \in [1 .. Len(u) -> 0 .. New] /\ Len(u) = r + 1
    BY <1>3, <2>1, <2>2, LenProperties DEF Word
  <2>6. u = [i \in 1 .. r + 1 |-> IF i <= r THEN i ELSE Closed]
    BY <2>4, <2>5
  <2>7. Due(c)' = [i \in 1 .. r + 1 |-> IF i <= r THEN i ELSE Closed]
    BY <1>6 DEF Due, r
  <2> QED
    BY <2>6, <2>7 DEF u
<1>8. wire'[c] = [i \in 1 .. Len(wire'[c]) |-> Read(c)' + i] /\ wire'[c] = << >>
  BY <1>0, <1>2, <1>6 DEF Ordered
<1>9. Ordered(c)'
  BY <1>0, <1>3, <1>5, <1>6, <1>7, <1>8, BothGrow
<1> QED
  BY <1>1, <1>2, <1>9 DEF Departed

LEMMA PostOrder ==
  ASSUME OrderInv, ~gone, PostNew, NEW c \in Client, c = acc
  PROVE  Ordered(c)' /\ Departed(c)'
<1>0. /\ FlowTypes /\ c \in owned
      /\ que \in [Client -> Word] /\ que[c] \in Word /\ handled[c] \in Word
      /\ Ordered(c) /\ Departed(c)
  BY DEF PostNew, OrderInv, DeletionInv, Types, Starting, FlowTypes
<1>1. /\ Due(c) \in Seq(0 .. New) /\ Len(Due(c)) \in Nat /\ New \in 0 .. New
      /\ que[c] \in Seq(0 .. New) /\ <<New>> \in Word
  <2>1. Due(c) \in Seq(0 .. New) /\ New \in 0 .. New
    BY <1>0, DueProperties, WordElements DEF Word
  <2> QED
    BY <1>0, <2>1, LenProperties DEF Word
<1>2. /\ que'[c] = Append(que[c], New) /\ acc' = None
      /\ UNCHANGED <<handled, wire, sent, peer, owned, listed>>
  BY <1>0 DEF PostNew, clientVars
<1>3. Posted(c)' /\ ~Posted(c) /\ (Ended(c)' <=> Ended(c)) /\ Read(c)' = Read(c)
  BY <1>0, <1>2, NoneConnects DEF Posted, Ended, Read
<1>4. Due(c)' = Due(c)
  BY <1>3 DEF Due
<1>5. Given(c)' = InsertAt(Due(c), Len(Due(c)) + 1, New)
  <2>1. Append(que[c], New) = que[c] \o <<New>>
    BY <1>1, AppendIsConcat
  <2>2. handled[c] \o (que[c] \o <<New>>) = (handled[c] \o que[c]) \o <<New>>
    BY <1>0, <1>1, WordAssociative
  <2>3. Given(c) = Due(c)
    BY <1>0, <1>3 DEF Ordered
  <2>4. Append(Due(c), New) = Due(c) \o <<New>>
    BY <1>1, AppendIsConcat
  <2>5. InsertAt(Due(c), Len(Due(c)) + 1, New) = Append(Due(c), New)
    BY <1>1, InsertAtEnd
  <2> QED
    BY <1>2, <2>1, <2>2, <2>3, <2>4, <2>5 DEF Given
<1>6. Len(Due(c)) + 1 \in 1 .. Len(Due(c)) + 1
  BY <1>1
<1> QED
  BY <1>0, <1>2, <1>3, <1>4, <1>5, <1>6 DEF Ordered, Departed

(* What is taken from the queue was given before.                          *)
LEMMA HandleOrder ==
  ASSUME OrderInv, ~gone, NEW c \in Client, Handle(c) PROVE Ordered(c)' /\ Departed(c)'
<1>0. /\ que \in [Client -> Word] /\ que[c] \in Word /\ que[c] # << >>
      /\ handled \in [Client -> Word] /\ handled[c] \in Word /\ Ordered(c) /\ Departed(c)
  BY DEF OrderInv, FlowTypes, Handle
<1> DEFINE h == Head(que[c])
           t == Tail(que[c])
<1>1. /\ que'[c] = t /\ handled'[c] = Append(handled[c], h)
      /\ UNCHANGED <<wire, sent, peer, owned, listed, acc>>
  BY <1>0 DEF Handle, managerVars, clientVars
<1>2. h \in 0 .. New /\ t \in Seq(0 .. New) /\ que[c] = <<h>> \o t
  <2>1. que[c] \in Seq(0 .. New) /\ Len(que[c]) \in Nat \ {0} /\ que[c] # << >>
    BY <1>0, EmptySeq DEF Word
  <2>2. /\ h \in 0 .. New /\ t \in Seq(0 .. New) /\ Len(t) = Len(que[c]) - 1
        /\ \A i \in 1 .. Len(t) : t[i] = que[c][i + 1]
        /\ h = que[c][1]
    <3> DEFINE S == 0 .. New
    <3>1. que[c] \in Seq(S) /\ que[c] # << >>
      BY <2>1
    <3> HIDE DEF S
    <3>2. /\ h \in S /\ t \in Seq(S) /\ Len(t) = Len(que[c]) - 1
          /\ \A i \in 1 .. Len(t) : t[i] = que[c][i + 1]
      BY <3>1, HeadTailProperties
    <3> QED
      BY <2>1, <3>2 DEF S
  <2> HIDE DEF h, t
  <2> DEFINE u == <<h>> \o t
  <2>3. <<h>> \in Seq(0 .. New) /\ Len(<<h>>) = 1 /\ <<h>>[1] = h
    BY <2>2
  <2>4. /\ u \in Seq(0 .. New) /\ Len(u) = 1 + Len(t)
        /\ \A i \in 1 .. 1 + Len(t) : u[i] = IF i <= 1 THEN <<h>>[i] ELSE t[i - 1]
    BY <2>2, <2>3, ConcatProperties
  <2> HIDE DEF u
  <2>5. Len(u) = Len(que[c])
    BY <2>1, <2>2, <2>4
  <2>6. ASSUME NEW i \in 1 .. Len(que[c]) PROVE que[c][i] = u[i]
    <3>1. CASE i = 1
      BY <2>1, <2>2, <2>3, <2>4, <3>1
    <3>2. CASE i > 1
      <4>1. u[i] = t[i - 1] /\ i - 1 \in 1 .. Len(t)
        BY <2>1, <2>2, <2>4, <3>2
      <4>2. t[i - 1] = que[c][(i - 1) + 1] /\ (i - 1) + 1 = i
        BY <2>1, <2>2, <4>1
      <4> QED
        BY <4>1, <4>2
    <3> QED
      BY <2>1, <3>1, <3>2
  <2>7. que[c] = u
    BY <2>1, <2>4, <2>5, <2>6, SeqEqual
  <2> QED
    BY <2>2, <2>7 DEF u
<1> HIDE DEF h, t
<1>3. Given(c)' = Given(c)
  <2>1. handled[c] \in Seq(0 .. New) /\ <<h>> \in Word /\ t \in Word
    BY <1>0, <1>2 DEF Word
  <2>2. Append(handled[c], h) = handled[c] \o <<h>>
    BY <1>2, <2>1, AppendIsConcat
  <2>3. (handled[c] \o <<h>>) \o t = handled[c] \o (<<h>> \o t)
    BY <1>0, <2>1, WordAssociative
  <2> QED
    BY <1>1, <1>2, <2>2, <2>3 DEF Given
<1>4. Read(c)' = Read(c) /\ (Ended(c)' <=> Ended(c)) /\ (Posted(c)' <=> Posted(c))
  BY <1>1 DEF Read, Ended, Posted
<1>5. Due(c)' = Due(c)
  BY <1>4 DEF Due
<1> QED
  BY <1>0, <1>1, <1>3, <1>4, <1>5 DEF Ordered, Departed

LEMMA OrderStep == OrderInv /\ [Next]_vars => OrderInv'
<1> SUFFICES ASSUME OrderInv, [Next]_vars PROVE OrderInv'
  OBVIOUS
<1>0. DeletionInv' /\ FlowTypes' /\ Types
  BY DeletionStep, FlowTypesStep DEF OrderInv, DeletionInv
<1> SUFFICES ASSUME ~gone', NEW c \in Client PROVE Ordered(c)' /\ Departed(c)'
  BY <1>0 DEF OrderInv
<1>1. ~Destroy
  BY DEF Destroy
<1> USE DEF managerVars, threadVars, clientVars
<1>2. CASE UNCHANGED vars
  <2>1. Ordered(c) /\ Departed(c)
    BY <1>2 DEF vars, OrderInv
  <2>2. /\ UNCHANGED <<wire, sent, handled, que, peer, owned, listed, acc>>
    BY <1>2 DEF vars
  <2> QED
    BY <2>1, <2>2, OrderedFrame DEF Ended, Posted
<1> SUFFICES ASSUME Next PROVE Ordered(c)' /\ Departed(c)'
  BY <1>2
<1>3. ~gone
  BY <1>1 DEF Next, StartServer, ManagerStep, CreateFails, StopManager, Connect, Send, Leave,
    HandlerStep, KillSelf, KillOther, DeleteOther, NullOther, Accept, SetRun, CreateThread,
    AssignThread, PostNew, ManagerEnds, SelectReady, ReadSocket, ReadEnd, Handle, Pumped,
    HandlerEnds, DeleteSelf, NullSelf, managerVars
<1>4. /\ Ordered(c) /\ Departed(c) /\ FlowTypes
      /\ wire \in [Client -> Seq(Packet)] /\ sent \in [Client -> 0 .. MaxPackets]
      /\ que \in [Client -> Word] /\ handled \in [Client -> Word]
      /\ listed \in [Client -> BOOLEAN] /\ peer \in [Client -> {"none", "up", "left"}]
      /\ mpc \notin Starting => acc = None
  BY <1>0, <1>3 DEF OrderInv, FlowTypes, Types
(* A step of something else than c's queue, wire and list.                 *)
<1>5. ASSUME UNCHANGED <<wire, sent, handled, que, owned, listed, acc>>,
             peer[c] = "left" => peer'[c] = "left"
      PROVE Ordered(c)' /\ Departed(c)'
  BY <1>4, <1>5, OrderedFrame DEF Ended, Posted
<1>6. ASSUME StartServer \/ ManagerEnds \/ StopManager \/ CreateFails
      PROVE Ordered(c)' /\ Departed(c)'
  BY <1>5, <1>6 DEF StartServer, ManagerEnds, StopManager, CreateFails
<1>7. ASSUME SetRun \/ CreateThread \/ AssignThread
      PROVE Ordered(c)' /\ Departed(c)'
  BY <1>5, <1>7 DEF SetRun, CreateThread, AssignThread
<1>8. ASSUME NEW d \in Client, Accept(d) PROVE Ordered(c)' /\ Departed(c)'
  <2>1. /\ acc = None /\ acc' = d /\ owned' = owned \cup {d} /\ d \notin owned
        /\ listed' = [listed EXCEPT ![d] = TRUE]
        /\ UNCHANGED <<wire, sent, handled, que, peer>>
    BY <1>4, <1>8 DEF Accept, Starting
  <2>2. (Ended(c)' <=> Ended(c)) /\ (Posted(c)' <=> Posted(c))
    BY <1>4, <2>1, NoneConnects DEF Ended, Posted
  <2> QED
    BY <1>4, <2>1, <2>2, OrderedFrame
<1>9. ASSUME PostNew PROVE Ordered(c)' /\ Departed(c)'
  <2>1. CASE c = acc
    BY <1>3, <1>9, <2>1, PostOrder
  <2>2. CASE c # acc
    <3>1. /\ acc' = None /\ que'[c] = que[c]
          /\ UNCHANGED <<wire, sent, handled, peer, owned, listed>>
      BY <1>4, <1>9, <2>2 DEF PostNew
    <3>2. (Ended(c)' <=> Ended(c)) /\ (Posted(c)' <=> Posted(c))
      BY <2>2, <3>1, NoneConnects DEF Ended, Posted
    <3> QED
      BY <1>4, <3>1, <3>2, OrderedFrame
  <2> QED
    BY <2>1, <2>2
<1>10. ASSUME NEW d \in Client, Connect(d) \/ Leave(d) PROVE Ordered(c)' /\ Departed(c)'
  <2>1. peer[c] = "left" => peer'[c] = "left"
    BY <1>4, <1>10 DEF Connect, Leave
  <2> QED
    BY <1>5, <1>10, <2>1 DEF Connect, Leave
(* A step of another client or handler.                                    *)
<1>11. ASSUME NEW d \in Client, d # c,
              Send(d) \/ (\E k \in 1 .. MaxPackets : ReadSocket(d, k)) \/ ReadEnd(d) \/ Handle(d)
       PROVE  Ordered(c)' /\ Departed(c)'
  <2>1. /\ wire'[c] = wire[c] /\ sent'[c] = sent[c] /\ handled'[c] = handled[c]
        /\ que'[c] = que[c] /\ listed'[c] = listed[c]
        /\ UNCHANGED <<peer, owned, acc>>
    <3>1. CASE Send(d)
      BY <1>4, <1>11, <3>1 DEF Send
    <3>2. ASSUME NEW k \in 1 .. MaxPackets, ReadSocket(d, k)
          PROVE  /\ wire'[c] = wire[c] /\ sent'[c] = sent[c] /\ handled'[c] = handled[c]
                 /\ que'[c] = que[c] /\ listed'[c] = listed[c]
                 /\ UNCHANGED <<peer, owned, acc>>
      BY <1>4, <1>11, <3>2 DEF ReadSocket
    <3>3. CASE ReadEnd(d)
      BY <1>4, <1>11, <3>3 DEF ReadEnd
    <3>4. CASE Handle(d)
      BY <1>4, <1>11, <3>4 DEF Handle
    <3> QED
      BY <1>11, <3>1, <3>2, <3>3, <3>4
  <2>2. (Ended(c)' <=> Ended(c)) /\ (Posted(c)' <=> Posted(c))
    BY <2>1 DEF Ended, Posted
  <2> QED
    BY <1>4, <2>1, <2>2, OrderedFrame
<1>12. ASSUME NEW d \in Client, Send(d) PROVE Ordered(c)' /\ Departed(c)'
  BY <1>3, <1>11, <1>12, SendOrder
<1>13. ASSUME NEW d \in Client, NEW k \in 1 .. MaxPackets, ReadSocket(d, k)
       PROVE  Ordered(c)' /\ Departed(c)'
  BY <1>0, <1>3, <1>11, <1>13, ReadOrder
<1>14. ASSUME NEW d \in Client, ReadEnd(d) PROVE Ordered(c)' /\ Departed(c)'
  BY <1>0, <1>3, <1>11, <1>14, EndOrder
<1>15. ASSUME NEW d \in Client, Handle(d) PROVE Ordered(c)' /\ Departed(c)'
  BY <1>3, <1>11, <1>15, HandleOrder
<1>16. ASSUME NEW d \in Client, SelectReady(d) \/ Pumped(d) \/ HandlerEnds(d)
       PROVE  Ordered(c)' /\ Departed(c)'
  BY <1>5, <1>16 DEF SelectReady, Pumped, HandlerEnds
<1>17. ASSUME NEW d \in Client, KillSelf(d) \/ KillOther(d)
       PROVE  Ordered(c)' /\ Departed(c)'
  BY <1>5, <1>17 DEF KillSelf, KillOther
<1>18. ASSUME NEW d \in Client, DeleteSelf(d) \/ NullSelf(d) \/ DeleteOther(d) \/ NullOther(d)
       PROVE  Ordered(c)' /\ Departed(c)'
  BY <1>5, <1>18 DEF DeleteSelf, NullSelf, DeleteOther, NullOther
<1> QED
  BY <1>1, <1>6, <1>7, <1>8, <1>9, <1>10, <1>12, <1>13, <1>14, <1>15, <1>16, <1>17, <1>18
    DEF Next, ManagerStep, HandlerStep

(* Each handler is given the packets of its client in the order they were  *)
(* sent, then pcClosed, and pcNewConnection once and not before it is      *)
(* posted, for any number of connections and packets and whoever kills     *)
(* whom.                                                                   *)
THEOREM HandlersInOrder == Spec => []HandlerOrder
<1>1. OrderInv => HandlerOrder
  BY DEF OrderInv, HandlerOrder, Ordered
<1> QED
  BY <1>1, InitOrder, OrderStep, PTL DEF Spec
=============================================================================
