-------------------------- MODULE JavaTelnet_proofs --------------------------
(***************************************************************************)
(* The Java telnet servers, with one thread or any finite pool of them:    *)
(* lines are begun in the order they were sent, each once, and a text is   *)
(* written once unless two threads send to one socket at the same time.    *)
(***************************************************************************)
EXTENDS JavaTelnet, SequenceTheorems, FiniteSetTheorems, TLAPS

(* Nothing has thrown in the selecting thread: what it reads next follows  *)
(* what it read before.  An exception leaves it at "select" and not        *)
(* running, from where it only ends.                                       *)
Intact ==
  /\ pc \notin {"stopping", "waiting", "ended"}
  /\ pc = "select" => running

Numbered ==
  /\ \A c \in Client : \A i \in DOMAIN read[c] : read[c][i] = i
  /\ \A c \in Client : \A i \in DOMAIN taken[c] : taken[c][i] = i
  /\ \A c \in Client : Len(taken[c]) <= Len(read[c])

WireFollows ==
  Intact =>
    \A c \in Client :
      /\ sent[c] = Len(read[c]) + Len(wire[c])
      /\ \A i \in DOMAIN wire[c] : wire[c][i] \in {Empty, Len(read[c]) + i}

Increasing ==
  \A i, j \in DOMAIN que : i < j /\ que[i][1] = que[j][1] => que[i][2] < que[j][2]

(* While TelnetServer handles a message, that is still first in the queue. *)
Handling == kind = "single" /\ pc \in Busy
Behind(c) ==
  IF Handling /\ que[1][1] = c THEN Len(taken[c]) .. Len(read[c])
                               ELSE Len(taken[c]) + 1 .. Len(read[c])
WaitInOrder ==
  /\ kind = "pool" \/ Intact => \A c \in Client : Waits(c) = Behind(c)
  /\ Handling => que # << >> /\ que[1][2] = Len(taken[que[1][1]])

(* The two servers have no step in common beyond the selecting.            *)
ModesApart ==
  /\ kind = "pool" => pc \notin {"messages"} \cup Busy
  /\ kind = "single" => /\ pc \notin {"create", "stopping", "waiting"}
                        /\ \A h \in Pool : hpc[h] = "none"

OrderInv == Numbered /\ WireFollows /\ Increasing /\ WaitInOrder /\ ModesApart

(* A client that is not accepted is nobody's.                              *)
Unmet(c) == peer[c] \in {"absent", "waiting"}
UnmetUnknown ==
  \A c \in Client : Unmet(c) =>
    /\ c \notin map /\ c \notin open /\ owed[c] = 0
    /\ \A i \in DOMAIN que : que[i][1] # c
    /\ \A w \in Worker : c \notin todo[w] /\ (At(w, "work") => msg[w][1] # c)

(* Who is between filling a socket's buffer and forgetting it.             *)
SendingTo(c) ==
  {w \in Worker : (At(w, "write") \/ At(w, "forget")) /\ First(w) = c}
AloneUnlessRaced ==
  \A c \in Client \ raced :
    /\ \A v, w \in SendingTo(c) : v = w
    /\ WritingTo(c) # {} => wbuf[c] # Null

SendInv == UnmetUnknown /\ AloneUnlessRaced /\ TextsSentOnce
IInv == TypeOK /\ OrderInv /\ SendInv

-----------------------------------------------------------------------------
(* Two sequences one behind the other, and a part of one.                  *)
LEMMA Joined ==
  ASSUME NEW S, NEW s1 \in Seq(S), NEW s2 \in Seq(S)
  PROVE  /\ s1 \o s2 \in Seq(S) /\ Len(s1 \o s2) = Len(s1) + Len(s2)
         /\ DOMAIN (s1 \o s2) = 1 .. Len(s1) + Len(s2)
         /\ \A i \in 1 .. Len(s1) : (s1 \o s2)[i] = s1[i]
         /\ \A i \in 1 .. Len(s2) : (s1 \o s2)[Len(s1) + i] = s2[i]
<1>1. PICK a \in Nat, b \in Nat : a = Len(s1) /\ b = Len(s2)
  BY LenProperties
<1>2. PICK s : s = s1 \o s2
  OBVIOUS
<1>3. /\ s \in Seq(S) /\ Len(s) = a + b
      /\ \A i \in 1 .. a + b : s[i] = IF i <= a THEN s1[i] ELSE s2[i - a]
  BY <1>1, <1>2, ConcatProperties
<1>4. DOMAIN s = 1 .. a + b
  BY <1>3, LenProperties
<1>5. ASSUME NEW i \in 1 .. a PROVE s[i] = s1[i]
  BY <1>3
<1>6. ASSUME NEW i \in 1 .. b PROVE s[a + i] = s2[i]
  <2>1. a + i \in 1 .. a + b /\ ~(a + i <= a) /\ (a + i) - a = i
    OBVIOUS
  <2> QED
    BY <1>3, <2>1
<1> QED
  BY <1>1, <1>2, <1>3, <1>4, <1>5, <1>6

LEMMA Part ==
  ASSUME NEW S, NEW s \in Seq(S), NEW a \in Nat, NEW b \in Nat,
         a <= b, b <= Len(s)
  PROVE  /\ SubSeq(s, a + 1, b) \in Seq(S) /\ Len(SubSeq(s, a + 1, b)) = b - a
         /\ DOMAIN SubSeq(s, a + 1, b) = 1 .. b - a
         /\ \A i \in 1 .. b - a : SubSeq(s, a + 1, b)[i] = s[a + i]
<1>0. PICK m \in Nat : m = Len(s)
  BY LenProperties
<1>1. \A i \in a + 1 .. b : s[i] \in S
  <2>1. \A i \in 1 .. m : s[i] \in S
    BY <1>0, ElementOfSeq
  <2> QED
    BY <1>0, <2>1
<1>2. a + 1 \in Int /\ b \in Int /\ b - (a + 1) + 1 = b - a
  OBVIOUS
<1>a. PICK t : t = SubSeq(s, a + 1, b)
  OBVIOUS
<1>b. PICK d \in Int : d = a + 1
  BY <1>2
<1>3. /\ t \in Seq(S) /\ Len(t) = IF d <= b THEN b - d + 1 ELSE 0
      /\ \A i \in 1 .. b - d + 1 : t[i] = s[d + i - 1]
  BY <1>1, <1>2, <1>a, <1>b, SubSeqProperties
<1>4. b - d + 1 = b - a /\ \A i \in 1 .. b - a : d + i - 1 = a + i
  BY <1>b
<1>5. Len(t) = b - a
  BY <1>3, <1>4, <1>b
<1> QED
  BY <1>3, <1>4, <1>5, <1>a, LenProperties

LEMMA Workers ==
  /\ IsFiniteSet(Worker) /\ Main \in Worker /\ Null \notin Worker
  /\ \A h \in Pool : h \in Worker /\ h # Main
  /\ \A w \in Worker : w = Main \/ w \in Pool
BY HandlersKnown, FS_AddElement DEF Worker, Main, Null

LEMMA FirstIsTodo ==
  ASSUME NEW w, todo[w] # {}
  PROVE  First(w) \in todo[w]
BY DEF First

LEMMA FirstKept ==
  ASSUME NEW w, todo'[w] = todo[w]
  PROVE  First(w)' = First(w)
BY DEF First

(* A thread that goes on to p is there, and the others are where they were.*)
Place == {"messages", "select", "loop"} \cup Busy
LEMMA GoesMoves ==
  ASSUME TypeOK, NEW w \in Worker, NEW p \in Place, Goes(w, p),
         p = "loop" => w # Main, p \in {"messages", "select"} => w = Main
  PROVE  /\ \A x : At(w, x)' <=> x = p
         /\ \A v \in Worker \ {w} : \A x : At(v, x)' <=> At(v, x)
         /\ hpc' \in [Pool -> {"none", "new", "loop", "stopped"} \cup Busy]
         /\ w = Main => pc' = p /\ hpc' = hpc
         /\ w # Main => pc' = pc
         /\ \A h \in Pool \ {w} : hpc'[h] = hpc[h]
BY Workers DEF TypeOK, Goes, At, Place, Busy

LEMMA GoesOnce ==
  ASSUME TypeOK, NEW w \in Worker, NEW p, NEW q, Goes(w, p), Goes(w, q)
  PROVE  p = q
BY Workers DEF Goes, TypeOK

LEMMA AtPlaces ==
  /\ \A x : At(Main, x) <=> pc = x
  /\ \A x : At(Main, x)' <=> pc' = x
  /\ \A h \in Pool : \A x : At(h, x) <=> hpc[h] = x
  /\ \A h \in Pool : \A x : At(h, x)' <=> hpc'[h] = x
BY Workers DEF At

(* Steps that leave every thread where it is in its work.                  *)
WorkKept == \A w \in Worker, x \in Busy : At(w, x)' <=> At(w, x)
LEMMA MainMoves ==
  ASSUME TypeOK, UNCHANGED hpc, pc \notin Busy, pc' \notin Busy
  PROVE  WorkKept
BY Workers DEF WorkKept, At, Busy

-----------------------------------------------------------------------------
(* Types.                                                                  *)

LEMMA InitType == Init => TypeOK
<1> SUFFICES ASSUME Init PROVE TypeOK
  OBVIOUS
<1>1. \A w \in Worker, x \in Busy : ~At(w, x)
  BY Workers DEF Init, At, Busy
<1>2. \A w \in Worker : ~At(w, "work") /\ ~At(w, "write") /\ ~At(w, "forget")
  BY <1>1 DEF Busy
<1>3. /\ hpc \in [Pool -> {"none", "new", "loop", "stopped"} \cup Busy]
      /\ isRunning \in [Pool -> BOOLEAN]
      /\ msg \in [Worker -> (Client \X Nat) \cup {NoMsg}]
      /\ todo \in [Worker -> SUBSET Client]
      /\ wbuf \in [Client -> Worker \cup {Null}]
  BY DEF Init
<1>4. /\ que \in Seq(Client \X Nat) /\ owed \in [Client -> Int]
      /\ peer \in [Client -> {"absent", "waiting", "up", "gone"}]
      /\ sent \in [Client -> Nat] /\ wire \in [Client -> Seq(Nat)]
      /\ read \in [Client -> Seq(Nat)] /\ taken \in [Client -> Seq(Nat)]
  BY DEF Init
<1> QED
  BY <1>2, <1>3, <1>4 DEF Init, TypeOK

LEMMA ClientType == TypeOK /\ ClientStep => TypeOK'
<1> SUFFICES ASSUME TypeOK, ClientStep PROVE TypeOK'
  OBVIOUS
<1>1. UNCHANGED <<mainVars, running, map, open, que, handlerVars, workVars, sendVars,
                  read, taken>>
  BY DEF ClientStep
<1>2. /\ peer' \in [Client -> {"absent", "waiting", "up", "gone"}]
      /\ sent' \in [Client -> Nat] /\ wire' \in [Client -> Seq(Nat)]
  <2>1. PICK c \in Client : Connect(c) \/ Say(c) \/ Hangup(c)
    BY DEF ClientStep
  <2>2. CASE Connect(c)
    BY <2>2 DEF Connect, TypeOK
  <2>3. CASE Say(c)
    BY <2>3 DEF Say, TypeOK, Empty
  <2>4. CASE Hangup(c)
    BY <2>4 DEF Hangup, TypeOK
  <2> QED
    BY <2>1, <2>2, <2>3, <2>4
<1> QED
  BY <1>1, <1>2 DEF TypeOK, At, mainVars, handlerVars, workVars, sendVars

LEMMA BeginsType ==
  ASSUME TypeOK, NEW w, Begins(w), Head(que) \in Client \X Nat
  PROVE  taken' \in [Client -> Seq(Nat)]
<1>1. Head(que)[1] \in Client /\ Head(que)[2] \in Nat
  OBVIOUS
<1> DEFINE c == Head(que)[1]
<1>2. taken' = [taken EXCEPT ![c] = Append(taken[c], Head(que)[2])]
  BY DEF Begins
<1>3. Append(taken[c], Head(que)[2]) \in Seq(Nat)
  BY <1>1 DEF TypeOK
<1> QED
  BY <1>1, <1>2, <1>3 DEF TypeOK

LEMMA MainType == TypeOK /\ MainStep => TypeOK'
<1> SUFFICES ASSUME TypeOK, MainStep PROVE TypeOK'
  OBVIOUS
<1>1. CASE Run
  <2>1. WorkKept
    BY <1>1, MainMoves DEF Run, Elsewhere, handlerVars, Busy
  <2> QED
    BY <1>1, <2>1 DEF Run, Elsewhere, handlerVars, workVars, sendVars, clientVars,
                      TypeOK, WorkKept, Busy
<1>2. ASSUME NEW h \in Pool, CreateHandler(h) PROVE TypeOK'
  <2>1. WorkKept
    BY <1>2, Workers DEF CreateHandler, WorkKept, At, Busy, TypeOK
  <2> QED
    BY <1>2, <2>1 DEF CreateHandler, workVars, sendVars, clientVars,
                      TypeOK, WorkKept, Busy
<1>3. CASE Select \/ LoopEnds \/ KeysDone \/ MessagesDone \/ StopHandlers \/ HandlersFinished
  <2>0. pc \notin Busy /\ pc' \notin Busy /\ UNCHANGED hpc
    BY <1>3 DEF Select, LoopEnds, KeysDone, MessagesDone, StopHandlers,
                HandlersFinished, Elsewhere, handlerVars, Busy
  <2>1. WorkKept
    BY <2>0, MainMoves
  <2>2. CASE Select
    BY <2>2, <2>1 DEF Select, Elsewhere, handlerVars, workVars, sendVars, clientVars,
                      TypeOK, WorkKept, Busy
  <2>3. CASE LoopEnds \/ KeysDone \/ MessagesDone \/ HandlersFinished
    BY <2>3, <2>1 DEF LoopEnds, KeysDone, MessagesDone, HandlersFinished, Elsewhere,
                      handlerVars, workVars, sendVars, clientVars, TypeOK, WorkKept, Busy
  <2>4. CASE StopHandlers
    BY <2>4, <2>1 DEF StopHandlers, workVars, sendVars, clientVars, TypeOK, WorkKept, Busy
  <2> QED
    BY <1>3, <2>2, <2>3, <2>4
<1>4. ASSUME NEW c \in Client, Accept(c) \/ CheckKey(c) PROVE TypeOK'
  <2>1. WorkKept
    BY <1>4, MainMoves DEF Accept, CheckKey, Elsewhere, handlerVars, Busy
  <2>2. CASE Accept(c)
    BY <2>2, <2>1 DEF Accept, handlerVars, workVars, sendVars, TypeOK, WorkKept, Busy
  <2>3. CASE CheckKey(c)
    BY <2>3, <2>1 DEF CheckKey, Elsewhere, handlerVars, workVars, sendVars, clientVars,
                      TypeOK, WorkKept, Busy
  <2> QED
    BY <1>4, <2>2, <2>3
<1>5. CASE KeyCancelled \/ ReadClosed \/ ReadEnd
  <2>1. WorkKept
    BY <1>5, MainMoves DEF KeyCancelled, ReadClosed, ReadEnd, Breaks, Elsewhere,
                           handlerVars, Busy
  <2> QED
    BY <1>5, <2>1 DEF KeyCancelled, ReadClosed, ReadEnd, Breaks, Elsewhere, handlerVars,
                      workVars, sendVars, clientVars, TypeOK, WorkKept, Busy
<1>6. ASSUME NEW k \in 1 .. MaxLines, ReadLines(k) \/ ReadEmpty(k) PROVE TypeOK'
  <2>1. WorkKept
    BY <1>6, MainMoves DEF ReadLines, ReadEmpty, Breaks, handlerVars, Busy
  <2>2. PICK n \in {k, k - 1} :
          /\ que' = que \o Msgs(key, n)
          /\ read' = [read EXCEPT ![key] = @ \o SubSeq(wire[key], 1, n)]
    BY <1>6 DEF ReadLines, ReadEmpty
  <2>a. key \in Client /\ wire[key] \in Seq(Nat) /\ read[key] \in Seq(Nat)
    BY <1>6 DEF ReadLines, ReadEmpty, TypeOK
  <2>g. k \in 1 .. Len(wire[key])
    BY <1>6 DEF ReadLines, ReadEmpty
  <2>b. k \in 1 .. Len(wire[key]) /\ Len(wire[key]) \in Nat
    BY <2>a, <2>g, LenProperties
  <2>3. key \in Client /\ k \in 1 .. Len(wire[key]) /\ n \in 0 .. Len(wire[key])
    BY <2>2, <2>a, <2>b
  <2>4. Msgs(key, n) \in Seq(Client \X Nat)
    BY <2>3 DEF Msgs, TypeOK
  <2>c. que \in Seq(Client \X Nat) /\ read \in [Client -> Seq(Nat)]
    BY DEF TypeOK
  <2>d. SubSeq(wire[key], 1, n) \in Seq(Nat)
    BY <2>3, <2>a, SubSeqProperties
  <2>e. que \o Msgs(key, n) \in Seq(Client \X Nat)
    BY <2>4, <2>c, ConcatProperties
  <2>f. read[key] \o SubSeq(wire[key], 1, n) \in Seq(Nat)
    BY <2>a, <2>d, ConcatProperties
  <2>5. que' \in Seq(Client \X Nat) /\ read' \in [Client -> Seq(Nat)]
    BY <2>2, <2>3, <2>c, <2>e, <2>f
  <2>6. wire' \in [Client -> Seq(Nat)]
    <3>1. SubSeq(wire[key], k + 1, Len(wire[key])) \in Seq(Nat)
      BY <2>a, <2>b
    <3>2. wire' = [wire EXCEPT ![key] = SubSeq(wire[key], k + 1, Len(wire[key]))]
      BY <1>6 DEF ReadLines, ReadEmpty
    <3> QED
      BY <3>1, <3>2 DEF TypeOK
  <2> QED
    BY <1>6, <2>1, <2>5, <2>6 DEF ReadLines, ReadEmpty, Breaks, handlerVars, workVars,
                                  sendVars, TypeOK, WorkKept, Busy
<1>7. CASE TakeFirst
  <2>1. Head(que) \in Client \X Nat
    <3>1. que # << >> /\ que \in Seq(Client \X Nat)
      BY <1>7 DEF TakeFirst, TypeOK
    <3> QED
      BY <3>1, HeadTailProperties
  <2>2. msg' = [msg EXCEPT ![Main] = Head(que)]
    BY <1>7 DEF TakeFirst, Begins
  <2>3. \A w \in Worker : At(w, "work")' => w = Main \/ At(w, "work")
    BY <1>7, Workers DEF TakeFirst, handlerVars, At
  <2>4. \A w \in Worker : At(w, "work")' => msg'[w] \in Client \X Nat
    BY <2>1, <2>2, <2>3 DEF TypeOK
  <2>5. \A w \in Worker : /\ At(w, "write")' => At(w, "write")
                          /\ At(w, "forget")' => At(w, "forget")
    BY <1>7, Workers DEF TakeFirst, handlerVars, At
  <2>6. taken' \in [Client -> Seq(Nat)]
    BY <2>1, BeginsType, <1>7 DEF TakeFirst
  <2>7. msg' \in [Worker -> (Client \X Nat) \cup {NoMsg}]
    BY <2>1, <2>2 DEF TypeOK
  <2> QED
    BY <1>7, <2>4, <2>5, <2>6, <2>7 DEF TakeFirst, handlerVars, sendVars, clientVars,
                                        TypeOK, Busy
<1> QED
  BY <1>1, <1>2, <1>3, <1>4, <1>5, <1>6, <1>7 DEF MainStep

LEMMA HandlerType == TypeOK /\ (\E h \in Pool : HandlerStep(h)) => TypeOK'
<1> SUFFICES ASSUME TypeOK, NEW h \in Pool, HandlerStep(h) PROVE TypeOK'
  OBVIOUS
<1>1. CASE HandlerBegins(h) \/ HandlerEnds(h)
  <2>1. WorkKept
    BY <1>1, Workers DEF HandlerBegins, HandlerEnds, WorkKept, At, Busy, TypeOK, mainVars
  <2>2. /\ hpc' \in [Pool -> {"none", "new", "loop", "stopped"} \cup Busy]
        /\ isRunning' \in [Pool -> BOOLEAN]
    BY <1>1 DEF HandlerBegins, HandlerEnds, TypeOK
  <2> QED
    BY <1>1, <2>1, <2>2 DEF HandlerBegins, HandlerEnds, mainVars, workVars, sendVars,
                            clientVars, TypeOK, WorkKept, Busy
<1>2. CASE TakeMessage(h)
  <2>0. que # << >> /\ que \in Seq(Client \X Nat)
    BY <1>2 DEF TakeMessage, TypeOK
  <2>1. Head(que) \in Client \X Nat /\ Tail(que) \in Seq(Client \X Nat)
    BY <2>0, HeadTailProperties
  <2>2. msg' = [msg EXCEPT ![h] = Head(que)] /\ que' = Tail(que)
    BY <1>2 DEF TakeMessage, Begins
  <2>3. \A w \in Worker : /\ At(w, "work")' => w = h \/ At(w, "work")
                          /\ At(w, "write")' => At(w, "write")
                          /\ At(w, "forget")' => At(w, "forget")
    BY <1>2, Workers DEF TakeMessage, mainVars, At, TypeOK
  <2>4. \A w \in Worker : At(w, "work")' => msg'[w] \in Client \X Nat
    BY <2>1, <2>2, <2>3, Workers DEF TypeOK
  <2>5. taken' \in [Client -> Seq(Nat)]
    BY <1>2, <2>1, BeginsType DEF TakeMessage
  <2>6. msg' \in [Worker -> (Client \X Nat) \cup {NoMsg}]
    BY <2>1, <2>2 DEF TypeOK
  <2>7. hpc' \in [Pool -> {"none", "new", "loop", "stopped"} \cup Busy]
    BY <1>2 DEF TakeMessage, TypeOK, Busy
  <2> QED
    BY <1>2, <2>1, <2>2, <2>3, <2>4, <2>5, <2>6, <2>7
       DEF TakeMessage, mainVars, sendVars, clientVars, TypeOK
<1> QED
  BY <1>1, <1>2 DEF HandlerStep

(* What a thread in its work may do to the variables of others.            *)
LEMMA WorkPlaces ==
  ASSUME TypeOK, NEW w \in Worker, NEW p \in Place, Goes(w, p),
         p = "loop" => w # Main, p \in {"messages", "select"} => w = Main,
         p # "work",
         \A v \in Worker \ {w} : msg'[v] = msg[v] /\ todo'[v] = todo[v],
         p \in {"write", "forget"} => todo'[w] # {}
  PROVE  /\ \A v \in Worker : At(v, "work")' => msg'[v] \in Client \X Nat
         /\ \A v \in Worker : At(v, "write")' \/ At(v, "forget")' => todo'[v] # {}
         /\ pc' \in {"init", "create", "select", "keys", "key", "messages", "stopping",
                    "waiting", "ended"} \cup Busy
         /\ hpc' \in [Pool -> {"none", "new", "loop", "stopped"} \cup Busy]
         /\ pc' = "key" => pc = "key"
<1>1. /\ \A x : At(w, x)' <=> x = p
      /\ \A v \in Worker \ {w} : \A x : At(v, x)' <=> At(v, x)
      /\ hpc' \in [Pool -> {"none", "new", "loop", "stopped"} \cup Busy]
      /\ w = Main => pc' = p /\ hpc' = hpc
      /\ w # Main => pc' = pc
  BY GoesMoves
<1>2. \A v \in Worker : At(v, "work")' => msg'[v] \in Client \X Nat
  BY <1>1 DEF TypeOK
<1>3. \A v \in Worker : At(v, "write")' \/ At(v, "forget")' => todo'[v] # {}
  BY <1>1 DEF TypeOK
<1> QED
  BY <1>1, <1>2, <1>3 DEF TypeOK, Place, Busy

(* The variables a thread in its work may change, and those it leaves.     *)
WorkTypes ==
  /\ monitor \in Worker \cup {Null} /\ running \in BOOLEAN
  /\ map \subseteq Client /\ open \subseteq Client
  /\ que \in Seq(Client \X Nat)
  /\ msg \in [Worker -> (Client \X Nat) \cup {NoMsg}]
  /\ todo \in [Worker -> SUBSET Client]
  /\ wbuf \in [Client -> Worker \cup {Null}] /\ raced \subseteq Client
  /\ owed \in [Client -> Int]

(* Where it goes on to, and that it has a message or sockets there.        *)
Onward(w, p) ==
  /\ Goes(w, p) /\ p \in Place \ {"work"}
  /\ p = "loop" => w # Main
  /\ p \in {"messages", "select"} => w = Main
  /\ p \in {"write", "forget"} => todo'[w] # {}
  /\ \A v \in Worker \ {w} : msg'[v] = msg[v] /\ todo'[v] = todo[v]

LEMMA OnwardType ==
  ASSUME TypeOK, NEW w \in Worker, NEW p, Onward(w, p), WorkTypes', UNCHANGED Others
  PROVE  TypeOK'
BY WorkPlaces DEF Onward, WorkTypes, TypeOK, Others, clientVars

LEMMA DoneTypes ==
  ASSUME TypeOK, NEW w \in Worker, Done(w), w = Main => que # << >>
  PROVE  /\ Onward(w, IF w = Main THEN "messages" ELSE "loop")
         /\ monitor' \in Worker \cup {Null} /\ que' \in Seq(Client \X Nat)
         /\ msg' \in [Worker -> (Client \X Nat) \cup {NoMsg}]
         /\ todo' \in [Worker -> SUBSET Client]
<1>1. que' \in Seq(Client \X Nat)
  BY HeadTailProperties DEF Done, TypeOK
<1> QED
  BY <1>1 DEF Done, TypeOK, Onward, Place

LEMMA ThrowsTypes ==
  ASSUME TypeOK, NEW w \in Worker, Throws(w)
  PROVE  /\ Onward(w, IF w = Main THEN "select" ELSE "loop")
         /\ monitor' \in Worker \cup {Null} /\ running' \in BOOLEAN
         /\ map' \subseteq map /\ open' \subseteq open /\ que' = que
         /\ msg' \in [Worker -> (Client \X Nat) \cup {NoMsg}]
         /\ todo' \in [Worker -> SUBSET Client]
<1>1. Goes(w, IF w = Main THEN "select" ELSE "loop")
  BY DEF Throws
<1> QED
  BY <1>1 DEF Throws, TypeOK, Onward, Place

LEMMA OwedMoves ==
  ASSUME TypeOK, NEW c \in Client,
         \/ owed' = [owed EXCEPT ![c] = @ + 1]
         \/ owed' = [owed EXCEPT ![c] = @ - 1]
  PROVE  owed' \in [Client -> Int]
<1>1. owed \in [Client -> Int]
  BY DEF TypeOK
<1>2. owed[c] + 1 \in Int /\ owed[c] - 1 \in Int
  BY <1>1
<1> QED
  BY <1>1, <1>2

LEMMA WorkType ==
  ASSUME TypeOK, OrderInv, NEW w \in Worker, WorkStep(w)
  PROVE  WorkTypes' /\ UNCHANGED Others /\ \E p \in Place : Onward(w, p)
<1>0. At(Main, "work") \/ At(Main, "send") => que # << >>
  BY DEF TypeOK, OrderInv, ModesApart, WaitInOrder, Handling, At, Busy
<1>p. "select" \in Place /\ "loop" \in Place /\ "messages" \in Place
  BY DEF Place
<1>1. CASE Ignores(w) \/ StopServer(w) \/ Sent(w)
  <2>1. Done(w) /\ (w = Main => que # << >>)
    BY <1>0, <1>1 DEF Ignores, StopServer, Sent
  <2>2. UNCHANGED <<map, open, sendVars, Others>> /\ running' \in BOOLEAN
    BY <1>1 DEF Ignores, StopServer, Sent, TypeOK
  <2> QED
    BY <1>p, <2>1, <2>2, DoneTypes DEF WorkTypes, TypeOK, sendVars
<1>2. CASE Fails(w) \/ WriteNull(w)
  <2>1. Throws(w) /\ UNCHANGED <<sendVars, Others>>
    BY <1>2 DEF Fails, WriteNull
  <2> QED
    BY <1>p, <2>1, ThrowsTypes DEF WorkTypes, TypeOK, sendVars
<1>3. CASE Replies(w)
  <2>1. msg[w] \in Client \X Nat
    BY <1>3 DEF Replies, TypeOK
  <2>2. todo' \in [Worker -> SUBSET Client]
    BY <1>3, <2>1 DEF Replies, TypeOK
  <2>3. Onward(w, "send")
    BY <1>3 DEF Replies, Onward, Place, Busy, TypeOK
  <2> QED
    BY <1>3, <2>2, <2>3 DEF Replies, WorkTypes, TypeOK, sendVars, Place, Busy
<1>4. CASE PrintsAll(w)
  <2>2. todo' \in [Worker -> SUBSET Client]
    BY <1>4 DEF PrintsAll, TypeOK
  <2>3. Onward(w, "send")
    BY <1>4 DEF PrintsAll, Onward, Place, Busy, TypeOK
  <2> QED
    BY <1>4, <2>2, <2>3 DEF PrintsAll, WorkTypes, TypeOK, sendVars, Place, Busy
<1>5. CASE Fill(w)
  <2>1. First(w) \in Client
    BY <1>5, FirstIsTodo DEF Fill, TypeOK
  <2>2. /\ wbuf' = [wbuf EXCEPT ![First(w)] = w]
        /\ owed' = [owed EXCEPT ![First(w)] = @ + 1]
        /\ raced' \subseteq raced \cup {First(w)}
        /\ Goes(w, "write") /\ todo[w] # {}
        /\ UNCHANGED <<running, map, open, que, workVars, Others>>
    BY <1>5 DEF Fill
  <2>3. Onward(w, "write")
    BY <2>2 DEF Onward, Place, Busy, workVars
  <2>5. wbuf' \in [Client -> Worker \cup {Null}]
    BY <2>1, <2>2 DEF TypeOK
  <2>6. owed' \in [Client -> Int]
    BY <2>1, <2>2, OwedMoves
  <2>7. raced' \subseteq Client
    BY <2>1, <2>2 DEF TypeOK
  <2>4. WorkTypes'
    BY <2>2, <2>5, <2>6, <2>7 DEF WorkTypes, TypeOK, workVars
  <2> QED
    BY <2>2, <2>3, <2>4 DEF Place, Busy
<1>6. CASE Write(w)
  <2>0. todo[w] # {}
    BY <1>6 DEF Write, TypeOK
  <2>1. First(w) \in Client
    BY <2>0, FirstIsTodo DEF TypeOK
  <2>3. Onward(w, "forget")
    BY <1>6, <2>0 DEF Write, Onward, Place, Busy, workVars
  <2>5. owed' \in [Client -> Int]
    BY <1>6, <2>1, OwedMoves DEF Write
  <2>4. WorkTypes'
    BY <1>6, <2>5 DEF Write, WorkTypes, TypeOK, workVars
  <2> QED
    BY <1>6, <2>3, <2>4 DEF Write, Place, Busy
<1>7. CASE WriteClosed(w)
  <2>1. CASE monitor = w
    <3>1. /\ todo' = [todo EXCEPT ![w] = @ \ {First(w)}]
          /\ Goes(w, "send")
          /\ UNCHANGED <<running, map, open, que, monitor, msg, sendVars, Others>>
      BY <1>7, <2>1 DEF WriteClosed
    <3>2. Onward(w, "send")
      BY <3>1 DEF Onward, Place, Busy, TypeOK
    <3> QED
      BY <3>1, <3>2 DEF WorkTypes, TypeOK, sendVars, Place, Busy
  <2>2. CASE monitor # w
    <3>1. Throws(w) /\ UNCHANGED <<sendVars, Others>>
      BY <1>7, <2>2 DEF WriteClosed
    <3> QED
      BY <1>p, <3>1, ThrowsTypes DEF WorkTypes, TypeOK, sendVars
  <2> QED
    BY <2>1, <2>2
<1>8. CASE Forget(w)
  <2>0. todo[w] # {}
    BY <1>8 DEF Forget, TypeOK
  <2>1. First(w) \in Client
    BY <2>0, FirstIsTodo DEF TypeOK
  <2>2. todo' \in [Worker -> SUBSET Client]
    BY <1>8 DEF Forget, TypeOK
  <2>3. Onward(w, "send")
    BY <1>8 DEF Forget, Onward, Place, Busy, TypeOK
  <2>4. wbuf' \in [Client -> Worker \cup {Null}]
    BY <1>8, <2>1 DEF Forget, TypeOK
  <2> QED
    BY <1>8, <2>2, <2>3, <2>4 DEF Forget, WorkTypes, TypeOK, Place, Busy
<1> QED
  BY <1>1, <1>2, <1>3, <1>4, <1>5, <1>6, <1>7, <1>8 DEF WorkStep

LEMMA TypeStep == TypeOK /\ OrderInv /\ [Next]_vars => TypeOK'
<1> SUFFICES ASSUME TypeOK, OrderInv, [Next]_vars PROVE TypeOK'
  OBVIOUS
<1>2. ASSUME NEW w \in Worker, WorkStep(w) PROVE TypeOK'
  BY <1>2, WorkType, OnwardType
<1>3. CASE Stop
  BY <1>3 DEF Stop, mainVars, Elsewhere, handlerVars, workVars, sendVars, clientVars,
              TypeOK, At
<1>4. CASE UNCHANGED vars
  BY <1>4 DEF vars, mainVars, handlerVars, workVars, sendVars, clientVars, TypeOK, At
<1> QED
  BY <1>2, <1>3, <1>4, ClientType, MainType, HandlerType DEF Next

-----------------------------------------------------------------------------
(* Order.                                                                  *)

LEMMA InitOrder == Init => OrderInv
<1> SUFFICES ASSUME Init PROVE OrderInv
  OBVIOUS
<1>1. Numbered /\ WireFollows /\ Increasing
  BY DEF Init, Numbered, WireFollows, Increasing
<1>2. ModesApart /\ ~Handling
  BY DEF Init, ModesApart, Handling, Busy
<1>3. \A c \in Client : Waits(c) = {} /\ Behind(c) = {}
  BY <1>2 DEF Init, Waits, Behind
<1> QED
  BY <1>1, <1>2, <1>3 DEF OrderInv, WaitInOrder

(* Steps that neither read, take nor finish a message.                     *)
LEMMA OrderKept ==
  ASSUME OrderInv, kind' = kind, que' = que, read' = read, taken' = taken,
         Intact' => Intact, Handling' <=> Handling, WireFollows', ModesApart'
  PROVE  OrderInv'
<1>1. Numbered' /\ Increasing'
  BY DEF OrderInv, Numbered, Increasing
<1>2. \A c \in Client : Waits(c)' = Waits(c) /\ Behind(c)' = Behind(c)
  BY DEF Waits, Behind
<1>3. WaitInOrder'
  BY <1>2 DEF OrderInv, WaitInOrder
<1> QED
  BY <1>1, <1>3 DEF OrderInv

LEMMA QuietOrder ==
  ASSUME OrderInv, kind' = kind, que' = que, read' = read, taken' = taken,
         sent' = sent, wire' = wire,
         Intact' => Intact, Handling' <=> Handling, ModesApart'
  PROVE  OrderInv'
<1>1. WireFollows'
  BY DEF OrderInv, WireFollows
<1> QED
  BY <1>1, OrderKept

LEMMA ClientOrder == TypeOK /\ OrderInv /\ ClientStep => OrderInv'
<1> SUFFICES ASSUME TypeOK, OrderInv, ClientStep PROVE OrderInv'
  OBVIOUS
<1>0. /\ kind' = kind /\ pc' = pc /\ running' = running /\ hpc' = hpc
      /\ que' = que /\ read' = read /\ taken' = taken
  BY DEF ClientStep, mainVars, handlerVars
<1>1. PICK c \in Client : Connect(c) \/ Say(c) \/ Hangup(c)
  BY DEF ClientStep
<1>2. /\ Intact' <=> Intact
      /\ Handling' <=> Handling
      /\ ModesApart'
  <2>1. ModesApart
    BY DEF OrderInv
  <2> QED
    BY <1>0, <2>1 DEF Intact, Handling, ModesApart
<1>3. CASE Connect(c) \/ Hangup(c)
  <2>1. sent' = sent /\ wire' = wire
    BY <1>3 DEF Connect, Hangup
  <2> QED
    BY <1>0, <1>2, <2>1, QuietOrder
<1>4. CASE Say(c)
  <2>1. PICK l \in Nat : /\ l = Empty \/ l = sent[c] + 1
                         /\ wire' = [wire EXCEPT ![c] = Append(wire[c], l)]
    <3>1. sent[c] \in Nat /\ sent'[c] = sent[c] + 1
      BY <1>4 DEF Say, TypeOK
    <3>2. PICK l \in {Empty, sent'[c]} : wire' = [wire EXCEPT ![c] = Append(wire[c], l)]
      BY <1>4 DEF Say
    <3>3. l \in Nat /\ (l = Empty \/ l = sent[c] + 1)
      BY <3>1 DEF Empty
    <3> QED
      BY <3>2, <3>3
  <2>2. sent' = [sent EXCEPT ![c] = sent[c] + 1]
    BY <1>4 DEF Say
  <2>3. ASSUME Intact PROVE WireFollows'
    <3>1. wire[c] \in Seq(Nat) /\ sent[c] \in Nat /\ Len(read[c]) \in Nat
      BY DEF TypeOK
    <3>2. /\ sent[c] = Len(read[c]) + Len(wire[c])
          /\ \A i \in DOMAIN wire[c] : wire[c][i] \in {Empty, Len(read[c]) + i}
      BY <2>3 DEF OrderInv, WireFollows
    <3>3. /\ sent'[c] = Len(read[c]) + Len(wire'[c])
          /\ \A i \in DOMAIN wire'[c] : wire'[c][i] \in {Empty, Len(read[c]) + i}
      <4>1. wire'[c] = Append(wire[c], l) /\ sent'[c] = sent[c] + 1
        BY <2>1, <2>2 DEF TypeOK
      <4>2. /\ Len(wire'[c]) = Len(wire[c]) + 1 /\ DOMAIN wire'[c] = 1 .. Len(wire[c]) + 1
            /\ \A i \in 1 .. Len(wire[c]) : wire'[c][i] = wire[c][i]
            /\ wire'[c][Len(wire[c]) + 1] = l /\ DOMAIN wire[c] = 1 .. Len(wire[c])
        BY <3>1, <4>1
      <4>a. Len(wire[c]) \in Nat /\ sent[c] = Len(read[c]) + Len(wire[c])
        BY <3>1, <3>2, LenProperties
      <4>b. PICK q \in Nat, r \in Nat, n \in Nat :
              q = sent[c] /\ r = Len(read[c]) /\ n = Len(wire[c])
        BY <3>1, <4>a
      <4>c. q = r + n
        BY <4>a, <4>b
      <4>d. q + 1 = r + (n + 1)
        BY <4>c
      <4>3. sent'[c] = Len(read[c]) + Len(wire'[c])
        <5>1. sent'[c] = sent[c] + 1
          BY <4>1
        <5>2. Len(wire'[c]) = n + 1
          BY <4>b, <4>2
        <5>3. sent'[c] = r + (n + 1)
          BY <4>b, <4>d, <5>1
        <5> QED
          BY <4>b, <5>2, <5>3
      <4>4. ASSUME NEW i \in DOMAIN wire'[c]
            PROVE  wire'[c][i] \in {Empty, Len(read[c]) + i}
        <5>1. CASE i \in 1 .. Len(wire[c])
          BY <3>2, <4>2, <5>1
        <5>2. CASE i = Len(wire[c]) + 1
          <6>1. sent[c] + 1 = Len(read[c]) + i
            <7>1. i = n + 1
              BY <4>b, <5>2
            <7>2. sent[c] + 1 = r + (n + 1)
              BY <4>b, <4>d
            <7> QED
              BY <4>b, <7>1, <7>2
          <6> QED
            BY <2>1, <4>2, <5>2, <6>1
        <5> QED
          BY <3>1, <4>2, <5>1, <5>2
      <4> QED
        BY <4>3, <4>4
    <3>4. ASSUME NEW d \in Client, d # c PROVE sent'[d] = sent[d] /\ wire'[d] = wire[d]
      BY <2>1, <2>2, <3>4 DEF TypeOK
    <3> QED
      BY <1>0, <2>3, <3>3, <3>4 DEF WireFollows, OrderInv
  <2>4. WireFollows'
    <3>1. CASE Intact
      BY <2>3, <3>1
    <3>2. CASE ~Intact
      BY <1>2, <3>2 DEF WireFollows
    <3> QED
      BY <3>1, <3>2
  <2> QED
    BY <1>0, <1>2, <2>4, OrderKept
<1> QED
  BY <1>1, <1>3, <1>4

(* Messages are read: lines n of a client behind those that wait.          *)
LEMMA WaitsGrow ==
  ASSUME TypeOK, NEW c \in Client, NEW n \in Nat, NEW ms \in Seq(Client \X Nat), NEW r \in Nat,
         Len(ms) = n, \A i \in 1 .. n : ms[i] = <<c, r + i>>, que' = que \o ms
  PROVE  /\ Waits(c)' = Waits(c) \cup (r + 1 .. r + n)
         /\ \A d \in Client \ {c} : Waits(d)' = Waits(d)
<1>1. que \in Seq(Client \X Nat)
  BY DEF TypeOK
<1>a. /\ Len(que \o ms) = Len(que) + n /\ que \o ms \in Seq(Client \X Nat)
      /\ \A i \in 1 .. Len(que) + n :
           (que \o ms)[i] = IF i <= Len(que) THEN que[i] ELSE ms[i - Len(que)]
  BY <1>1, ConcatProperties
<1>2. /\ DOMAIN que' = 1 .. Len(que) + n /\ DOMAIN que = 1 .. Len(que) /\ Len(que) \in Nat
      /\ \A i \in 1 .. Len(que) : que'[i] = que[i]
      /\ \A i \in 1 .. n : que'[Len(que) + i] = <<c, r + i>>
  <2>1. DOMAIN que' = 1 .. Len(que) + n /\ DOMAIN que = 1 .. Len(que) /\ Len(que) \in Nat
    BY <1>1, <1>a, LenProperties
  <2>2. ASSUME NEW i \in 1 .. Len(que) PROVE que'[i] = que[i]
    BY <1>a, <2>1
  <2>3. ASSUME NEW i \in 1 .. n PROVE que'[Len(que) + i] = <<c, r + i>>
    <3>1. Len(que) + i \in 1 .. Len(que) + n /\ ~(Len(que) + i <= Len(que)) /\ Len(que) + i - Len(que) = i
      BY <2>1
    <3> QED
      BY <1>a, <3>1
  <2> QED
    BY <2>1, <2>2, <2>3
<1>3. ASSUME NEW d \in Client, NEW x
      PROVE  x \in Waits(d)' <=> x \in Waits(d) \/ (d = c /\ x \in r + 1 .. r + n)
  <2>1. ASSUME x \in Waits(d) PROVE x \in Waits(d)'
    BY <1>2, <2>1 DEF Waits
  <2>2. ASSUME d = c, x \in r + 1 .. r + n PROVE x \in Waits(d)'
    <3>1. x - r \in 1 .. n /\ Len(que) + (x - r) \in DOMAIN que'
      BY <1>2, <2>2
    <3>2. que'[Len(que) + (x - r)] = <<c, r + (x - r)>>
      BY <1>2, <3>1
    <3>3. r + (x - r) = x
      BY <2>2
    <3>4. PICK i \in DOMAIN que' : que'[i] = <<c, x>>
      BY <3>1, <3>2, <3>3
    <3>5. que'[i][1] = d /\ que'[i][2] = x
      BY <2>2, <3>4
    <3> QED
      BY <3>5 DEF Waits
  <2>3. ASSUME x \in Waits(d)' PROVE x \in Waits(d) \/ (d = c /\ x \in r + 1 .. r + n)
    <3>1. PICK i \in DOMAIN que' : que'[i][1] = d /\ x = que'[i][2]
      BY <2>3 DEF Waits
    <3>2. CASE i \in 1 .. Len(que)
      BY <1>2, <3>1, <3>2 DEF Waits
    <3>3. CASE i \notin 1 .. Len(que)
      <4>1. i - Len(que) \in 1 .. n /\ i = Len(que) + (i - Len(que))
        BY <1>2, <3>3
      <4>2. que'[i] = <<c, r + (i - Len(que))>>
        BY <1>2, <4>1
      <4> QED
        BY <3>1, <4>1, <4>2
    <3> QED
      BY <3>2, <3>3
  <2> QED
    BY <2>1, <2>2, <2>3
<1>4. Waits(c)' = Waits(c) \cup (r + 1 .. r + n)
  BY <1>3
<1>5. ASSUME NEW d \in Client \ {c} PROVE Waits(d)' = Waits(d)
  BY <1>3
<1> QED
  BY <1>4, <1>5

LEMMA WaitsShrink ==
  ASSUME TypeOK, Increasing, que # << >>, que' = Tail(que)
  PROVE  /\ Increasing'
         /\ \A c \in Client : Waits(c)' = IF que[1][1] = c THEN Waits(c) \ {que[1][2]}
                                                           ELSE Waits(c)
<1>1. que \in Seq(Client \X Nat)
  BY DEF TypeOK
<1>2. /\ DOMAIN que' = 1 .. Len(que) - 1 /\ DOMAIN que = 1 .. Len(que) /\ Len(que) \in Nat \ {0}
      /\ \A i \in 1 .. Len(que) - 1 : que'[i] = que[i + 1]
  BY <1>1, HeadTailProperties
<1>3. Increasing'
  BY <1>2 DEF Increasing
<1>4. ASSUME NEW c \in Client, NEW x
      PROVE  x \in Waits(c)' <=> x \in Waits(c) /\ ~(que[1][1] = c /\ x = que[1][2])
  <2>1. ASSUME x \in Waits(c)' PROVE x \in Waits(c) /\ ~(que[1][1] = c /\ x = que[1][2])
    <3>1. PICK i \in DOMAIN que' : que'[i][1] = c /\ x = que'[i][2]
      BY <2>1 DEF Waits
    <3>2. i + 1 \in DOMAIN que /\ que[i + 1] = que'[i] /\ i + 1 > 1 /\ 1 \in DOMAIN que
      BY <1>2, <3>1
    <3>3. x \in Waits(c)
      BY <3>1, <3>2 DEF Waits
    <3>4. que[1][2] \in Nat /\ x \in Nat
      BY <1>1, <3>1, <3>2
    <3> QED
      BY <3>1, <3>2, <3>3, <3>4 DEF Increasing
  <2>2. ASSUME x \in Waits(c), ~(que[1][1] = c /\ x = que[1][2]) PROVE x \in Waits(c)'
    <3>1. PICK i \in DOMAIN que : que[i][1] = c /\ x = que[i][2]
      BY <2>2 DEF Waits
    <3>2. i - 1 \in DOMAIN que' /\ que'[i - 1] = que[i]
      <4>1. i # 1
        BY <2>2, <3>1
      <4> QED
        BY <1>2, <3>1, <4>1
    <3> QED
      BY <3>1, <3>2 DEF Waits
  <2> QED
    BY <2>1, <2>2
<1>5. ASSUME NEW c \in Client
      PROVE  Waits(c)' = IF que[1][1] = c THEN Waits(c) \ {que[1][2]} ELSE Waits(c)
  BY <1>4
<1> QED
  BY <1>3, <1>5

(* The message in front is the first of its client's.                      *)
LEMMA FrontIsNext ==
  ASSUME TypeOK, Increasing, que # << >>,
         NEW a \in Nat, NEW b \in Nat, Waits(que[1][1]) = a .. b
  PROVE  que[1] \in Client \X Nat /\ que[1] = Head(que) /\ que[1][2] = a /\ a <= b
<1>1. que \in Seq(Client \X Nat)
  BY DEF TypeOK
<1>2. 1 \in DOMAIN que /\ que[1] \in Client \X Nat /\ que[1] = Head(que)
  BY <1>1
<1>3. que[1][2] \in a .. b
  BY <1>2 DEF Waits
<1>4. PICK j \in DOMAIN que : que[j][1] = que[1][1] /\ a = que[j][2]
  <2>1. a \in Waits(que[1][1])
    BY <1>3
  <2> QED
    BY <2>1 DEF Waits
<1>5. j \in Nat /\ j >= 1 /\ (1 < j => que[1][2] < que[j][2])
  BY <1>1, <1>2, <1>4 DEF Increasing
<1> QED
  BY <1>2, <1>3, <1>4, <1>5

(* Lines read are numbered on.                                             *)
LEMMA ReadOrder ==
  ASSUME TypeOK, OrderInv, NEW k \in 1 .. MaxLines, ReadLines(k) \/ ReadEmpty(k)
  PROVE  OrderInv'
<1>1. PICK n \in {k, k - 1} :
        /\ que' = que \o Msgs(key, n)
        /\ read' = [read EXCEPT ![key] = @ \o SubSeq(wire[key], 1, n)]
        /\ \A i \in 1 .. n : wire[key][i] # Empty
        /\ (n = k /\ pc' = "keys") \/ (pc' = "select" /\ running' = FALSE)
  BY DEF ReadLines, ReadEmpty, Breaks
<1>2. /\ key \in Client /\ pc = "key" /\ k \in 1 .. Len(wire[key])
      /\ kind' = kind /\ taken' = taken /\ hpc' = hpc /\ sent' = sent
      /\ wire' = [wire EXCEPT ![key] = SubSeq(wire[key], k + 1, Len(wire[key]))]
  BY DEF ReadLines, ReadEmpty, TypeOK, handlerVars
<1>3. PICK c \in Client : c = key
  BY <1>2
<1>4. wire[c] \in Seq(Nat) /\ read[c] \in Seq(Nat)
  BY DEF TypeOK
<1>5. PICK r \in Nat, m \in Nat : r = Len(read[c]) /\ m = Len(wire[c])
  BY <1>4, LenProperties
<1>6. k \in 1 .. m /\ n \in 0 .. m /\ n \in Nat /\ k \in Nat /\ n <= k
  BY <1>1, <1>2, <1>3, <1>5
<1>7. Intact /\ ~Handling
  BY <1>2 DEF Intact, Handling, Busy
<1>8. \A i \in 1 .. m : wire[c][i] \in {Empty, r + i}
  <2>1. \A i \in DOMAIN wire[c] : wire[c][i] \in {Empty, Len(read[c]) + i}
    BY <1>7 DEF OrderInv, WireFollows
  <2>2. DOMAIN wire[c] = 1 .. m
    BY <1>4, <1>5, LenProperties
  <2> QED
    BY <1>5, <2>1, <2>2
<1>9. \A i \in 1 .. n : wire[c][i] = r + i
  BY <1>1, <1>3, <1>6, <1>8
<1>a. Msgs(c, n) \in Seq(Client \X Nat) /\ Len(Msgs(c, n)) = n
       /\ \A i \in 1 .. n : Msgs(c, n)[i] = <<c, r + i>>
  BY <1>6, <1>9 DEF Msgs
<1>10. PICK ms \in Seq(Client \X Nat) :
         que' = que \o ms /\ Len(ms) = n /\ \A i \in 1 .. n : ms[i] = <<c, r + i>>
  BY <1>1, <1>3, <1>a
<1>11. /\ Waits(c)' = Waits(c) \cup (r + 1 .. r + n)
       /\ \A d \in Client \ {c} : Waits(d)' = Waits(d)
  BY <1>6, <1>10, WaitsGrow
<1>12. PICK ls \in Seq(Nat) : /\ ls = SubSeq(wire[c], 1, n) /\ Len(ls) = n
                              /\ \A i \in 1 .. n : ls[i] = wire[c][i]
  <2>1. PICK ls : ls = SubSeq(wire[c], 1, n)
    OBVIOUS
  <2>3. ls \in Seq(Nat) /\ Len(ls) = n - 0 /\ \A i \in 1 .. n - 0 : ls[i] = wire[c][0 + i]
    <3>1. 0 + 1 = 1 /\ 0 \in Nat /\ 0 <= n /\ n <= Len(wire[c])
      BY <1>5, <1>6
    <3> QED
      BY <1>4, <1>6, <2>1, <3>1, Part
  <2>4. n - 0 = n /\ \A i \in 1 .. n : 0 + i = i
    BY <1>6
  <2> QED
    BY <2>1, <2>3, <2>4
<1>13. read'[c] = read[c] \o ls /\ \A d \in Client \ {c} : read'[d] = read[d]
  BY <1>1, <1>3, <1>12 DEF TypeOK
<1>14. /\ read'[c] \in Seq(Nat) /\ Len(read'[c]) = r + n /\ DOMAIN read'[c] = 1 .. r + n
       /\ \A i \in 1 .. r : read'[c][i] = read[c][i]
       /\ \A i \in 1 .. n : read'[c][r + i] = ls[i]
  <2>1. /\ read[c] \o ls \in Seq(Nat) /\ Len(read[c] \o ls) = Len(read[c]) + Len(ls)
        /\ DOMAIN (read[c] \o ls) = 1 .. Len(read[c]) + Len(ls)
        /\ \A i \in 1 .. Len(read[c]) : (read[c] \o ls)[i] = read[c][i]
        /\ \A i \in 1 .. Len(ls) : (read[c] \o ls)[Len(read[c]) + i] = ls[i]
    BY <1>4, Joined
  <2>2. Len(ls) = n /\ Len(read[c]) = r /\ read'[c] = read[c] \o ls
    BY <1>5, <1>12, <1>13
  <2> QED
    BY <2>1, <2>2
<1>15. Numbered'
  <2>1. ASSUME NEW i \in DOMAIN read'[c] PROVE read'[c][i] = i
    <3>1. i \in 1 .. r + n
      BY <1>14
    <3>2. CASE i <= r
      <4>1. i \in DOMAIN read[c]
        BY <1>4, <1>5, <3>1, <3>2, LenProperties
      <4>2. read[c][i] = i
        BY <4>1 DEF OrderInv, Numbered
      <4> QED
        BY <1>14, <3>1, <3>2, <4>2
    <3>3. CASE ~(i <= r)
      <4>1. i - r \in 1 .. n /\ r + (i - r) = i
        BY <3>1, <3>3
      <4> QED
        BY <1>9, <1>12, <1>14, <4>1
    <3> QED
      BY <3>2, <3>3
  <2>2. Len(taken[c]) <= Len(read'[c])
    <3>1. PICK t \in Nat : t = Len(taken[c])
      BY LenProperties DEF TypeOK
    <3>2. t <= r
      BY <1>5, <3>1 DEF OrderInv, Numbered
    <3> QED
      BY <1>6, <1>14, <3>1, <3>2
  <2> QED
    BY <1>2, <1>13, <2>1, <2>2 DEF OrderInv, Numbered
<1>16. \A d \in Client : Waits(d) = Len(taken[d]) + 1 .. Len(read[d])
  BY <1>7 DEF OrderInv, WaitInOrder, Behind
<1>17. Increasing'
  <2>1. que \in Seq(Client \X Nat)
    BY DEF TypeOK
  <2>2. PICK q \in Nat : q = Len(que)
    BY <2>1, LenProperties
  <2>3. /\ DOMAIN que' = 1 .. q + n /\ DOMAIN que = 1 .. q
        /\ \A i \in 1 .. q : que'[i] = que[i]
        /\ \A i \in 1 .. n : que'[q + i] = ms[i]
    <3>1. /\ DOMAIN (que \o ms) = 1 .. Len(que) + Len(ms)
          /\ \A i \in 1 .. Len(que) : (que \o ms)[i] = que[i]
          /\ \A i \in 1 .. Len(ms) : (que \o ms)[Len(que) + i] = ms[i]
      BY <2>1, Joined
    <3>2. Len(ms) = n /\ Len(que) = q /\ que' = que \o ms
      BY <1>10, <2>2
    <3>3. DOMAIN que = 1 .. q
      BY <2>1, <2>2, LenProperties
    <3> QED
      BY <3>1, <3>2, <3>3
  <2>4. ASSUME NEW i \in DOMAIN que', NEW j \in DOMAIN que', i < j, que'[i][1] = que'[j][1]
        PROVE  que'[i][2] < que'[j][2]
    <3>0. i \in 1 .. q + n /\ j \in 1 .. q + n
      BY <2>3
    <3>1. CASE j <= q
      <4>1. i \in DOMAIN que /\ j \in DOMAIN que /\ que'[i] = que[i] /\ que'[j] = que[j]
        BY <2>3, <2>4, <3>0, <3>1
      <4> QED
        BY <2>4, <4>1 DEF OrderInv, Increasing
    <3>2. CASE i <= q /\ ~(j <= q)
      <4>a. j - q \in 1 .. n /\ j = q + (j - q)
        BY <3>0, <3>2
      <4>1. j - q \in 1 .. n /\ que'[j] = <<c, r + (j - q)>>
        BY <1>10, <2>3, <4>a
      <4>2. que'[i] = que[i] /\ i \in DOMAIN que /\ que[i][1] = c
        BY <2>3, <2>4, <3>0, <3>2, <4>1
      <4>3. que[i][2] \in Waits(c)
        BY <4>2 DEF Waits
      <4>4. PICK t \in Nat : t = Len(taken[c])
        BY LenProperties DEF TypeOK
      <4>5. que[i][2] \in t + 1 .. r
        BY <1>5, <1>16, <4>3, <4>4
      <4>6. que'[j][2] = r + (j - q)
        BY <4>1
      <4> QED
        BY <4>1, <4>2, <4>5, <4>6
    <3>3. CASE ~(i <= q) /\ ~(j <= q)
      <4>a. /\ j - q \in 1 .. n /\ j = q + (j - q)
            /\ i - q \in 1 .. n /\ i = q + (i - q) /\ i - q < j - q
        BY <2>4, <3>0, <3>3
      <4>b. que'[j] = ms[j - q] /\ que'[i] = ms[i - q]
        BY <2>3, <4>a
      <4>1. /\ j - q \in 1 .. n /\ i - q \in 1 .. n /\ i - q < j - q
            /\ que'[j] = <<c, r + (j - q)>> /\ que'[i] = <<c, r + (i - q)>>
        BY <1>10, <4>a, <4>b
      <4>2. que'[j][2] = r + (j - q) /\ que'[i][2] = r + (i - q)
        BY <4>1
      <4> QED
        BY <4>1, <4>2
    <3> QED
      BY <2>2, <2>3, <2>4, <3>1, <3>2, <3>3
  <2> QED
    BY <2>4 DEF Increasing
<1>18. ~Handling' /\ ModesApart'
  BY <1>1, <1>2 DEF Handling, Busy, ModesApart, OrderInv
<1>19. WaitInOrder'
  <2>1. ASSUME NEW d \in Client PROVE Waits(d)' = Behind(d)'
    <3>1. Behind(d)' = Len(taken[d]) + 1 .. Len(read'[d])
      BY <1>2, <1>18 DEF Behind
    <3>2. CASE d = c
      <4>1. PICK t \in Nat : t = Len(taken[c])
        BY LenProperties DEF TypeOK
      <4>2. t <= r
        BY <1>5, <4>1 DEF OrderInv, Numbered
      <4>3. Waits(c)' = (t + 1 .. r) \cup (r + 1 .. r + n)
        BY <1>5, <1>11, <1>16, <4>1
      <4>4. (t + 1 .. r) \cup (r + 1 .. r + n) = t + 1 .. r + n
        BY <1>6, <4>2
      <4> QED
        BY <1>14, <3>1, <3>2, <4>1, <4>3, <4>4
    <3>3. CASE d # c
      BY <1>11, <1>13, <1>16, <3>1, <3>3
    <3> QED
      BY <3>2, <3>3
  <2> QED
    BY <1>18, <2>1 DEF WaitInOrder
<1>20. WireFollows'
  <2> SUFFICES ASSUME Intact' PROVE WireFollows'
    BY DEF WireFollows
  <2>1. n = k
    BY <1>1 DEF Intact
  <2>2. wire'[c] = SubSeq(wire[c], k + 1, m) /\ \A d \in Client \ {c} : wire'[d] = wire[d]
    BY <1>2, <1>3, <1>5 DEF TypeOK
  <2>3. /\ wire'[c] \in Seq(Nat) /\ Len(wire'[c]) = m - k
        /\ \A i \in 1 .. m - k : wire'[c][i] = wire[c][k + i]
    <3>1. k \in Nat /\ m \in Nat /\ k <= m /\ m <= Len(wire[c])
      BY <1>5, <1>6
    <3>2. /\ SubSeq(wire[c], k + 1, m) \in Seq(Nat) /\ Len(SubSeq(wire[c], k + 1, m)) = m - k
          /\ \A i \in 1 .. m - k : SubSeq(wire[c], k + 1, m)[i] = wire[c][k + i]
      BY <1>4, <3>1, Part
    <3> QED
      BY <2>2, <3>2
  <2>4. PICK s \in Nat : s = sent[c]
    BY DEF TypeOK
  <2>5. s = r + m
    BY <1>5, <1>7, <2>4 DEF OrderInv, WireFollows
  <2>6. s = (r + n) + (m - k)
    BY <1>6, <2>1, <2>5
  <2>7. ASSUME NEW i \in 1 .. m - k PROVE wire'[c][i] \in {Empty, (r + n) + i}
    <3>1. k + i \in 1 .. m /\ r + (k + i) = (r + n) + i
      BY <1>6, <2>1
    <3> QED
      BY <1>8, <2>3, <3>1
  <2>8. DOMAIN wire'[c] = 1 .. m - k
    BY <2>3, LenProperties
  <2>9. /\ sent'[c] = Len(read'[c]) + Len(wire'[c])
        /\ \A i \in DOMAIN wire'[c] : wire'[c][i] \in {Empty, Len(read'[c]) + i}
    BY <1>2, <1>14, <2>3, <2>4, <2>6, <2>7, <2>8
  <2> QED
    BY <1>2, <1>7, <1>13, <2>2, <2>9 DEF OrderInv, WireFollows
<1> QED
  BY <1>15, <1>17, <1>18, <1>19, <1>20 DEF OrderInv

(* A message is begun: it is the next line of its client.                  *)
LEMMA BeginsOrder ==
  ASSUME TypeOK, OrderInv, NEW w, Begins(w), que # << >>, ~Handling, read' = read,
         kind = "pool" \/ Intact
  PROVE  /\ Numbered'
         /\ que[1] \in Client \X Nat
         /\ que[1][2] = Len(taken'[que[1][1]])
         /\ Len(taken'[que[1][1]]) = Len(taken[que[1][1]]) + 1
         /\ \A d \in Client : d # que[1][1] => taken'[d] = taken[d]
<1>0. que \in Seq(Client \X Nat) /\ que[1] \in Client \X Nat /\ que[1] = Head(que)
  BY DEF TypeOK
<1>1. PICK c \in Client, x \in Nat : que[1] = <<c, x>> /\ Head(que) = <<c, x>>
  BY <1>0
<1>2. PICK t \in Nat, r \in Nat : t = Len(taken[c]) /\ r = Len(read[c])
  BY LenProperties DEF TypeOK
<1>3. Waits(c) = t + 1 .. r
  BY <1>2 DEF OrderInv, WaitInOrder, Behind
<1>4. x = t + 1 /\ x <= r
  <2>1. que[1][1] = c /\ que[1][2] = x
    BY <1>1
  <2>2. PICK a \in Nat : a = t + 1
    OBVIOUS
  <2>3. Increasing /\ Waits(que[1][1]) = a .. r
    BY <1>3, <2>1, <2>2 DEF OrderInv
  <2>4. que[1][2] = a /\ a <= r
    BY <2>3, FrontIsNext
  <2> QED
    BY <2>1, <2>2, <2>4
<1>5. taken' = [taken EXCEPT ![c] = Append(taken[c], x)]
  <2>1. Head(que)[1] = c /\ Head(que)[2] = x
    BY <1>1
  <2>2. taken' = [taken EXCEPT ![Head(que)[1]] = Append(taken[Head(que)[1]], Head(que)[2])]
    BY DEF Begins
  <2> QED
    BY <2>1, <2>2
<1>6. taken[c] \in Seq(Nat) /\ taken'[c] = Append(taken[c], x)
  BY <1>5 DEF TypeOK
<1>7. /\ Len(taken'[c]) = t + 1 /\ DOMAIN taken'[c] = 1 .. t + 1
      /\ \A i \in 1 .. t : taken'[c][i] = taken[c][i]
      /\ taken'[c][t + 1] = x
  BY <1>2, <1>6
<1>8. \A d \in Client : d # c => taken'[d] = taken[d]
  BY <1>5 DEF TypeOK
<1>9. \A i \in DOMAIN taken'[c] : taken'[c][i] = i
  <2>1. \A i \in 1 .. t : taken[c][i] = i
    <3>1. DOMAIN taken[c] = 1 .. t
      BY <1>2, <1>6, LenProperties
    <3> QED
      BY <3>1 DEF OrderInv, Numbered
  <2> QED
    BY <1>4, <1>7, <2>1
<1>10. Numbered'
  BY <1>2, <1>4, <1>7, <1>8, <1>9 DEF OrderInv, Numbered
<1> QED
  BY <1>0, <1>1, <1>2, <1>4, <1>7, <1>8, <1>10

LEMMA TakeFirstOrder == TypeOK /\ OrderInv /\ TakeFirst => OrderInv'
<1> SUFFICES ASSUME TypeOK, OrderInv, TakeFirst PROVE OrderInv'
  OBVIOUS
<1>1. /\ pc = "messages" /\ pc' = "work" /\ que # << >> /\ Begins(Main)
      /\ kind' = kind /\ running' = running /\ que' = que /\ read' = read /\ hpc' = hpc
      /\ sent' = sent /\ wire' = wire
  BY DEF TakeFirst, handlerVars, clientVars
<1>2. kind = "single" /\ Intact /\ ~Handling /\ Intact' /\ Handling'
  BY <1>1 DEF OrderInv, ModesApart, TypeOK, Intact, Handling, Busy
<1>3. /\ Numbered' /\ que[1][2] = Len(taken'[que[1][1]])
      /\ que[1] \in Client \X Nat
      /\ Len(taken'[que[1][1]]) = Len(taken[que[1][1]]) + 1
      /\ \A d \in Client : d # que[1][1] => taken'[d] = taken[d]
  BY <1>1, <1>2, BeginsOrder
<1>4. ASSUME NEW c \in Client PROVE Waits(c)' = Behind(c)'
  <2>1. Waits(c)' = Len(taken[c]) + 1 .. Len(read[c])
    BY <1>1, <1>2 DEF OrderInv, WaitInOrder, Waits, Behind
  <2>2. CASE que[1][1] = c
    <3>1. Behind(c)' = Len(taken'[c]) .. Len(read[c])
      BY <1>1, <1>2, <2>2 DEF Behind
    <3> QED
      BY <1>3, <2>1, <2>2, <3>1
  <2>3. CASE que[1][1] # c
    <3>1. Behind(c)' = Len(taken'[c]) + 1 .. Len(read[c])
      BY <1>1, <1>2, <2>3 DEF Behind
    <3>2. taken'[c] = taken[c]
      BY <1>3, <2>3
    <3> QED
      BY <2>1, <3>1, <3>2
  <2> QED
    BY <2>2, <2>3
<1>5. WaitInOrder'
  BY <1>1, <1>2, <1>3, <1>4 DEF WaitInOrder
<1>6. WireFollows' /\ Increasing' /\ ModesApart'
  BY <1>1, <1>2 DEF OrderInv, WireFollows, Increasing, ModesApart
<1> QED
  BY <1>3, <1>5, <1>6 DEF OrderInv

LEMMA TakeMessageOrder ==
  ASSUME TypeOK, OrderInv, NEW h \in Pool, TakeMessage(h)
  PROVE  OrderInv'
<1>1. /\ hpc[h] = "loop" /\ que # << >> /\ Begins(h) /\ que' = Tail(que)
      /\ kind' = kind /\ pc' = pc /\ running' = running /\ read' = read
      /\ sent' = sent /\ wire' = wire
  BY DEF TakeMessage, mainVars, clientVars
<1>2. kind = "pool" /\ ~Handling /\ ~Handling' /\ (Intact' <=> Intact) /\ ModesApart'
  BY <1>1 DEF OrderInv, ModesApart, TypeOK, Intact, Handling, Busy
<1>3. /\ Numbered' /\ que[1][2] = Len(taken'[que[1][1]])
      /\ que[1] \in Client \X Nat
      /\ Len(taken'[que[1][1]]) = Len(taken[que[1][1]]) + 1
      /\ \A d \in Client : d # que[1][1] => taken'[d] = taken[d]
  BY <1>1, <1>2, BeginsOrder
<1>4. /\ Increasing'
      /\ \A c \in Client : Waits(c)' = IF que[1][1] = c THEN Waits(c) \ {que[1][2]}
                                                        ELSE Waits(c)
  BY <1>1, WaitsShrink DEF OrderInv
<1>5. ASSUME NEW c \in Client PROVE Waits(c)' = Behind(c)'
  <2>1. Waits(c) = Len(taken[c]) + 1 .. Len(read[c])
    BY <1>2 DEF OrderInv, WaitInOrder, Behind
  <2>2. Behind(c)' = Len(taken'[c]) + 1 .. Len(read[c])
    BY <1>1, <1>2 DEF Behind
  <2>3. CASE que[1][1] = c
    <3>1. PICK t \in Nat, r \in Nat : t = Len(taken[c]) /\ r = Len(read[c])
      BY LenProperties DEF TypeOK
    <3>2. que[1][2] = t + 1 /\ Len(taken'[c]) = t + 1
      BY <1>3, <2>3, <3>1
    <3>3. Waits(c)' = (t + 1 .. r) \ {t + 1}
      BY <1>4, <2>1, <2>3, <3>1, <3>2
    <3>4. Behind(c)' = (t + 1) + 1 .. r
      BY <2>2, <3>1, <3>2
    <3> QED
      BY <3>3, <3>4
  <2>4. CASE que[1][1] # c
    BY <1>3, <1>4, <2>1, <2>2, <2>4
  <2> QED
    BY <2>3, <2>4
<1>6. WaitInOrder'
  BY <1>2, <1>5 DEF WaitInOrder
<1>7. WireFollows'
  BY <1>1, <1>2 DEF OrderInv, WireFollows
<1> QED
  BY <1>2, <1>3, <1>4, <1>6, <1>7 DEF OrderInv

(* processMessages() takes the message off that it has handled.            *)
LEMMA DoneOrder ==
  ASSUME TypeOK, OrderInv, Handling, pc' = "messages", que' = Tail(que),
         kind' = kind, read' = read, taken' = taken, sent' = sent, wire' = wire, hpc' = hpc
  PROVE  OrderInv'
<1>1. que # << >> /\ que[1][2] = Len(taken[que[1][1]])
  BY DEF OrderInv, WaitInOrder
<1>2. kind = "single" /\ Intact /\ ~Handling' /\ Intact' /\ ModesApart'
  BY DEF Handling, Intact, Busy, OrderInv, ModesApart
<1>3. /\ Increasing'
      /\ \A c \in Client : Waits(c)' = IF que[1][1] = c THEN Waits(c) \ {que[1][2]}
                                                        ELSE Waits(c)
  BY <1>1, WaitsShrink DEF OrderInv
<1>4. ASSUME NEW c \in Client PROVE Waits(c)' = Behind(c)'
  <2>1. Waits(c) = Behind(c)
    BY <1>2 DEF OrderInv, WaitInOrder
  <2>2. Behind(c)' = Len(taken[c]) + 1 .. Len(read[c])
    BY <1>2 DEF Behind
  <2>3. CASE que[1][1] = c
    <3>1. PICK t \in Nat, r \in Nat : t = Len(taken[c]) /\ r = Len(read[c])
      BY LenProperties DEF TypeOK
    <3>2. Behind(c) = t .. r /\ que[1][2] = t
      BY <1>1, <2>3, <3>1 DEF Behind
    <3>3. Waits(c)' = (t .. r) \ {t}
      BY <1>3, <2>1, <2>3, <3>2
    <3>4. Behind(c)' = t + 1 .. r
      BY <2>2, <3>1
    <3> QED
      BY <3>3, <3>4
  <2>4. CASE que[1][1] # c
    <3>1. Behind(c) = Len(taken[c]) + 1 .. Len(read[c])
      BY <2>4 DEF Behind
    <3> QED
      BY <1>3, <2>1, <2>2, <2>4, <3>1
  <2> QED
    BY <2>3, <2>4
<1>5. WaitInOrder'
  BY <1>2, <1>4 DEF WaitInOrder
<1>6. Numbered' /\ WireFollows'
  BY <1>2 DEF OrderInv, Numbered, WireFollows
<1> QED
  BY <1>2, <1>3, <1>5, <1>6 DEF OrderInv

LEMMA MainOrder == TypeOK /\ OrderInv /\ MainStep => OrderInv'
<1> SUFFICES ASSUME TypeOK, OrderInv, MainStep PROVE OrderInv'
  OBVIOUS
<1> USE DEF Elsewhere, handlerVars, clientVars
<1>0. ModesApart
  BY DEF OrderInv
<1>1. CASE Run
  <2>1. /\ kind' = kind /\ que' = que /\ read' = read /\ taken' = taken
        /\ sent' = sent /\ wire' = wire
    BY <1>1 DEF Run
  <2>2. /\ Intact' => Intact
        /\ Handling' <=> Handling
        /\ ModesApart'
    BY <1>0, <1>1 DEF Run, Intact, Handling, Busy, ModesApart
  <2> QED
    BY <2>1, <2>2, QuietOrder
<1>2. ASSUME NEW h \in Pool, CreateHandler(h) PROVE OrderInv'
  <2>1. /\ kind' = kind /\ que' = que /\ read' = read /\ taken' = taken
        /\ sent' = sent /\ wire' = wire
    BY <1>2 DEF CreateHandler
  <2>2. /\ Intact' => Intact
        /\ Handling' <=> Handling
        /\ ModesApart'
    BY <1>0, <1>2 DEF CreateHandler, Intact, Handling, Busy, ModesApart, TypeOK
  <2> QED
    BY <2>1, <2>2, QuietOrder
<1>3. CASE Select \/ LoopEnds \/ KeysDone \/ MessagesDone \/ StopHandlers \/ HandlersFinished
  <2> USE <1>3 DEF Select, LoopEnds, KeysDone, MessagesDone, StopHandlers, HandlersFinished
  <2>1. /\ kind' = kind /\ que' = que /\ read' = read /\ taken' = taken
        /\ sent' = sent /\ wire' = wire
    OBVIOUS
  <2>2. Intact' => Intact
    BY DEF Intact
  <2>3. ~Handling' /\ ~Handling
    BY DEF Handling, Busy
  <2>4. ModesApart'
    BY <1>0 DEF ModesApart, Busy, TypeOK
  <2> QED
    BY <2>1, <2>2, <2>3, <2>4, QuietOrder
<1>4. ASSUME NEW c \in Client, Accept(c) \/ CheckKey(c) PROVE OrderInv'
  <2>1. /\ kind' = kind /\ que' = que /\ read' = read /\ taken' = taken
        /\ sent' = sent /\ wire' = wire
    BY <1>4 DEF Accept, CheckKey
  <2>2. /\ Intact' => Intact
        /\ Handling' <=> Handling
        /\ ModesApart'
    BY <1>0, <1>4 DEF Accept, CheckKey, Intact, Handling, Busy, ModesApart
  <2> QED
    BY <2>1, <2>2, QuietOrder
<1>5. CASE KeyCancelled \/ ReadClosed \/ ReadEnd
  <2>1. /\ kind' = kind /\ que' = que /\ read' = read /\ taken' = taken
        /\ sent' = sent /\ wire' = wire
    BY <1>5 DEF KeyCancelled, ReadClosed, ReadEnd
  <2>2. /\ Intact' => Intact
        /\ Handling' <=> Handling
        /\ ModesApart'
    BY <1>0, <1>5 DEF KeyCancelled, ReadClosed, ReadEnd, Breaks, Intact, Handling, Busy,
                      ModesApart
  <2> QED
    BY <2>1, <2>2, QuietOrder
<1> QED
  BY <1>1, <1>2, <1>3, <1>4, <1>5, ReadOrder, TakeFirstOrder DEF MainStep

LEMMA HandlerOrder == TypeOK /\ OrderInv /\ (\E h \in Pool : HandlerStep(h)) => OrderInv'
<1> SUFFICES ASSUME TypeOK, OrderInv, NEW h \in Pool, HandlerStep(h) PROVE OrderInv'
  OBVIOUS
<1>0. ModesApart
  BY DEF OrderInv
<1>1. CASE HandlerBegins(h) \/ HandlerEnds(h)
  <2>1. /\ kind' = kind /\ que' = que /\ read' = read /\ taken' = taken
        /\ sent' = sent /\ wire' = wire
    BY <1>1 DEF HandlerBegins, HandlerEnds, mainVars, clientVars
  <2>2. /\ Intact' <=> Intact
        /\ Handling' <=> Handling
        /\ ModesApart'
    BY <1>0, <1>1 DEF HandlerBegins, HandlerEnds, mainVars, Intact, Handling, ModesApart,
                      TypeOK
  <2> QED
    BY <2>1, <2>2, QuietOrder
<1> QED
  BY <1>1, TakeMessageOrder DEF HandlerStep

(* A handler leaves the queue alone while it works, and so does the thread *)
(* of TelnetServer until it is done.                                       *)
LEMMA WorkOrder == TypeOK /\ OrderInv /\ (\E w \in Worker : WorkStep(w)) => OrderInv'
<1> SUFFICES ASSUME TypeOK, OrderInv, NEW w \in Worker, WorkStep(w) PROVE OrderInv'
  OBVIOUS
<1>0. ModesApart
  BY DEF OrderInv
<1>1. /\ kind' = kind /\ read' = read /\ taken' = taken /\ sent' = sent /\ wire' = wire
      /\ running' = running \/ running' = FALSE
      /\ \/ Done(w)
         \/ Throws(w)
         \/ que' = que /\ \E p \in {"send", "write", "forget"} : Goes(w, p)
  BY DEF WorkStep, Ignores, Fails, StopServer, Replies, PrintsAll, Fill, Write,
         WriteClosed, WriteNull, Forget, Sent, Throws, Others, clientVars
<1>2. \E x \in {"work", "send", "write", "forget"} : At(w, x)
  BY DEF WorkStep, Ignores, Fails, StopServer, Replies, PrintsAll, Fill, Write,
         WriteClosed, WriteNull, Forget, Sent
<1>3. CASE w # Main
  <2>1. w \in Pool /\ kind = "pool"
    BY <1>0, <1>2, <1>3, Workers DEF At, ModesApart, TypeOK
  <2>2. que' = que /\ pc' = pc
    BY <1>1, <1>3 DEF Done, Throws, Goes
  <2>3. Intact' => Intact
    BY <1>1, <2>2 DEF Intact
  <2>4. ~Handling' /\ ~Handling /\ ModesApart'
    BY <1>0, <1>1, <2>1, <2>2 DEF Handling, ModesApart
  <2> QED
    BY <1>1, <2>2, <2>3, <2>4, QuietOrder
<1>4. CASE w = Main
  <2>0. pc \in Busy /\ kind = "single" /\ Handling
    BY <1>0, <1>2, <1>4 DEF At, Busy, ModesApart, TypeOK, Handling
  <2>1. CASE Done(w)
    BY <1>1, <1>4, <2>0, <2>1, DoneOrder DEF Done, Goes
  <2>2. CASE Throws(w)
    <3>1. que' = que /\ running' = FALSE /\ pc' = "select" /\ hpc' = hpc
      BY <1>4, <2>2 DEF Throws, Goes
    <3>2. ~Intact' /\ ~Handling' /\ ModesApart'
      BY <1>0, <1>1, <2>0, <3>1 DEF Intact, Handling, ModesApart, Busy
    <3>3. Numbered' /\ Increasing' /\ WireFollows' /\ WaitInOrder'
      BY <1>1, <2>0, <3>1, <3>2 DEF OrderInv, Numbered, Increasing, WireFollows, WaitInOrder
    <3> QED
      BY <3>2, <3>3 DEF OrderInv
  <2>3. CASE que' = que /\ \E p \in {"send", "write", "forget"} : Goes(w, p)
    <3>1. pc' \in {"send", "write", "forget"} /\ hpc' = hpc
      BY <1>4, <2>3 DEF Goes
    <3>2. /\ Intact' => Intact
          /\ Handling' <=> Handling
          /\ ModesApart'
      BY <1>0, <1>1, <2>0, <3>1 DEF Intact, Handling, ModesApart, Busy
    <3> QED
      BY <1>1, <2>3, <3>2, QuietOrder
  <2> QED
    BY <1>1, <2>1, <2>2, <2>3
<1> QED
  BY <1>3, <1>4

LEMMA OrderStep == TypeOK /\ OrderInv /\ [Next]_vars => OrderInv'
<1> SUFFICES ASSUME TypeOK, OrderInv, [Next]_vars PROVE OrderInv'
  OBVIOUS
<1>1. CASE Stop \/ UNCHANGED vars
  <2>1. /\ kind' = kind /\ que' = que /\ read' = read /\ taken' = taken
        /\ sent' = sent /\ wire' = wire /\ pc' = pc /\ hpc' = hpc
        /\ running' = running \/ running' = FALSE
    BY <1>1 DEF Stop, Elsewhere, mainVars, handlerVars, clientVars, vars
  <2>2. Intact' => Intact
    BY <2>1 DEF Intact
  <2>3. (Handling' <=> Handling) /\ ModesApart'
    BY <2>1 DEF Handling, ModesApart, OrderInv
  <2> QED
    BY <2>1, <2>2, <2>3, QuietOrder
<1> QED
  BY <1>1, ClientOrder, MainOrder, HandlerOrder, WorkOrder DEF Next

LEMMA OrderMeans == OrderInv => BegunInOrder
<1> SUFFICES ASSUME OrderInv PROVE BegunInOrder
  OBVIOUS
<1>1. ASSUME NEW c \in Client, kind = "pool" \/ pc = "messages"
      PROVE  Waits(c) = Len(taken[c]) + 1 .. Len(read[c])
  <2>1. (kind = "pool" \/ Intact) /\ ~Handling
    BY <1>1 DEF Intact, Handling, Busy
  <2> QED
    BY <2>1 DEF OrderInv, WaitInOrder, Behind
<1>2. ASSUME NEW c \in Client, NEW i \in DOMAIN que, NEW j \in DOMAIN que,
             i < j, que[i][1] = c, que[j][1] = c
      PROVE  que[i][2] < que[j][2]
  BY <1>2 DEF OrderInv, Increasing
<1> QED
  BY <1>1, <1>2 DEF OrderInv, Numbered, BegunInOrder

-----------------------------------------------------------------------------
(* Who has not been accepted is nobody's.                                  *)

LEMMA UnmetQuiet ==
  ASSUME UnmetUnknown, peer' = peer, map' \subseteq map, open' \subseteq open, owed' = owed,
         que' = que, todo' = todo, msg' = msg,
         \A w \in Worker : At(w, "work")' => At(w, "work")
  PROVE  UnmetUnknown'
BY DEF UnmetUnknown, Unmet

LEMMA UnmetMain == TypeOK /\ OrderInv /\ UnmetUnknown /\ MainStep => UnmetUnknown'
<1> SUFFICES ASSUME TypeOK, OrderInv, UnmetUnknown, MainStep PROVE UnmetUnknown'
  OBVIOUS
<1> USE DEF Elsewhere, handlerVars, clientVars, workVars, sendVars
<1>1. CASE Run \/ Select \/ LoopEnds \/ KeysDone \/ MessagesDone \/ StopHandlers
           \/ HandlersFinished \/ KeyCancelled \/ ReadClosed \/ ReadEnd
           \/ (\E h \in Pool : CreateHandler(h)) \/ (\E c \in Client : CheckKey(c))
  <2>1. /\ peer' = peer /\ map' \subseteq map /\ open' \subseteq open /\ owed' = owed
        /\ que' = que /\ todo' = todo /\ msg' = msg
    BY <1>1 DEF Run, Select, LoopEnds, KeysDone, MessagesDone, StopHandlers,
                HandlersFinished, KeyCancelled, ReadClosed, ReadEnd, CreateHandler, CheckKey
  <2>2. pc' # "work"
    BY <1>1 DEF Run, Select, LoopEnds, KeysDone, MessagesDone, StopHandlers, TypeOK,
                HandlersFinished, KeyCancelled, ReadClosed, ReadEnd, CreateHandler, CheckKey,
                Breaks
  <2>3. \A h \in Pool : hpc'[h] = "work" => hpc[h] = "work"
    <3>1. CASE \E h \in Pool : CreateHandler(h)
      BY <3>1 DEF CreateHandler, TypeOK
    <3>2. CASE ~\E h \in Pool : CreateHandler(h)
      BY <1>1, <3>2 DEF Run, Select, LoopEnds, KeysDone, MessagesDone, StopHandlers,
                HandlersFinished, KeyCancelled, ReadClosed, ReadEnd, CheckKey
    <3> QED
      BY <3>1, <3>2
  <2>4. \A w \in Worker : At(w, "work")' => At(w, "work")
    BY <2>2, <2>3, Workers DEF At
  <2> QED
    BY <2>1, <2>4, UnmetQuiet
<1>2. ASSUME NEW c \in Client, Accept(c) PROVE UnmetUnknown'
  <2>1. /\ peer' = [peer EXCEPT ![c] = "up"] /\ map' = map \cup {c} /\ open' = open \cup {c}
        /\ owed' = owed /\ que' = que /\ todo' = todo /\ msg' = msg /\ pc' = pc /\ hpc' = hpc
    BY <1>2 DEF Accept
  <2>2. \A d \in Client : Unmet(d)' => Unmet(d) /\ d # c
    BY <2>1 DEF Unmet, TypeOK
  <2>3. \A w \in Worker : At(w, "work")' <=> At(w, "work")
    BY <2>1 DEF At
  <2> QED
    BY <2>1, <2>2, <2>3 DEF UnmetUnknown
<1>3. ASSUME NEW k \in 1 .. MaxLines, ReadLines(k) \/ ReadEmpty(k) PROVE UnmetUnknown'
  <2>1. PICK n \in {k, k - 1} : que' = que \o Msgs(key, n)
    BY <1>3 DEF ReadLines, ReadEmpty
  <2>2. /\ key \in Client /\ key \in open /\ pc = "key" /\ pc' # "work"
        /\ k \in 1 .. Len(wire[key])
        /\ peer' = peer /\ map' = map /\ open' = open /\ owed' = owed /\ todo' = todo
        /\ msg' = msg /\ hpc' = hpc
    BY <1>3 DEF ReadLines, ReadEmpty, Breaks, TypeOK
  <2>3. ~Unmet(key)
    BY <2>2 DEF UnmetUnknown
  <2>4. PICK m \in Nat : m = Len(wire[key]) /\ wire[key] \in Seq(Nat)
    BY <2>2, LenProperties DEF TypeOK
  <2>5. n \in 0 .. m
    BY <2>1, <2>2, <2>4
  <2>6. /\ Msgs(key, n) \in Seq(Client \X Nat) /\ Len(Msgs(key, n)) = n
        /\ \A i \in 1 .. n : Msgs(key, n)[i][1] = key
    BY <2>2, <2>4, <2>5 DEF Msgs
  <2>7. PICK ms \in Seq(Client \X Nat) :
          que' = que \o ms /\ Len(ms) = n /\ \A i \in 1 .. n : ms[i][1] = key
    BY <2>1, <2>6
  <2>8. PICK q \in Nat : q = Len(que) /\ que \in Seq(Client \X Nat)
    BY LenProperties DEF TypeOK
  <2>9. /\ DOMAIN que' = 1 .. q + n /\ DOMAIN que = 1 .. q
        /\ \A i \in 1 .. q : que'[i] = que[i]
        /\ \A i \in 1 .. n : que'[q + i] = ms[i]
    <3>1. /\ DOMAIN (que \o ms) = 1 .. Len(que) + Len(ms)
          /\ \A i \in 1 .. Len(que) : (que \o ms)[i] = que[i]
          /\ \A i \in 1 .. Len(ms) : (que \o ms)[Len(que) + i] = ms[i]
      BY <2>8, Joined
    <3>2. Len(ms) = n /\ Len(que) = q /\ que' = que \o ms
      BY <2>7, <2>8
    <3>3. DOMAIN que = 1 .. q
      BY <2>8, LenProperties
    <3> QED
      BY <3>1, <3>2, <3>3
  <2>10. ASSUME NEW d \in Client, Unmet(d), NEW i \in DOMAIN que' PROVE que'[i][1] # d
    <3>1. CASE i \in 1 .. q
      BY <2>9, <2>10, <3>1 DEF UnmetUnknown
    <3>2. CASE i \notin 1 .. q
      <4>1. i - q \in 1 .. n /\ i = q + (i - q)
        BY <2>5, <2>9, <3>2
      <4>2. que'[i] = ms[i - q]
        BY <2>9, <4>1
      <4> QED
        BY <2>3, <2>7, <2>10, <4>1, <4>2
    <3> QED
      BY <3>1, <3>2
  <2>11. \A w \in Worker : At(w, "work")' => At(w, "work")
    BY <2>2 DEF At
  <2> QED
    BY <2>2, <2>10, <2>11 DEF UnmetUnknown, Unmet
<1>4. CASE TakeFirst
  <2>1. /\ que # << >> /\ msg' = [msg EXCEPT ![Main] = Head(que)]
        /\ peer' = peer /\ map' = map /\ open' = open /\ owed' = owed /\ que' = que
        /\ todo' = todo /\ hpc' = hpc
    BY <1>4 DEF TakeFirst, Begins
  <2>2. 1 \in DOMAIN que /\ Head(que) = que[1]
    BY <2>1 DEF TypeOK
  <2>3. msg'[Main] = que[1] /\ \A w \in Worker \ {Main} : msg'[w] = msg[w]
    BY <2>1, <2>2, Workers DEF TypeOK
  <2>4. \A w \in Worker \ {Main} : At(w, "work")' => At(w, "work")
    BY <2>1 DEF At
  <2> QED
    BY <2>1, <2>2, <2>3, <2>4 DEF UnmetUnknown, Unmet
<1> QED
  BY <1>1, <1>2, <1>3, <1>4 DEF MainStep

LEMMA UnmetHandler ==
  TypeOK /\ UnmetUnknown /\ (\E h \in Pool : HandlerStep(h)) => UnmetUnknown'
<1> SUFFICES ASSUME TypeOK, UnmetUnknown, NEW h \in Pool, HandlerStep(h) PROVE UnmetUnknown'
  OBVIOUS
<1> USE DEF mainVars, workVars, sendVars, clientVars
<1>1. CASE HandlerBegins(h) \/ HandlerEnds(h)
  <2>1. /\ peer' = peer /\ map' = map /\ open' = open /\ owed' = owed
        /\ que' = que /\ todo' = todo /\ msg' = msg
    BY <1>1 DEF HandlerBegins, HandlerEnds
  <2>2. \A w \in Worker : At(w, "work")' => At(w, "work")
    BY <1>1, Workers DEF HandlerBegins, HandlerEnds, At, TypeOK
  <2> QED
    BY <2>1, <2>2, UnmetQuiet
<1>2. CASE TakeMessage(h)
  <2>1. /\ que # << >> /\ msg' = [msg EXCEPT ![h] = Head(que)] /\ que' = Tail(que)
        /\ peer' = peer /\ map' = map /\ open' = open /\ owed' = owed
        /\ todo' = todo
    BY <1>2 DEF TakeMessage, Begins
  <2>2. que \in Seq(Client \X Nat)
    BY DEF TypeOK
  <2>3. 1 \in DOMAIN que /\ Head(que) = que[1]
    BY <2>1, <2>2
  <2>4. \A i \in DOMAIN que' : i + 1 \in DOMAIN que /\ que'[i] = que[i + 1]
    BY <2>1, <2>2
  <2>5. msg'[h] = que[1] /\ \A w \in Worker \ {h} : msg'[w] = msg[w]
    BY <2>1, <2>3, Workers DEF TypeOK
  <2>6. \A w \in Worker \ {h} : At(w, "work")' => At(w, "work")
    BY <1>2, Workers DEF TakeMessage, At, TypeOK
  <2> QED
    BY <2>1, <2>3, <2>4, <2>5, <2>6, Workers DEF UnmetUnknown, Unmet
<1> QED
  BY <1>1, <1>2 DEF HandlerStep

(* A thread that goes on in its work writes to sockets it had, to those of *)
(* the map, or to the one its message came from.                           *)
LEMMA WorkTodo ==
  ASSUME TypeOK, NEW w \in Worker, WorkStep(w)
  PROVE  /\ map' \subseteq map /\ open' \subseteq open
         /\ \A c \in todo'[w] : c \in todo[w] \/ c \in map \/ (At(w, "work") /\ c = msg[w][1])
         /\ \A c \in Client : owed'[c] # owed[c] => c \in todo[w]
         /\ que' = que \/ (w = Main /\ que' = Tail(que) /\ (At(w, "work") \/ At(w, "send")))
<1> USE DEF TypeOK, sendVars, workVars
<1>1. CASE Ignores(w) \/ StopServer(w) \/ Sent(w)
  BY <1>1 DEF Ignores, StopServer, Sent, Done
<1>2. CASE Fails(w) \/ WriteNull(w)
  BY <1>2 DEF Fails, WriteNull, Throws
<1>3. CASE Replies(w) \/ PrintsAll(w)
  <2>1. /\ map' = map /\ open' = open /\ owed' = owed /\ que' = que
        /\ todo'[w] = map \/ (At(w, "work") /\ todo'[w] = {msg[w][1]})
    BY <1>3 DEF Replies, PrintsAll
  <2> QED
    BY <2>1
<1>4. CASE Fill(w)
  <2>1. First(w) \in todo[w]
    BY <1>4, FirstIsTodo DEF Fill
  <2> QED
    BY <1>4, <2>1 DEF Fill
<1>5. CASE Write(w)
  <2>1. First(w) \in todo[w]
    BY <1>5, FirstIsTodo DEF Write
  <2> QED
    BY <1>5, <2>1 DEF Write
<1>6. CASE WriteClosed(w)
  BY <1>6 DEF WriteClosed, Throws
<1>7. CASE Forget(w)
  BY <1>7 DEF Forget
<1> QED
  BY <1>1, <1>2, <1>3, <1>4, <1>5, <1>6, <1>7 DEF WorkStep

LEMMA OnwardMoves ==
  ASSUME TypeOK, NEW w \in Worker, NEW p, Onward(w, p)
  PROVE  /\ p # "work" /\ \A x : At(w, x)' <=> x = p
         /\ \A v \in Worker \ {w} : \A x : At(v, x)' <=> At(v, x)
         /\ \A v \in Worker \ {w} : msg'[v] = msg[v] /\ todo'[v] = todo[v]
BY GoesMoves DEF Onward

LEMMA UnmetWork ==
  TypeOK /\ OrderInv /\ UnmetUnknown /\ (\E w \in Worker : WorkStep(w)) => UnmetUnknown'
<1> SUFFICES ASSUME TypeOK, OrderInv, UnmetUnknown, NEW w \in Worker, WorkStep(w)
             PROVE  UnmetUnknown'
  OBVIOUS
<1>1. /\ peer' = peer
      /\ \E p \in Place : Onward(w, p)
  BY WorkType DEF Others, clientVars
<1>2. /\ ~At(w, "work")' /\ \A v \in Worker \ {w} : At(v, "work")' <=> At(v, "work")
      /\ \A v \in Worker \ {w} : msg'[v] = msg[v] /\ todo'[v] = todo[v]
  BY <1>1, OnwardMoves
<1>3. /\ map' \subseteq map /\ open' \subseteq open
      /\ \A c \in todo'[w] : c \in todo[w] \/ c \in map \/ (At(w, "work") /\ c = msg[w][1])
      /\ \A c \in Client : owed'[c] # owed[c] => c \in todo[w]
      /\ que' = que \/ (w = Main /\ que' = Tail(que) /\ (At(w, "work") \/ At(w, "send")))
  BY WorkTodo
<1>4. \A i \in DOMAIN que' : \E j \in DOMAIN que : que'[i] = que[j]
  <2>1. que \in Seq(Client \X Nat)
    BY DEF TypeOK
  <2>2. CASE que' = Tail(que) /\ w = Main /\ (At(w, "work") \/ At(w, "send"))
    <3>0. que # << >>
      BY <2>2 DEF TypeOK, OrderInv, ModesApart, WaitInOrder, Handling, At, Busy
    <3>1. \A i \in DOMAIN que' : i + 1 \in DOMAIN que /\ que'[i] = que[i + 1]
      BY <2>1, <2>2, <3>0
    <3> QED
      BY <3>1
  <2> QED
    BY <1>3, <2>2
<1>5. ASSUME NEW c \in Client, Unmet(c)'
      PROVE  /\ Unmet(c) /\ c \notin map /\ c \notin open /\ owed[c] = 0
             /\ \A i \in DOMAIN que : que[i][1] # c
             /\ \A v \in Worker : c \notin todo[v] /\ (At(v, "work") => msg[v][1] # c)
  BY <1>1, <1>5 DEF UnmetUnknown, Unmet
<1>6. ASSUME NEW c \in Client, Unmet(c)'
      PROVE  \A v \in Worker : c \notin todo'[v] /\ (At(v, "work")' => msg'[v][1] # c)
  BY <1>2, <1>3, <1>5, <1>6
<1>7. ASSUME NEW c \in Client, Unmet(c)'
      PROVE  /\ c \notin map' /\ c \notin open' /\ owed'[c] = 0
             /\ \A i \in DOMAIN que' : que'[i][1] # c
  BY <1>3, <1>4, <1>5, <1>7
<1> QED
  BY <1>6, <1>7 DEF UnmetUnknown

LEMMA UnmetStep == TypeOK /\ OrderInv /\ UnmetUnknown /\ [Next]_vars => UnmetUnknown'
<1> SUFFICES ASSUME TypeOK, OrderInv, UnmetUnknown, [Next]_vars PROVE UnmetUnknown'
  OBVIOUS
<1>1. CASE ClientStep
  <2>1. /\ map' = map /\ open' = open /\ owed' = owed /\ que' = que /\ todo' = todo
        /\ msg' = msg /\ pc' = pc /\ hpc' = hpc
    BY <1>1 DEF ClientStep, mainVars, handlerVars, workVars, sendVars
  <2>2. \A c \in Client : Unmet(c)' => Unmet(c)
    BY <1>1 DEF ClientStep, Connect, Say, Hangup, Unmet, TypeOK
  <2> QED
    BY <2>1, <2>2 DEF UnmetUnknown, At
<1>2. CASE Stop \/ UNCHANGED vars
  <2>1. /\ map' = map /\ open' = open /\ owed' = owed /\ que' = que /\ todo' = todo
        /\ msg' = msg /\ pc' = pc /\ hpc' = hpc /\ peer' = peer
    BY <1>2 DEF Stop, vars, Elsewhere, mainVars, handlerVars, workVars, sendVars, clientVars
  <2> QED
    BY <2>1, UnmetQuiet DEF At
<1> QED
  BY <1>1, <1>2, UnmetMain, UnmetHandler, UnmetWork DEF Next

-----------------------------------------------------------------------------
(* Sending.                                                                *)

Sending == AloneUnlessRaced /\ TextsSentOnce

LEMMA WritersSend ==
  ASSUME NEW c PROVE WritingTo(c) \subseteq SendingTo(c)
BY DEF WritingTo, SendingTo

(* Threads leave, and none of them was writing to an open socket that only *)
(* one thread used.                                                        *)
LEMMA SendKept ==
  ASSUME Sending, wbuf' = wbuf, raced' = raced, owed' = owed, open' \subseteq open,
         \A c \in Client : SendingTo(c)' \subseteq SendingTo(c)
                        /\ WritingTo(c)' \subseteq WritingTo(c),
         \A c \in open' \ raced' : WritingTo(c)' = WritingTo(c)
  PROVE  Sending'
<1>1. AloneUnlessRaced'
  BY DEF Sending, AloneUnlessRaced
<1>2. TextsSentOnce'
  BY DEF Sending, TextsSentOnce
<1> QED
  BY <1>1, <1>2 DEF Sending

LEMMA SetsKept ==
  ASSUME todo' = todo,
         \A w \in Worker : At(w, "write")' <=> At(w, "write"),
         \A w \in Worker : At(w, "forget")' <=> At(w, "forget")
  PROVE  \A c : WritingTo(c)' = WritingTo(c) /\ SendingTo(c)' = SendingTo(c)
<1>1. \A w \in Worker : First(w)' = First(w)
  BY FirstKept
<1> QED
  BY <1>1 DEF WritingTo, SendingTo

LEMMA SetsMove ==
  ASSUME TypeOK, NEW w \in Worker, NEW p, Onward(w, p), NEW c
  PROVE  /\ \A v \in Worker \ {w} : v \in WritingTo(c)' <=> v \in WritingTo(c)
         /\ \A v \in Worker \ {w} : v \in SendingTo(c)' <=> v \in SendingTo(c)
         /\ w \in WritingTo(c)' <=> p = "write" /\ First(w)' = c
         /\ w \in SendingTo(c)' <=> p \in {"write", "forget"} /\ First(w)' = c
<1>1. /\ \A x : At(w, x)' <=> x = p
      /\ \A v \in Worker \ {w} : \A x : At(v, x)' <=> At(v, x)
      /\ \A v \in Worker \ {w} : todo'[v] = todo[v]
  BY OnwardMoves
<1>2. \A v \in Worker \ {w} : First(v)' = First(v)
  BY <1>1, FirstKept
<1>3. p \in {"write", "forget"} => todo'[w] # {}
  BY DEF Onward
<1>4. /\ \A v \in Worker \ {w} : v \in WritingTo(c)' <=> v \in WritingTo(c)
      /\ \A v \in Worker \ {w} : v \in SendingTo(c)' <=> v \in SendingTo(c)
  BY <1>1, <1>2 DEF WritingTo, SendingTo
<1>5. w \in WritingTo(c)' <=> p = "write" /\ First(w)' = c
  BY <1>1, <1>3 DEF WritingTo
<1>6. w \in SendingTo(c)' <=> p \in {"write", "forget"} /\ First(w)' = c
  BY <1>1 DEF SendingTo
<1> QED
  BY <1>4, <1>5, <1>6

LEMMA MainSend == TypeOK /\ UnmetUnknown /\ Sending /\ MainStep => Sending'
<1> SUFFICES ASSUME TypeOK, UnmetUnknown, Sending, MainStep PROVE Sending'
  OBVIOUS
<1>1. /\ wbuf' = wbuf /\ raced' = raced /\ owed' = owed /\ todo' = todo
      /\ pc \notin {"write", "forget"} /\ pc' \notin {"write", "forget"}
      /\ \A h \in Pool : /\ hpc'[h] = "write" <=> hpc[h] = "write"
                         /\ hpc'[h] = "forget" <=> hpc[h] = "forget"
  <2>1. CASE \E h \in Pool : CreateHandler(h)
    BY <2>1 DEF CreateHandler, workVars, sendVars, TypeOK
  <2>2. CASE ~\E h \in Pool : CreateHandler(h)
    BY <2>2 DEF MainStep, Run, Select, LoopEnds, KeysDone, Accept, CheckKey, KeyCancelled,
                ReadClosed, ReadEnd, ReadLines, ReadEmpty, StopHandlers, HandlersFinished,
                TakeFirst, MessagesDone, Breaks, Elsewhere, handlerVars, workVars, sendVars
  <2> QED
    BY <2>1, <2>2
<1>2. ASSUME NEW w \in Worker
      PROVE  (At(w, "write")' <=> At(w, "write")) /\ (At(w, "forget")' <=> At(w, "forget"))
  <2>1. CASE w = Main
    BY <1>1, <2>1, AtPlaces
  <2>2. CASE w \in Pool
    <3>1. (hpc'[w] = "write" <=> hpc[w] = "write") /\ (hpc'[w] = "forget" <=> hpc[w] = "forget")
      BY <1>1, <2>2
    <3>2. /\ At(w, "write") <=> hpc[w] = "write"
          /\ At(w, "forget") <=> hpc[w] = "forget"
          /\ At(w, "write")' <=> hpc'[w] = "write"
          /\ At(w, "forget")' <=> hpc'[w] = "forget"
      BY <2>2, AtPlaces
    <3> QED
      BY <3>1, <3>2
  <2> QED
    BY <2>1, <2>2, Workers
<1>3. \A c : WritingTo(c)' = WritingTo(c) /\ SendingTo(c)' = SendingTo(c)
  BY <1>1, <1>2, SetsKept
<1>4. CASE \E c \in Client : Accept(c)
  <2>1. PICK c \in Client : Accept(c)
    BY <1>4
  <2>2. open' = open \cup {c} /\ Unmet(c)
    BY <2>1 DEF Accept, Arrived, Unmet
  <2>3. WritingTo(c) = {}
    <3>1. \A w \in Worker : todo[w] # {} => First(w) # c
      BY <2>2, FirstIsTodo DEF UnmetUnknown
    <3> QED
      BY <3>1 DEF WritingTo
  <2>4. owed[c] = 0 /\ Cardinality(WritingTo(c)) = 0
    BY <2>2, <2>3, FS_EmptySet DEF UnmetUnknown
  <2>5. AloneUnlessRaced'
    BY <1>1, <1>3 DEF Sending, AloneUnlessRaced
  <2>6. ASSUME NEW d \in open' \ raced' PROVE owed'[d] = Cardinality(WritingTo(d)')
    BY <1>1, <1>3, <2>2, <2>4, <2>6 DEF Sending, TextsSentOnce
  <2> QED
    BY <2>5, <2>6 DEF Sending, TextsSentOnce
<1>5. CASE ~\E c \in Client : Accept(c)
  <2>1. open' \subseteq open
    BY <1>5 DEF MainStep, Run, CreateHandler, Select, LoopEnds, KeysDone, CheckKey,
                KeyCancelled, ReadClosed, ReadEnd, ReadLines, ReadEmpty, StopHandlers,
                HandlersFinished, TakeFirst, MessagesDone
  <2> QED
    BY <1>1, <1>3, <2>1, SendKept
<1> QED
  BY <1>4, <1>5

LEMMA WorkSend ==
  TypeOK /\ OrderInv /\ Sending /\ (\E w \in Worker : WorkStep(w)) => Sending'
<1> SUFFICES ASSUME TypeOK, OrderInv, Sending, NEW w \in Worker, WorkStep(w) PROVE Sending'
  OBVIOUS
<1>c. PICK c : c = First(w)
  OBVIOUS
<1>1. PICK p \in Place : Onward(w, p)
  BY WorkType
<1>2. /\ \A d : \A v \in Worker \ {w} : v \in WritingTo(d)' <=> v \in WritingTo(d)
      /\ \A d : \A v \in Worker \ {w} : v \in SendingTo(d)' <=> v \in SendingTo(d)
      /\ \A d : w \in WritingTo(d)' <=> p = "write" /\ First(w)' = d
      /\ \A d : w \in SendingTo(d)' <=> p \in {"write", "forget"} /\ First(w)' = d
  BY <1>1, SetsMove
<1>3. /\ \A d : WritingTo(d) \subseteq Worker /\ SendingTo(d) \subseteq Worker
      /\ \A d : WritingTo(d)' \subseteq Worker /\ SendingTo(d)' \subseteq Worker
  BY DEF WritingTo, SendingTo
<1>4. \A x : At(w, x)' <=> x = p
  BY <1>1, OnwardMoves
<1>5. \A x, y : At(w, x) /\ At(w, y) => x = y
  BY DEF At
<1>6. open' \subseteq open
  BY WorkTodo
<1>7. \A d : WritingTo(d) \subseteq SendingTo(d)
  BY WritersSend
(* It did not write, or is done with a socket that is closed or raced.     *)
<1>8. ASSUME wbuf' = wbuf, raced' = raced, owed' = owed, p \notin {"write", "forget"},
             \A d \in open' \ raced' : w \notin WritingTo(d)
      PROVE  Sending'
  <2>1. \A d : SendingTo(d)' \subseteq SendingTo(d) /\ WritingTo(d)' \subseteq WritingTo(d)
    BY <1>2, <1>3, <1>8
  <2>2. ASSUME NEW d \in open' \ raced' PROVE WritingTo(d)' = WritingTo(d)
    <3>1. \A v \in Worker : v \in WritingTo(d)' <=> v \in WritingTo(d)
      BY <1>2, <1>8, <2>2
    <3> QED
      BY <1>3, <3>1
  <2> QED
    BY <1>6, <1>8, <2>1, <2>2, SendKept
<1>9. CASE Ignores(w) \/ Fails(w) \/ StopServer(w) \/ Replies(w) \/ PrintsAll(w) \/ Sent(w)
  <2>1. wbuf' = wbuf /\ raced' = raced /\ owed' = owed
    BY <1>9 DEF Ignores, Fails, StopServer, Replies, PrintsAll, Sent, sendVars
  <2>2. At(w, "work") \/ At(w, "send")
    BY <1>9 DEF Ignores, Fails, StopServer, Replies, PrintsAll, Sent
  <2>3. \A d : w \notin WritingTo(d)
    BY <1>5, <2>2 DEF WritingTo
  <2>4. \E x : Goes(w, x) /\ x \notin {"write", "forget"}
    BY <1>9 DEF Ignores, Fails, StopServer, Replies, PrintsAll, Sent, Done, Throws
  <2>5. p \notin {"write", "forget"}
    BY <1>1, <2>4, GoesOnce DEF Onward
  <2> QED
    BY <1>8, <2>1, <2>3, <2>5
<1>10. CASE WriteClosed(w) \/ WriteNull(w)
  <2>1. wbuf' = wbuf /\ raced' = raced /\ owed' = owed
    BY <1>10 DEF WriteClosed, WriteNull, sendVars
  <2>2. \E x : Goes(w, x) /\ x \notin {"write", "forget"}
    BY <1>10 DEF WriteClosed, WriteNull, Throws
  <2>3. p \notin {"write", "forget"}
    BY <1>1, <2>2, GoesOnce DEF Onward
  <2>4. \A d : w \in WritingTo(d) => d = c
    BY <1>c DEF WritingTo
  <2>5. w \in WritingTo(c)
    BY <1>10, <1>c DEF WriteClosed, WriteNull, WritingTo, TypeOK
  <2>6. c \in Client
    BY <1>10, <1>c, FirstIsTodo DEF WriteClosed, WriteNull, TypeOK
  <2>7. c \notin open \/ c \in raced
    BY <1>10, <1>c, <2>5, <2>6 DEF WriteClosed, WriteNull, Sending, AloneUnlessRaced
  <2> QED
    BY <1>6, <1>8, <2>1, <2>3, <2>4, <2>7
(* The buffer is filled: by another too, or nobody else sends.             *)
<1>11. CASE Fill(w)
  <2>1. /\ wbuf' = [wbuf EXCEPT ![c] = w] /\ owed' = [owed EXCEPT ![c] = @ + 1]
        /\ raced' = IF \E v \in InSend(c) : First(v) = c THEN raced \cup {c} ELSE raced
        /\ todo' = todo /\ open' = open /\ Goes(w, "write") /\ At(w, "send")
        /\ todo[w] # {}
    BY <1>11, <1>c DEF Fill, workVars
  <2>2. First(w)' = c /\ c \in Client
    BY <2>1, <1>c, FirstKept, FirstIsTodo DEF TypeOK
  <2>3. p = "write"
    BY <1>1, <2>1, GoesOnce DEF Onward
  <2>4. \A d : w \notin WritingTo(d) /\ w \notin SendingTo(d)
    BY <1>5, <2>1 DEF WritingTo, SendingTo
  <2>5. \A d : d # c => WritingTo(d)' = WritingTo(d) /\ SendingTo(d)' = SendingTo(d)
    BY <1>2, <1>3, <2>2, <2>4
  <2>6. WritingTo(c)' = WritingTo(c) \cup {w} /\ SendingTo(c)' = SendingTo(c) \cup {w}
    BY <1>2, <1>3, <2>2, <2>3
  <2>7. ASSUME c \notin raced' PROVE SendingTo(c) = {} /\ WritingTo(c) = {}
    <3>1. ~\E v \in InSend(c) : First(v) = c
      BY <2>1, <2>7
    <3>2. \A v \in SendingTo(c) : v \in InSend(c) /\ First(v) = c
      <4>1. \A v \in SendingTo(c) : /\ v \in Worker /\ First(v) = c /\ todo[v] # {}
                                    /\ At(v, "write") \/ At(v, "forget")
        BY DEF SendingTo, TypeOK
      <4>2. \A v \in SendingTo(c) : c \in todo[v]
        BY <4>1, FirstIsTodo
      <4> QED
        BY <4>1, <4>2 DEF InSend
    <3> QED
      BY <1>7, <3>1, <3>2
  <2>8. raced \subseteq raced' /\ w # Null
    BY <2>1, Workers
  <2>9. ASSUME NEW d \in Client \ raced'
        PROVE  (\A v, u \in SendingTo(d)' : v = u) /\ (WritingTo(d)' # {} => wbuf'[d] # Null)
    <3>1. CASE d = c
      <4>1. SendingTo(d)' = {w}
        BY <2>6, <2>7, <2>9, <3>1
      <4>2. wbuf'[d] # Null
        BY <2>1, <2>2, <2>8, <3>1 DEF TypeOK
      <4> QED
        BY <4>1, <4>2
    <3>2. CASE d # c
      <4>1. wbuf'[d] = wbuf[d] /\ d \in Client \ raced
        BY <2>1, <2>2, <2>8, <2>9, <3>2 DEF TypeOK
      <4>2. (\A v, u \in SendingTo(d) : v = u) /\ (WritingTo(d) # {} => wbuf[d] # Null)
        BY <4>1 DEF Sending, AloneUnlessRaced
      <4>3. WritingTo(d)' = WritingTo(d) /\ SendingTo(d)' = SendingTo(d)
        BY <2>5, <3>2
      <4> QED
        BY <4>1, <4>2, <4>3
    <3> QED
      BY <3>1, <3>2
  <2>10. ASSUME NEW d \in open' \ raced' PROVE owed'[d] = Cardinality(WritingTo(d)')
    <3>1. CASE d = c
      <4>1. owed[c] = Cardinality(WritingTo(c)) /\ owed[c] \in Int
        BY <2>1, <2>2, <2>8, <2>10, <3>1 DEF Sending, TextsSentOnce, TypeOK
      <4>2. Cardinality(WritingTo(c)) = 0 /\ Cardinality(WritingTo(c)') = 1
        <5>1. WritingTo(c) = {} /\ WritingTo(c)' = {w}
          BY <2>6, <2>7, <2>10, <3>1
        <5> QED
          BY <5>1, FS_EmptySet, FS_Singleton
      <4>3. owed'[c] = owed[c] + 1
        BY <2>1, <2>2 DEF TypeOK
      <4>4. owed'[c] = 1
        BY <4>1, <4>2, <4>3
      <4>5. WritingTo(d)' = WritingTo(c)' /\ owed'[d] = owed'[c]
        BY <3>1
      <4> QED
        BY <4>2, <4>4, <4>5
    <3>2. CASE d # c
      BY <2>1, <2>2, <2>5, <2>8, <2>10, <3>2 DEF TypeOK, Sending, TextsSentOnce
    <3> QED
      BY <3>1, <3>2
  <2> QED
    BY <2>9, <2>10 DEF Sending, AloneUnlessRaced, TextsSentOnce
(* What is in the buffer is written.                                       *)
<1>12. CASE Write(w)
  <2>1. /\ wbuf' = wbuf /\ owed' = [owed EXCEPT ![c] = @ - 1] /\ raced' = raced
        /\ todo' = todo /\ open' = open /\ Goes(w, "forget") /\ At(w, "write")
        /\ todo[w] # {}
    BY <1>12, <1>c DEF Write, workVars, TypeOK
  <2>2. First(w)' = c /\ c \in Client
    BY <2>1, <1>c, FirstKept, FirstIsTodo DEF TypeOK
  <2>3. p = "forget"
    BY <1>1, <2>1, GoesOnce DEF Onward
  <2>4. w \in WritingTo(c) /\ \A d : d # c => w \notin WritingTo(d) /\ w \notin SendingTo(d)
    BY <1>c, <2>1 DEF WritingTo, SendingTo
  <2>5. ASSUME NEW d PROVE SendingTo(d)' = SendingTo(d)
    <3>1. w \in SendingTo(d)' <=> w \in SendingTo(d)
      <4>1. CASE d = c
        BY <1>2, <1>7, <2>2, <2>3, <2>4, <4>1
      <4>2. CASE d # c
        BY <1>2, <2>2, <2>4, <4>2
      <4> QED
        BY <4>1, <4>2
    <3>2. \A v \in Worker : v \in SendingTo(d)' <=> v \in SendingTo(d)
      BY <1>2, <3>1
    <3> QED
      BY <1>3, <3>2
  <2>6. \A d : WritingTo(d)' = WritingTo(d) \ {w}
    BY <1>2, <1>3, <2>3
  <2>7. AloneUnlessRaced'
    BY <2>1, <2>5, <2>6 DEF Sending, AloneUnlessRaced
  <2>8. ASSUME NEW d \in open' \ raced' PROVE owed'[d] = Cardinality(WritingTo(d)')
    <3>1. CASE d = c
      <4>1. owed[c] = Cardinality(WritingTo(c)) /\ owed[c] \in Int
        BY <2>1, <2>2, <2>8, <3>1 DEF Sending, TextsSentOnce, TypeOK
      <4>2. \A v \in SendingTo(c) : v = w
        BY <1>7, <2>1, <2>2, <2>4, <2>8, <3>1 DEF Sending, AloneUnlessRaced
      <4>3. Cardinality(WritingTo(c)) = 1 /\ Cardinality(WritingTo(c)') = 0
        <5>1. WritingTo(c) = {w} /\ WritingTo(c)' = {}
          <6>1. \A v \in WritingTo(c) : v = w
            BY <1>7, <4>2
          <6> QED
            BY <2>4, <2>6, <6>1
        <5> QED
          BY <5>1, FS_EmptySet, FS_Singleton
      <4>4. owed'[c] = owed[c] - 1
        BY <2>1, <2>2 DEF TypeOK
      <4>5. owed'[c] = 0
        BY <4>1, <4>3, <4>4
      <4>6. WritingTo(d)' = WritingTo(c)' /\ owed'[d] = owed'[c]
        BY <3>1
      <4> QED
        BY <4>3, <4>5, <4>6
    <3>2. CASE d # c
      <4>1. owed'[d] = owed[d] /\ d \in open \ raced
        BY <2>1, <2>2, <2>8, <3>2 DEF TypeOK
      <4>2. WritingTo(d)' = WritingTo(d)
        BY <2>4, <2>6, <3>2
      <4> QED
        BY <4>1, <4>2 DEF Sending, TextsSentOnce
    <3> QED
      BY <3>1, <3>2
  <2> QED
    BY <2>7, <2>8 DEF Sending, TextsSentOnce
(* The buffer is forgotten: nobody else is about to write it.              *)
<1>13. CASE Forget(w)
  <2>1. /\ wbuf' = [wbuf EXCEPT ![c] = Null] /\ owed' = owed /\ raced' = raced
        /\ open' = open /\ Goes(w, "send") /\ At(w, "forget") /\ todo[w] # {}
    BY <1>13, <1>c DEF Forget, TypeOK
  <2>2. c \in Client
    BY <2>1, <1>c, FirstIsTodo DEF TypeOK
  <2>3. p = "send"
    BY <1>1, <2>1, GoesOnce DEF Onward
  <2>4. w \in SendingTo(c) /\ \A d : w \notin WritingTo(d)
    BY <1>5, <1>c, <2>1 DEF WritingTo, SendingTo
  <2>5. \A d : WritingTo(d)' = WritingTo(d) /\ SendingTo(d)' \subseteq SendingTo(d) \ {w}
    BY <1>2, <1>3, <2>3, <2>4
  <2>6. ASSUME NEW d \in Client \ raced'
        PROVE  (\A v, u \in SendingTo(d)' : v = u) /\ (WritingTo(d)' # {} => wbuf'[d] # Null)
    <3>1. CASE d = c
      <4>1. \A v \in SendingTo(c) : v = w
        BY <2>1, <2>2, <2>4, <2>6, <3>1 DEF Sending, AloneUnlessRaced
      <4>2. SendingTo(c)' = {}
        BY <2>5, <4>1
      <4>3. WritingTo(c)' = {}
        BY <1>7, <2>4, <2>5, <4>1
      <4>4. WritingTo(d)' = WritingTo(c)' /\ SendingTo(d)' = SendingTo(c)'
        BY <3>1
      <4> QED
        BY <4>2, <4>3, <4>4
    <3>2. CASE d # c
      <4>1. wbuf'[d] = wbuf[d] /\ d \in Client \ raced
        BY <2>1, <2>2, <2>6, <3>2 DEF TypeOK
      <4>2. (\A v, u \in SendingTo(d) : v = u) /\ (WritingTo(d) # {} => wbuf[d] # Null)
        BY <4>1 DEF Sending, AloneUnlessRaced
      <4>3. WritingTo(d)' = WritingTo(d) /\ SendingTo(d)' \subseteq SendingTo(d)
        BY <2>5
      <4> QED
        BY <4>1, <4>2, <4>3
    <3> QED
      BY <3>1, <3>2
  <2>7. TextsSentOnce'
    BY <2>1, <2>5 DEF Sending, TextsSentOnce
  <2> QED
    BY <2>6, <2>7 DEF Sending, AloneUnlessRaced
<1> QED
  BY <1>9, <1>10, <1>11, <1>12, <1>13 DEF WorkStep

LEMMA SendStep ==
  TypeOK /\ OrderInv /\ UnmetUnknown /\ Sending /\ [Next]_vars => Sending'
<1> SUFFICES ASSUME TypeOK, OrderInv, UnmetUnknown, Sending, [Next]_vars PROVE Sending'
  OBVIOUS
<1>1. CASE ClientStep \/ Stop \/ UNCHANGED vars
  <2>1. /\ wbuf' = wbuf /\ raced' = raced /\ owed' = owed /\ todo' = todo
        /\ open' = open /\ pc' = pc /\ hpc' = hpc
    BY <1>1 DEF ClientStep, Stop, vars, Elsewhere, mainVars, handlerVars, workVars, sendVars
  <2>2. \A c : WritingTo(c)' = WritingTo(c) /\ SendingTo(c)' = SendingTo(c)
    BY <2>1, SetsKept DEF At
  <2> QED
    BY <2>1, <2>2, SendKept
<1>2. ASSUME NEW h \in Pool, HandlerStep(h) PROVE Sending'
  <2>1. /\ wbuf' = wbuf /\ raced' = raced /\ owed' = owed /\ todo' = todo
        /\ open' = open /\ pc' = pc
        /\ \A g \in Pool : /\ hpc'[g] = "write" <=> hpc[g] = "write"
                           /\ hpc'[g] = "forget" <=> hpc[g] = "forget"
    BY <1>2 DEF HandlerStep, HandlerBegins, HandlerEnds, TakeMessage, mainVars, workVars,
                sendVars, TypeOK
  <2>3. ASSUME NEW w \in Worker
        PROVE  (At(w, "write")' <=> At(w, "write")) /\ (At(w, "forget")' <=> At(w, "forget"))
    <3>1. CASE w = Main
      BY <2>1, <3>1, AtPlaces
    <3>2. CASE w \in Pool
      <4>1. (hpc'[w] = "write" <=> hpc[w] = "write") /\ (hpc'[w] = "forget" <=> hpc[w] = "forget")
        BY <2>1, <3>2
      <4>2. /\ At(w, "write") <=> hpc[w] = "write"
            /\ At(w, "forget") <=> hpc[w] = "forget"
            /\ At(w, "write")' <=> hpc'[w] = "write"
            /\ At(w, "forget")' <=> hpc'[w] = "forget"
        BY <3>2, AtPlaces
      <4> QED
        BY <4>1, <4>2
    <3> QED
      BY <3>1, <3>2, Workers
  <2>4. \A c : WritingTo(c)' = WritingTo(c) /\ SendingTo(c)' = SendingTo(c)
    BY <2>1, <2>3, SetsKept
  <2> QED
    BY <2>1, <2>4, SendKept
<1> QED
  BY <1>1, <1>2, MainSend, WorkSend DEF Next

LEMMA InitSend == Init => SendInv
<1> SUFFICES ASSUME Init PROVE SendInv
  OBVIOUS
<1>1. \A w \in Worker : ~At(w, "work") /\ ~At(w, "write") /\ ~At(w, "forget")
  BY Workers DEF Init, At
<1>2. \A c : WritingTo(c) = {} /\ SendingTo(c) = {}
  BY <1>1 DEF WritingTo, SendingTo
<1>3. UnmetUnknown
  BY <1>1 DEF Init, UnmetUnknown
<1>4. AloneUnlessRaced /\ TextsSentOnce
  BY <1>2 DEF Init, AloneUnlessRaced, TextsSentOnce
<1> QED
  BY <1>3, <1>4 DEF SendInv

-----------------------------------------------------------------------------
(* The theorems.                                                           *)

LEMMA InitInv == Init => IInv
BY InitType, InitOrder, InitSend DEF IInv

LEMMA StepInv == IInv /\ [Next]_vars => IInv'
BY TypeStep, OrderStep, UnmetStep, SendStep DEF IInv, SendInv, Sending

LEMMA Invariance == Spec => []IInv
BY InitInv, StepInv, PTL DEF Spec

(* Every state is of its type: among others, a thread that handles a       *)
(* message has one (TelnetServerHandler.run(), processMessages()), and one *)
(* that writes to a socket still has it to write to (printAll()).          *)
THEOREM TypeCorrect == Spec => []TypeOK
<1>1. IInv => TypeOK
  BY DEF IInv
<1> QED
  BY <1>1, Invariance, PTL

(* read() and getMessage(): the lines of a client are begun in the order   *)
(* it sent them, each once, and those not begun wait in the queue, however *)
(* many handlers there are, whatever they do and whichever of them throws. *)
THEOREM LinesInOrder == Spec => []BegunInOrder
<1>1. IInv => BegunInOrder
  BY OrderMeans DEF IInv
<1> QED
  BY <1>1, Invariance, PTL

(* sendString(): what is still owed to an open socket is what the threads  *)
(* between addPacketBuffer() and write() are about to write, unless two    *)
(* threads have been in sendString() on that socket at once.               *)
THEOREM TextsOnce == Spec => []TextsSentOnce
<1>1. IInv => TextsSentOnce
  BY DEF IInv, SendInv
<1> QED
  BY <1>1, Invariance, PTL
=============================================================================
