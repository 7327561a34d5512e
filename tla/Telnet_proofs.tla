---------------------------- MODULE Telnet_proofs ----------------------------
(***************************************************************************)
(* TelnetServer, for any clients, any buffer size, any way their text is   *)
(* cut and any behaviour of the application: every line is told once,      *)
(* whole and in order, and the story of each client begins with            *)
(* pcNewConnection and ends with one pcClosed.                             *)
(***************************************************************************)
EXTENDS Telnet, SequenceTheorems, TLAPS

(* A list without repetitions, whose entries are what is allocated and     *)
(* open, and the cursor on an entry while the scan goes on.                *)
ListInv ==
  /\ \A i, j \in 1 .. Len(items) : items[i] = items[j] => i = j
  /\ pc # "destroyed" => alive = Listed /\ fds = Listed
  /\ pc \in {"scan", "extract"} => cur \in 1 .. Len(items)
  /\ pc = "selected" => rset \subseteq Listed

(* A client's story s while L are listed.                                  *)
NewFirst(s, c) ==
  \A i \in Of(s, c) : s[i].kind = "new" <=> \A j \in Of(s, c) : i <= j
ClosedLast(s, c) ==
  \A i \in Of(s, c) : s[i].kind = "closed" => \A j \in Of(s, c) : j <= i
Tells(s, c, m) == \E i \in Of(s, c) : s[i] = m
Form(s, c, L) ==
  /\ NewFirst(s, c) /\ ClosedLast(s, c)
  /\ Of(s, c) # {} => Tells(s, c, NewMsg(c))
  /\ c \in L => /\ Of(s, c) # {}
                /\ \A i \in Of(s, c) : s[i].kind # "closed"
  /\ c \notin L /\ Of(s, c) # {} => Tells(s, c, ClosedMsg(c))

(* What c said, told, is what was taken off in lines, the first b of it,   *)
(* what its buffer holds, i, and what was not read, w.                     *)
Cut(told, i, w, b) ==
  /\ Len(told) = b + Len(i) + Len(w)
  /\ \A k \in 1 .. Len(i) : i[k] = told[b + k]
  /\ \A k \in 1 .. Len(w) : w[k] = told[b + Len(i) + k]

UpTo(s, c, b) ==
  /\ \A i \in LinesOf(s, c) : EndOf(s[i].text) <= b
  /\ b = 0 \/ \E i \in LinesOf(s, c) : EndOf(s[i].text) = b

ClientInv(c, s, told, i, w, L, p) ==
  /\ LinesTold(s, c, told)
  /\ \A k \in 1 .. Len(told) : told[k] \in {LF, k}
  /\ p # "destroyed" =>
       /\ Form(s, c, L)
       /\ Of(s, c) = {} => told = << >> /\ i = << >> /\ w = << >>
  /\ c \in L => \E b \in Nat : Cut(told, i, w, b) /\ UpTo(s, c, b)

(* Whole lines are only where they are being taken off.                    *)
OnlyExtracted ==
  \A c \in Client : \A i \in 1 .. Len(in[c]) :
    in[c][i] = LF => pc \in Terminal \/ (pc = "extract" /\ c = Current)

StoryInv ==
  \A c \in Client : ClientInv(c, Story(c), said[c], in[c], wire[c], Listed, pc)

IInv == TypeOK /\ ListInv /\ StoryInv /\ OnlyExtracted

-----------------------------------------------------------------------------
(* Two sequences one behind the other, a part of one, and one without an   *)
(* entry.                                                                  *)
LEMMA Joined ==
  ASSUME NEW S, NEW s1 \in Seq(S), NEW s2 \in Seq(S)
  PROVE  /\ s1 \o s2 \in Seq(S) /\ Len(s1 \o s2) = Len(s1) + Len(s2)
         /\ DOMAIN (s1 \o s2) = 1 .. Len(s1) + Len(s2)
         /\ \A i \in 1 .. Len(s1) : (s1 \o s2)[i] = s1[i]
         /\ \A i \in 1 .. Len(s2) : (s1 \o s2)[Len(s1) + i] = s2[i]
<1>1. PICK a \in Nat, b \in Nat : a = Len(s1) /\ b = Len(s2)
  BY LenProperties
<1>2. PICK s : s = s1 \o s2
  OBVIOUS
<1>3. /\ s \in Seq(S) /\ Len(s) = a + b
      /\ \A i \in 1 .. a + b : s[i] = IF i <= a THEN s1[i] ELSE s2[i - a]
  BY <1>1, <1>2, ConcatProperties
<1>4. DOMAIN s = 1 .. a + b
  BY <1>3, LenProperties
<1>5. ASSUME NEW i \in 1 .. a PROVE s[i] = s1[i]
  BY <1>3
<1>6. ASSUME NEW i \in 1 .. b PROVE s[a + i] = s2[i]
  <2>1. a + i \in 1 .. a + b /\ ~(a + i <= a) /\ (a + i) - a = i
    OBVIOUS
  <2> QED
    BY <1>3, <2>1
<1> QED
  BY <1>1, <1>2, <1>3, <1>4, <1>5, <1>6

LEMMA Part ==
  ASSUME NEW S, NEW s \in Seq(S), NEW a \in Nat, NEW b \in Nat,
         a <= b, b <= Len(s)
  PROVE  /\ SubSeq(s, a + 1, b) \in Seq(S) /\ Len(SubSeq(s, a + 1, b)) = b - a
         /\ DOMAIN SubSeq(s, a + 1, b) = 1 .. b - a
         /\ \A i \in 1 .. b - a : SubSeq(s, a + 1, b)[i] = s[a + i]
<1>0. PICK m \in Nat : m = Len(s)
  BY LenProperties
<1>1. \A i \in a + 1 .. b : s[i] \in S
  <2>1. \A i \in 1 .. m : s[i] \in S
    BY <1>0, ElementOfSeq
  <2> QED
    BY <1>0, <2>1
<1>2. a + 1 \in Int /\ b \in Int /\ b - (a + 1) + 1 = b - a
  OBVIOUS
<1>a. PICK t : t = SubSeq(s, a + 1, b)
  OBVIOUS
<1>b. PICK d \in Int : d = a + 1
  BY <1>2
<1>3. /\ t \in Seq(S) /\ Len(t) = IF d <= b THEN b - d + 1 ELSE 0
      /\ \A i \in 1 .. b - d + 1 : t[i] = s[d + i - 1]
  BY <1>1, <1>2, <1>a, <1>b, SubSeqProperties
<1>4. b - d + 1 = b - a /\ \A i \in 1 .. b - a : d + i - 1 = a + i
  BY <1>b
<1>5. Len(t) = b - a
  BY <1>3, <1>4, <1>b
<1> QED
  BY <1>3, <1>4, <1>5, <1>a, LenProperties

LEMMA Front ==
  ASSUME NEW S, NEW s \in Seq(S), NEW n \in Nat, n <= Len(s)
  PROVE  /\ SubSeq(s, 1, n) \in Seq(S) /\ Len(SubSeq(s, 1, n)) = n
         /\ \A k \in 1 .. n : SubSeq(s, 1, n)[k] = s[k]
<1>1. /\ SubSeq(s, 0 + 1, n) \in Seq(S) /\ Len(SubSeq(s, 0 + 1, n)) = n - 0
      /\ \A k \in 1 .. n - 0 : SubSeq(s, 0 + 1, n)[k] = s[0 + k]
  BY Part
<1>2. 0 + 1 = 1 /\ n - 0 = n /\ \A k \in 1 .. n : 0 + k = k
  OBVIOUS
<1> QED
  BY <1>1, <1>2

LEMMA Rest ==
  ASSUME NEW S, NEW s \in Seq(S), NEW n \in Nat, n <= Len(s)
  PROVE  /\ SubSeq(s, n + 1, Len(s)) \in Seq(S)
         /\ Len(SubSeq(s, n + 1, Len(s))) = Len(s) - n
         /\ \A k \in 1 .. Len(s) - n : SubSeq(s, n + 1, Len(s))[k] = s[n + k]
<1>1. PICK m \in Nat : m = Len(s)
  BY LenProperties
<1>2. /\ SubSeq(s, n + 1, m) \in Seq(S) /\ Len(SubSeq(s, n + 1, m)) = m - n
      /\ \A k \in 1 .. m - n : SubSeq(s, n + 1, m)[k] = s[n + k]
  BY <1>1, Part
<1> QED
  BY <1>1, <1>2

LEMMA WithoutEntry ==
  ASSUME NEW S, NEW s \in Seq(S), NEW i \in 1 .. Len(s)
  PROVE  /\ Without(s, i) \in Seq(S)
         /\ Len(Without(s, i)) = Len(s) - 1
         /\ \A j \in 1 .. Len(s) - 1 :
              Without(s, i)[j] = IF j < i THEN s[j] ELSE s[j + 1]
<1> DEFINE front == SubSeq(s, 1, i - 1)
           back  == SubSeq(s, i + 1, Len(s))
<1>0. Len(s) \in Nat /\ i \in Nat /\ \A j \in 1 .. Len(s) : s[j] \in S
  BY LenProperties, ElementOfSeq
<1>1. front \in Seq(S) /\ Len(front) = i - 1 /\ \A j \in 1 .. i - 1 : front[j] = s[j]
  <2>1. \A j \in 1 .. i - 1 : s[j] \in S
    BY <1>0
  <2> QED
    BY <1>0, <2>1, SubSeqProperties
<1>2. /\ back \in Seq(S) /\ Len(back) = Len(s) - i
      /\ \A j \in 1 .. Len(s) - i : back[j] = s[i + j]
  <2>1. \A j \in i + 1 .. Len(s) : s[j] \in S
    BY <1>0
  <2> QED
    BY <1>0, <2>1, SubSeqProperties
<1>3. Without(s, i) = front \o back
  BY DEF Without, SE!RemoveAt
<1> HIDE DEF front, back
<1>4. /\ front \o back \in Seq(S) /\ Len(front \o back) = Len(s) - 1
      /\ \A j \in 1 .. Len(s) - 1 :
           (front \o back)[j] = IF j < i THEN front[j] ELSE back[j - (i - 1)]
  <2>1. /\ front \o back \in Seq(S) /\ Len(front \o back) = Len(front) + Len(back)
        /\ \A j \in 1 .. Len(front) + Len(back) :
             (front \o back)[j] = IF j <= Len(front) THEN front[j] ELSE back[j - Len(front)]
    BY <1>1, <1>2, ConcatProperties
  <2>2. Len(front) = i - 1 /\ Len(front) + Len(back) = Len(s) - 1
    BY <1>0, <1>1, <1>2
  <2> QED
    BY <1>0, <2>1, <2>2
<1>5. \A j \in 1 .. Len(s) - 1 :
        (front \o back)[j] = IF j < i THEN s[j] ELSE s[j + 1]
  <2> SUFFICES ASSUME NEW j \in 1 .. Len(s) - 1
               PROVE  (front \o back)[j] = IF j < i THEN s[j] ELSE s[j + 1]
    OBVIOUS
  <2>1. CASE j < i
    BY <1>0, <1>1, <1>4, <2>1
  <2>2. CASE ~(j < i)
    <3>1. j - (i - 1) \in 1 .. Len(s) - i /\ i + (j - (i - 1)) = j + 1
      BY <1>0, <2>2
    <3> QED
      BY <1>0, <1>2, <1>4, <2>2, <3>1
  <2> QED
    BY <2>1, <2>2
<1> QED
  BY <1>3, <1>4, <1>5

-----------------------------------------------------------------------------
(* Stories that tell the same of c.                                        *)

Same(s, t, c) ==
  \E f \in [Of(t, c) -> Of(s, c)] :
    /\ \A i \in Of(t, c) : t[i] = s[f[i]]
    /\ \A i, j \in Of(t, c) : i < j <=> f[i] < f[j]
    /\ \A k \in Of(s, c) : \E i \in Of(t, c) : f[i] = k

LEMMA OfNat ==
  ASSUME NEW s \in Seq(Message), NEW c
  PROVE  /\ Of(s, c) \subseteq Nat /\ LinesOf(s, c) \subseteq Of(s, c)
         /\ \A i : i \in Of(s, c) <=> i \in 1 .. Len(s) /\ s[i].sock = c
         /\ \A i : i \in LinesOf(s, c) <=> i \in Of(s, c) /\ s[i].kind = "line"
         /\ \A i \in Of(s, c) : s[i] \in Message /\ s[i].text \in Seq(Nat)
<1>1. DOMAIN s = 1 .. Len(s) /\ \A i \in 1 .. Len(s) : s[i] \in Message
  BY ElementOfSeq
<1> QED
  BY <1>1 DEF Of, LinesOf, Message

LEMMA SameForm ==
  ASSUME NEW s \in Seq(Message), NEW t \in Seq(Message), NEW c, NEW L,
         Same(s, t, c), Form(s, c, L)
  PROVE  Form(t, c, L)
<1>1. PICK f \in [Of(t, c) -> Of(s, c)] :
        /\ \A i \in Of(t, c) : t[i] = s[f[i]]
        /\ \A i, j \in Of(t, c) : i < j <=> f[i] < f[j]
        /\ \A k \in Of(s, c) : \E i \in Of(t, c) : f[i] = k
  BY DEF Same
<1>2. Of(s, c) \subseteq Nat /\ Of(t, c) \subseteq Nat
  BY OfNat
<1>3. ASSUME NEW i \in Of(t, c), NEW j \in Of(t, c) PROVE i <= j <=> f[i] <= f[j]
  <2>1. PICK x \in Nat, y \in Nat : x = f[i] /\ y = f[j]
    BY <1>2
  <2>2. (j < i <=> y < x) /\ i \in Nat /\ j \in Nat
    BY <1>1, <1>2, <2>1
  <2> QED
    BY <2>1, <2>2
<1>4. NewFirst(t, c)
  BY <1>1, <1>3 DEF Form, NewFirst
<1>5. ClosedLast(t, c)
  BY <1>1, <1>3 DEF Form, ClosedLast
<1>6. \A m : Tells(s, c, m) <=> Tells(t, c, m)
  BY <1>1 DEF Tells
<1>7. Of(s, c) = {} <=> Of(t, c) = {}
  BY <1>1
<1>8. c \in L => \A i \in Of(t, c) : t[i].kind # "closed"
  BY <1>1 DEF Form
<1> QED
  BY <1>4, <1>5, <1>6, <1>7, <1>8 DEF Form

LEMMA SameLines ==
  ASSUME NEW s \in Seq(Message), NEW t \in Seq(Message), NEW c, Same(s, t, c)
  PROVE  /\ \A told : LinesTold(s, c, told) => LinesTold(t, c, told)
         /\ \A b : UpTo(s, c, b) => UpTo(t, c, b)
<1>1. PICK f \in [Of(t, c) -> Of(s, c)] :
        /\ \A i \in Of(t, c) : t[i] = s[f[i]]
        /\ \A i, j \in Of(t, c) : i < j <=> f[i] < f[j]
        /\ \A k \in Of(s, c) : \E i \in Of(t, c) : f[i] = k
  BY DEF Same
<1>2. /\ LinesOf(t, c) \subseteq Of(t, c) /\ LinesOf(s, c) \subseteq Of(s, c)
      /\ \A i \in Of(t, c) : i \in LinesOf(t, c) <=> f[i] \in LinesOf(s, c)
      /\ \A k \in LinesOf(s, c) : \E i \in LinesOf(t, c) : f[i] = k
  BY <1>1, OfNat
<1>3. ASSUME NEW told, LinesTold(s, c, told) PROVE LinesTold(t, c, told)
  <2>1. \A i \in LinesOf(t, c) : IsLine(t[i].text, told)
    BY <1>1, <1>2, <1>3 DEF LinesTold
  <2>2. ASSUME NEW i \in LinesOf(t, c)
        PROVE  \/ t[i].text[1] = 1
               \/ \E j \in LinesOf(t, c) : j < i /\ t[i].text[1] = EndOf(t[j].text) + 1
    <3>1. f[i] \in LinesOf(s, c) /\ t[i] = s[f[i]]
      BY <1>1, <1>2
    <3>2. CASE s[f[i]].text[1] = 1
      BY <3>1, <3>2
    <3>3. ASSUME NEW k \in LinesOf(s, c), k < f[i], s[f[i]].text[1] = EndOf(s[k].text) + 1
          PROVE  \E j \in LinesOf(t, c) : j < i /\ t[i].text[1] = EndOf(t[j].text) + 1
      <4>1. PICK j \in LinesOf(t, c) : f[j] = k
        BY <1>2
      <4>2. j < i /\ t[j] = s[k]
        BY <1>1, <1>2, <3>3, <4>1
      <4> QED
        BY <3>1, <3>3, <4>2
    <3> QED
      BY <1>3, <3>1, <3>2, <3>3 DEF LinesTold
  <2>3. ASSUME NEW i \in LinesOf(t, c), NEW j \in LinesOf(t, c), i < j
        PROVE  EndOf(t[i].text) < t[j].text[1]
    <3>1. /\ f[i] \in LinesOf(s, c) /\ f[j] \in LinesOf(s, c) /\ f[i] < f[j]
          /\ t[i] = s[f[i]] /\ t[j] = s[f[j]]
      BY <1>1, <1>2, <2>3
    <3> QED
      BY <1>3, <3>1 DEF LinesTold
  <2> QED
    BY <2>1, <2>2, <2>3 DEF LinesTold
<1>4. ASSUME NEW b, UpTo(s, c, b) PROVE UpTo(t, c, b)
  <2>1. \A i \in LinesOf(t, c) : EndOf(t[i].text) <= b
    BY <1>1, <1>2, <1>4 DEF UpTo
  <2>2. ASSUME NEW k \in LinesOf(s, c), EndOf(s[k].text) = b
        PROVE  \E i \in LinesOf(t, c) : EndOf(t[i].text) = b
    BY <1>1, <1>2, <2>2
  <2> QED
    BY <1>4, <2>1, <2>2 DEF UpTo
<1> QED
  BY <1>3, <1>4

LEMMA ToldSame ==
  ASSUME NEW s \in Seq(Message), NEW t \in Seq(Message), NEW c, Same(s, t, c),
         NEW told, NEW i, NEW w, NEW L, NEW p, ClientInv(c, s, told, i, w, L, p)
  PROVE  ClientInv(c, t, told, i, w, L, p)
<1>1. Of(s, c) = {} <=> Of(t, c) = {}
  BY DEF Same
<1>2. p # "destroyed" => Form(t, c, L)
  BY SameForm DEF ClientInv
<1> QED
  BY <1>1, <1>2, SameLines DEF ClientInv

(* A message of another client comes behind the story, or leaves it.       *)
LEMMA AppendOf ==
  ASSUME NEW s \in Seq(Message), NEW m \in Message, NEW c
  PROVE  /\ Append(s, m) \in Seq(Message) /\ Len(s) + 1 \in Nat
         /\ Append(s, m)[Len(s) + 1] = m
         /\ \A i \in Of(s, c) : Append(s, m)[i] = s[i] /\ i < Len(s) + 1 /\ i \in Nat
         /\ \A i : i \in Of(Append(s, m), c) <=>
                     i \in Of(s, c) \/ (i = Len(s) + 1 /\ m.sock = c)
<1>0. PICK n \in Nat : n = Len(s)
  BY LenProperties
<1>1. PICK t : t = Append(s, m) /\ n = Len(s)
  BY <1>0
<1>2. /\ t \in Seq(Message) /\ Len(t) = n + 1 /\ t[n + 1] = m
      /\ \A i \in 1 .. n : t[i] = s[i]
  BY <1>1, AppendProperties
<1>3. \A i : i \in Of(s, c) <=> i \in 1 .. n /\ s[i].sock = c
  BY <1>1, OfNat
<1>4. \A i : i \in Of(t, c) <=> i \in 1 .. n + 1 /\ t[i].sock = c
  BY <1>2, OfNat
<1>5. ASSUME NEW i
      PROVE  i \in Of(t, c) <=> i \in Of(s, c) \/ (i = n + 1 /\ m.sock = c)
  <2>1. CASE i \in 1 .. n
    BY <1>2, <1>3, <1>4, <2>1
  <2>2. CASE i = n + 1
    BY <1>2, <1>3, <1>4, <2>2
  <2>3. i \in 1 .. n + 1 => i \in 1 .. n \/ i = n + 1
    OBVIOUS
  <2> QED
    BY <1>3, <1>4, <2>1, <2>2, <2>3
<1> QED
  BY <1>1, <1>2, <1>3, <1>5

LEMMA SameAside ==
  ASSUME NEW s \in Seq(Message), NEW m \in Message, NEW c, m.sock # c
  PROVE  Append(s, m) \in Seq(Message) /\ Same(s, Append(s, m), c)
<1>0. /\ Append(s, m) \in Seq(Message) /\ Len(s) + 1 \in Nat
      /\ Append(s, m)[Len(s) + 1] = m
      /\ \A i \in Of(s, c) : Append(s, m)[i] = s[i] /\ i < Len(s) + 1 /\ i \in Nat
      /\ \A i : i \in Of(Append(s, m), c) <=>
                  i \in Of(s, c) \/ (i = Len(s) + 1 /\ m.sock = c)
  BY AppendOf
<1>1. PICK t : t = Append(s, m)
  OBVIOUS
<1>2. /\ t \in Seq(Message)
      /\ \A i \in Of(s, c) : t[i] = s[i]
      /\ \A i : i \in Of(t, c) <=> i \in Of(s, c)
  BY <1>0, <1>1
<1>3. Of(t, c) = Of(s, c)
  BY <1>2
<1> DEFINE f == [i \in Of(t, c) |-> i]
<1>4. f \in [Of(t, c) -> Of(s, c)]
  BY <1>3
<1>5. Same(s, t, c)
  BY <1>2, <1>3, <1>4 DEF Same
<1> QED
  BY <1>1, <1>2, <1>5

LEMMA SameDrop ==
  ASSUME NEW h \in Seq(Message), NEW q \in Seq(Message), q # << >>, NEW c,
         Head(q).sock # c
  PROVE  h \o Tail(q) \in Seq(Message) /\ Same(h \o q, h \o Tail(q), c)
<1>0. PICK a \in Nat, b \in Nat : a = Len(h) /\ b = Len(q)
  BY LenProperties
<1>1. PICK s, t, r :
        /\ s = h \o q /\ t = h \o r /\ r = Tail(q) /\ a = Len(h) /\ b = Len(q)
  BY <1>0
<1>2. /\ r \in Seq(Message) /\ b >= 1 /\ Len(r) = b - 1 /\ q[1].sock # c
      /\ \A i \in 1 .. b - 1 : r[i] = q[i + 1]
  <2>1. Len(q) # 0
    BY EmptySeq
  <2>2. /\ Tail(q) \in Seq(Message) /\ Len(Tail(q)) = Len(q) - 1
        /\ \A i \in 1 .. Len(Tail(q)) : Tail(q)[i] = q[i + 1]
    BY HeadTailProperties
  <2> QED
    BY <1>1, <2>1, <2>2
<1>3. /\ s \in Seq(Message) /\ Len(s) = a + b
      /\ \A i \in 1 .. a : s[i] = h[i]
      /\ \A i \in 1 .. b : s[a + i] = q[i]
  BY <1>1, Joined
<1>4. /\ t \in Seq(Message) /\ Len(t) = a + (b - 1)
      /\ \A i \in 1 .. a : t[i] = h[i]
      /\ \A i \in 1 .. b - 1 : t[a + i] = r[i]
  BY <1>1, <1>2, Joined
<1>5. s[a + 1].sock # c
  BY <1>2, <1>3
<1> DEFINE at(i) == IF i <= a THEN i ELSE i + 1
<1>6. ASSUME NEW i \in 1 .. a + (b - 1)
      PROVE  at(i) \in 1 .. a + b /\ t[i] = s[at(i)]
  <2>1. CASE i <= a
    BY <1>2, <1>3, <1>4, <2>1
  <2>2. CASE ~(i <= a)
    <3>1. PICK k \in 1 .. b - 1 : i = a + k
      <4>1. i - a \in 1 .. b - 1 /\ i = a + (i - a)
        BY <1>2, <2>2
      <4> QED
        BY <4>1
    <3>2. k + 1 \in 1 .. b /\ at(i) = a + (k + 1) /\ a + (k + 1) \in 1 .. a + b
      BY <1>2, <2>2, <3>1
    <3>3. t[i] = r[k] /\ r[k] = q[k + 1]
      BY <1>2, <1>4, <3>1
    <3>4. s[a + (k + 1)] = q[k + 1]
      BY <1>3, <3>2
    <3> QED
      BY <3>2, <3>3, <3>4
  <2> QED
    BY <2>1, <2>2
<1>7. \A i : i \in Of(s, c) <=> i \in 1 .. a + b /\ s[i].sock = c
  BY <1>3, OfNat
<1>8. \A i : i \in Of(t, c) <=> i \in 1 .. a + (b - 1) /\ t[i].sock = c
  BY <1>4, OfNat
<1>9. \A i \in Of(t, c) : at(i) \in Of(s, c) /\ t[i] = s[at(i)] /\ i \in Nat
  <2> SUFFICES ASSUME NEW i \in Of(t, c)
               PROVE  at(i) \in Of(s, c) /\ t[i] = s[at(i)] /\ i \in Nat
    OBVIOUS
  <2>1. i \in 1 .. a + (b - 1) /\ t[i].sock = c
    BY <1>8
  <2>2. PICK k : k = at(i)
    OBVIOUS
  <2>3. k \in 1 .. a + b /\ t[i] = s[k]
    BY <1>6, <2>1, <2>2
  <2>4. k \in Of(s, c)
    BY <1>7, <2>1, <2>3
  <2> QED
    BY <2>1, <2>2, <2>3, <2>4
<1>10. ASSUME NEW k \in Of(s, c) PROVE \E i \in Of(t, c) : at(i) = k
  <2>1. k \in 1 .. a + b /\ k # a + 1 /\ s[k].sock = c
    BY <1>5, <1>7
  <2>2. PICK i \in 1 .. a + (b - 1) : at(i) = k
    <3>1. CASE k <= a
      BY <1>2, <2>1, <3>1
    <3>2. CASE ~(k <= a)
      <4>1. k - 1 \in 1 .. a + (b - 1) /\ at(k - 1) = k
        BY <1>2, <2>1, <3>2
      <4> QED
        BY <4>1
    <3> QED
      BY <3>1, <3>2
  <2> HIDE DEF at
  <2>3. t[i].sock = c
    BY <1>6, <2>1, <2>2
  <2> QED
    BY <1>8, <2>2, <2>3
<1>11. \A i, j \in Of(t, c) : i < j <=> at(i) < at(j)
  BY <1>9
<1> DEFINE f == [i \in Of(t, c) |-> at(i)]
<1>12. f \in [Of(t, c) -> Of(s, c)] /\ \A i \in Of(t, c) : f[i] = at(i)
  <2> HIDE DEF at
  <2> QED
    BY <1>9
<1> HIDE DEF f, at
<1>13. Same(s, t, c)
  BY <1>9, <1>10, <1>11, <1>12 DEF Same
<1> QED
  BY <1>1, <1>4, <1>13

(* The story of the client a message is about goes on as it was: what it   *)
(* was told and what waits are cut one later.                              *)
LEMMA HandledStory ==
  ASSUME NEW h \in Seq(Message), NEW q \in Seq(Message), q # << >>
  PROVE  /\ Head(q) \in Message /\ Tail(q) \in Seq(Message)
         /\ Append(h, Head(q)) \in Seq(Message)
         /\ Append(h, Head(q)) \o Tail(q) = h \o q
<1>1. Head(q) \in Message /\ Tail(q) \in Seq(Message) /\ << Head(q) >> \in Seq(Message)
  BY HeadTailProperties
<1>2. Append(h, Head(q)) = h \o << Head(q) >> /\ Append(h, Head(q)) \in Seq(Message)
  BY <1>1, AppendIsConcat, AppendProperties
<1>3. << Head(q) >> \o Tail(q) = q
  BY <1>1, HeadTailProperties
<1>4. (h \o << Head(q) >>) \o Tail(q) = h \o (<< Head(q) >> \o Tail(q))
  BY <1>1, ConcatAssociative
<1> QED
  BY <1>1, <1>2, <1>3, <1>4

LEMMA AppendStory ==
  ASSUME NEW h \in Seq(Message), NEW q \in Seq(Message), NEW m \in Message
  PROVE  h \o Append(q, m) = Append(h \o q, m)
<1>1. << m >> \in Seq(Message) /\ h \o q \in Seq(Message)
  BY ConcatProperties
<1>2. Append(q, m) = q \o << m >> /\ Append(h \o q, m) = (h \o q) \o << m >>
  BY <1>1, AppendIsConcat
<1>3. (h \o q) \o << m >> = h \o (q \o << m >>)
  BY <1>1, ConcatAssociative
<1> QED
  BY <1>2, <1>3

-----------------------------------------------------------------------------
(* What becomes of a client's invariant when it is told more, says more or *)
(* is read.                                                                *)

LEMMA ToldElsewhere ==
  ASSUME NEW c, NEW s, NEW told, NEW i, NEW w, NEW L, NEW p, NEW L2, NEW p2,
         ClientInv(c, s, told, i, w, L, p), c \in L <=> c \in L2,
         p2 # "destroyed" => p # "destroyed"
  PROVE  ClientInv(c, s, told, i, w, L2, p2)
BY DEF ClientInv, Form

(* A line's text is behind the beginning of what was said.                 *)
LEMMA LineBounds ==
  ASSUME NEW s \in Seq(Message), NEW c, NEW told \in Seq(Nat),
         LinesTold(s, c, told), NEW j \in LinesOf(s, c)
  PROVE  /\ s[j].text \in Seq(Nat) /\ s[j].text[1] \in Nat \ {0}
         /\ EndOf(s[j].text) \in 1 .. Len(told)
         /\ \A k \in DOMAIN s[j].text : s[j].text[k] \in 1 .. Len(told)
<1>1. PICK text, e : text = s[j].text /\ e = EndOf(text)
  OBVIOUS
<1>2. /\ text \in Seq(Nat) /\ text # << >> /\ e \in DOMAIN told
      /\ \A k \in DOMAIN text : text[k] = text[1] + k - 1
  BY <1>1, OfNat DEF LinesTold, IsLine
<1>3. PICK n \in Nat : n = Len(text)
  BY <1>2, LenProperties
<1>4. DOMAIN text = 1 .. n /\ n >= 1 /\ DOMAIN told = 1 .. Len(told)
  BY <1>2, <1>3, EmptySeq, LenProperties
<1>5. PICK a \in Nat : a = text[1]
  BY <1>2, <1>4, ElementOfSeq
<1>6. e = a + n
  BY <1>1, <1>3, <1>5 DEF EndOf
<1>7. a # 0
  <2>1. CASE text[1] = 1
    BY <1>5, <2>1
  <2>2. ASSUME NEW k \in LinesOf(s, c), text[1] = EndOf(s[k].text) + 1
        PROVE  a # 0
    <3>1. EndOf(s[k].text) \in Nat
      BY <1>4 DEF LinesTold, IsLine
    <3> QED
      BY <1>5, <2>2, <3>1
  <2> QED
    BY <1>1, <2>1, <2>2 DEF LinesTold
<1>8. \A k \in 1 .. n : text[k] = a + k - 1
  BY <1>2, <1>4, <1>5
<1>9. PICK m \in Nat : m = Len(told)
  BY LenProperties
<1>10. \A k \in 1 .. n : text[k] \in 1 .. m
  BY <1>2, <1>4, <1>6, <1>7, <1>8, <1>9
<1> QED
  BY <1>1, <1>2, <1>3, <1>4, <1>5, <1>7, <1>9, <1>10

(* It says more.                                                           *)
LEMMA SaidLines ==
  ASSUME NEW s \in Seq(Message), NEW c, NEW told \in Seq(Nat), NEW t \in Nat,
         LinesTold(s, c, told)
  PROVE  LinesTold(s, c, Append(told, t))
<1>1. PICK more : more = Append(told, t)
  OBVIOUS
<1>2. DOMAIN told \subseteq DOMAIN more /\ \A k \in 1 .. Len(told) : more[k] = told[k]
  <2>1. /\ Append(told, t) \in Seq(Nat) /\ Len(Append(told, t)) = Len(told) + 1
        /\ \A k \in 1 .. Len(told) : Append(told, t)[k] = told[k]
    BY AppendProperties
  <2>2. PICK n \in Nat : n = Len(told)
    BY LenProperties
  <2>3. DOMAIN more = 1 .. n + 1 /\ DOMAIN told = 1 .. n
    BY <1>1, <2>1, <2>2, LenProperties
  <2> QED
    BY <1>1, <2>1, <2>3
<1>3. ASSUME NEW j \in LinesOf(s, c) PROVE IsLine(s[j].text, more)
  <2>1. PICK text : text = s[j].text
    OBVIOUS
  <2>2. IsLine(text, told)
    BY <2>1 DEF LinesTold
  <2>3. /\ EndOf(text) \in 1 .. Len(told)
        /\ \A k \in DOMAIN text : text[k] \in 1 .. Len(told)
    BY <2>1, LineBounds
  <2>4. EndOf(text) \in DOMAIN more /\ more[EndOf(text)] = LF
    BY <1>2, <2>2, <2>3 DEF IsLine
  <2> QED
    BY <1>2, <2>1, <2>2, <2>3, <2>4 DEF IsLine
<1> QED
  BY <1>1, <1>3 DEF LinesTold

LEMMA ToldSaid ==
  ASSUME NEW c, NEW s \in Seq(Message), NEW told \in Seq(Nat), NEW i \in Seq(Nat),
         NEW w \in Seq(Nat), NEW L, NEW p, ClientInv(c, s, told, i, w, L, p),
         c \in L \/ p = "destroyed", NEW t \in {LF, Len(told) + 1}
  PROVE  ClientInv(c, s, Append(told, t), i, Append(w, t), L, p)
<1>1. PICK n \in Nat, a \in Nat, d \in Nat : n = Len(told) /\ a = Len(i) /\ d = Len(w)
  BY LenProperties
<1>2. t \in Nat /\ t \in {LF, n + 1}
  BY <1>1 DEF LF
<1>3. PICK more, wire2 : more = Append(told, t) /\ wire2 = Append(w, t)
  OBVIOUS
<1>4. /\ more \in Seq(Nat) /\ Len(more) = n + 1 /\ more[n + 1] = t
      /\ \A k \in 1 .. n : more[k] = told[k]
  BY <1>1, <1>2, <1>3, AppendProperties
<1>5. /\ Len(wire2) = d + 1 /\ wire2[d + 1] = t
      /\ \A k \in 1 .. d : wire2[k] = w[k]
  BY <1>1, <1>2, <1>3, AppendProperties
<1>6. LinesTold(s, c, more)
  BY <1>2, <1>3, SaidLines DEF ClientInv
<1>7. \A k \in 1 .. Len(more) : more[k] \in {LF, k}
  <2>1. \A k \in 1 .. n : more[k] \in {LF, k}
    BY <1>1, <1>4 DEF ClientInv
  <2> QED
    BY <1>2, <1>4, <2>1
<1>8. ASSUME NEW b \in Nat, Cut(told, i, w, b) PROVE Cut(more, i, wire2, b)
  <2>1. n = b + a + d
    BY <1>1, <1>8 DEF Cut
  <2>2. \A k \in 1 .. a : i[k] = told[b + k] /\ b + k \in 1 .. n
    BY <1>1, <1>8, <2>1 DEF Cut
  <2>3. \A k \in 1 .. d : w[k] = told[b + a + k] /\ b + a + k \in 1 .. n
    BY <1>1, <1>8, <2>1 DEF Cut
  <2>4. \A k \in 1 .. d + 1 : wire2[k] = more[b + a + k]
    <3>1. \A k \in 1 .. d : wire2[k] = more[b + a + k]
      BY <1>4, <1>5, <2>3
    <3>2. wire2[d + 1] = more[b + a + (d + 1)]
      <4>1. b + a + (d + 1) = n + 1
        BY <2>1
      <4> QED
        BY <1>4, <1>5, <4>1
    <3>3. \A k \in 1 .. d + 1 : k \in 1 .. d \/ k = d + 1
      OBVIOUS
    <3> QED
      BY <3>1, <3>2, <3>3
  <2>5. \A k \in 1 .. a : i[k] = more[b + k]
    BY <1>4, <2>2
  <2>6. n + 1 = b + a + (d + 1)
    BY <2>1
  <2> QED
    BY <1>1, <1>4, <1>5, <2>4, <2>5, <2>6 DEF Cut
<1>9. c \in L => \E b \in Nat : Cut(more, i, wire2, b) /\ UpTo(s, c, b)
  BY <1>8 DEF ClientInv
<1>10. p # "destroyed" => Form(s, c, L) /\ Of(s, c) # {}
  BY DEF ClientInv, Form
<1> QED
  BY <1>3, <1>6, <1>7, <1>9, <1>10 DEF ClientInv

(* Some of it is read.                                                     *)
LEMMA ToldRead ==
  ASSUME NEW c, NEW s \in Seq(Message), NEW told \in Seq(Nat), NEW i \in Seq(Nat),
         NEW w \in Seq(Nat), NEW L, NEW p, ClientInv(c, s, told, i, w, L, p),
         c \in L, NEW n \in 1 .. Len(w)
  PROVE  ClientInv(c, s, told, i \o SubSeq(w, 1, n), SubSeq(w, n + 1, Len(w)), L, p)
<1>1. PICK a \in Nat, d \in Nat : a = Len(i) /\ d = Len(w)
  BY LenProperties
<1>2. n \in Nat /\ n <= d
  BY <1>1
<1>3. PICK r, front, i2 : /\ r = SubSeq(w, n + 1, Len(w)) /\ front = SubSeq(w, 1, n)
                          /\ i2 = i \o front
  OBVIOUS
<1>4. Len(r) = d - n /\ \A k \in 1 .. d - n : r[k] = w[n + k]
  BY <1>1, <1>2, <1>3, Part
<1>5. front \in Seq(Nat) /\ Len(front) = n /\ \A k \in 1 .. n : front[k] = w[k]
  BY <1>1, <1>2, <1>3, Front
<1>6. /\ Len(i2) = a + n
      /\ \A k \in 1 .. a : i2[k] = i[k]
      /\ \A k \in 1 .. n : i2[a + k] = w[k]
  BY <1>1, <1>3, <1>5, Joined
<1>7. ASSUME NEW b \in Nat, Cut(told, i, w, b) PROVE Cut(told, i2, r, b)
  <2>1. /\ Len(told) = b + a + d
        /\ \A k \in 1 .. a : i[k] = told[b + k]
        /\ \A k \in 1 .. d : w[k] = told[b + a + k]
    BY <1>1, <1>7 DEF Cut
  <2>2. Len(told) = b + (a + n) + (d - n)
    BY <1>2, <2>1
  <2>3. ASSUME NEW k \in 1 .. a + n PROVE i2[k] = told[b + k]
    <3>1. CASE k <= a
      BY <1>6, <2>1, <3>1
    <3>2. CASE ~(k <= a)
      <4>1. PICK j \in 1 .. n : k = a + j
        <5>1. k - a \in 1 .. n /\ k = a + (k - a)
          BY <1>2, <3>2
        <5> QED
          BY <5>1
      <4>2. i2[k] = w[j] /\ j \in 1 .. d /\ b + a + j = b + k
        BY <1>2, <1>6, <4>1
      <4> QED
        BY <2>1, <4>2
    <3> QED
      BY <3>1, <3>2
  <2>4. ASSUME NEW k \in 1 .. d - n PROVE r[k] = told[b + (a + n) + k]
    <3>1. n + k \in 1 .. d /\ b + a + (n + k) = b + (a + n) + k
      BY <1>2
    <3> QED
      BY <1>4, <2>1, <3>1
  <2> QED
    BY <1>4, <1>6, <2>2, <2>3, <2>4 DEF Cut
<1>8. p # "destroyed" => Form(s, c, L) /\ Of(s, c) # {}
  BY DEF ClientInv, Form
<1>9. c \in L => \E b \in Nat : Cut(told, i2, r, b) /\ UpTo(s, c, b)
  BY <1>7 DEF ClientInv
<1> QED
  BY <1>3, <1>8, <1>9 DEF ClientInv

(* A line is taken off the buffer and told.                                *)
LineMsg(c, i, n) == Msg(c, "line", SubSeq(i, 1, n - 1))

LEMMA LineTaken ==
  ASSUME NEW c \in Client, NEW told \in Seq(Nat), NEW i \in Seq(Nat), NEW w \in Seq(Nat),
         NEW b \in Nat, Cut(told, i, w, b),
         \A k \in 1 .. Len(told) : told[k] \in {LF, k},
         NEW n \in 2 .. Len(i), i[n] = LF, \A k \in 1 .. n - 1 : i[k] # LF
  PROVE  /\ LineMsg(c, i, n) \in Message
         /\ LineMsg(c, i, n).sock = c /\ LineMsg(c, i, n).kind = "line"
         /\ IsLine(LineMsg(c, i, n).text, told)
         /\ LineMsg(c, i, n).text[1] = b + 1 /\ EndOf(LineMsg(c, i, n).text) = b + n
         /\ SubSeq(i, n + 1, Len(i)) \in Seq(Nat)
         /\ Len(SubSeq(i, n + 1, Len(i))) <= Len(i)
         /\ Cut(told, SubSeq(i, n + 1, Len(i)), w, b + n)
<1>1. PICK a \in Nat, d \in Nat : a = Len(i) /\ d = Len(w)
  BY LenProperties
<1>2. n \in Nat /\ n >= 2 /\ n <= a
  BY <1>1
<1>3. PICK text, r : text = SubSeq(i, 1, n - 1) /\ r = SubSeq(i, n + 1, Len(i))
  OBVIOUS
<1>4. /\ Len(told) = b + a + d
      /\ \A k \in 1 .. a : i[k] = told[b + k]
      /\ \A k \in 1 .. d : w[k] = told[b + a + k]
  BY <1>1 DEF Cut
<1>5. text \in Seq(Nat) /\ Len(text) = n - 1 /\ \A k \in 1 .. n - 1 : text[k] = i[k]
  <2>1. PICK e \in Nat : e = n - 1 /\ e <= a
    BY <1>2
  <2>2. e <= Len(i)
    BY <1>1, <2>1
  <2>3. /\ SubSeq(i, 1, e) \in Seq(Nat) /\ Len(SubSeq(i, 1, e)) = e
        /\ \A k \in 1 .. e : SubSeq(i, 1, e)[k] = i[k]
    BY <2>2, Front
  <2> QED
    BY <1>3, <2>1, <2>3
<1>6. r \in Seq(Nat) /\ Len(r) = a - n /\ \A k \in 1 .. a - n : r[k] = i[n + k]
  <2>1. PICK e \in Nat : e = n /\ e <= Len(i)
    BY <1>1, <1>2
  <2>2. /\ SubSeq(i, e + 1, Len(i)) \in Seq(Nat)
        /\ Len(SubSeq(i, e + 1, Len(i))) = Len(i) - e
        /\ \A k \in 1 .. Len(i) - e : SubSeq(i, e + 1, Len(i))[k] = i[e + k]
    BY <2>1, Rest
  <2> QED
    BY <1>1, <1>3, <2>1, <2>2
<1>7. ASSUME NEW k \in 1 .. n - 1
      PROVE  text[k] = b + k /\ told[b + k] = b + k
  <2>1. k \in 1 .. a /\ b + k \in 1 .. Len(told)
    BY <1>2, <1>4
  <2>2. i[k] = told[b + k] /\ told[b + k] \in {LF, b + k} /\ i[k] # LF
    BY <1>4, <2>1
  <2> QED
    BY <1>5, <2>2
<1>8. text[1] = b + 1 /\ EndOf(text) = b + n
  <2>1. 1 \in 1 .. n - 1
    BY <1>2
  <2>2. text[1] = b + 1
    BY <1>7, <2>1
  <2>3. b + 1 + (n - 1) = b + n
    BY <1>2
  <2> QED
    BY <1>5, <2>2, <2>3 DEF EndOf
<1>9. IsLine(text, told)
  <2>1. text # << >> /\ DOMAIN text = 1 .. n - 1 /\ DOMAIN told = 1 .. Len(told)
    BY <1>2, <1>5, LenProperties, EmptySeq
  <2>2. b + n \in 1 .. Len(told) /\ told[b + n] = LF
    <3>1. n \in 1 .. a /\ b + n \in 1 .. b + a + d
      BY <1>2
    <3> QED
      BY <1>4, <3>1
  <2>3. \A k \in 1 .. n - 1 : text[k] = text[1] + k - 1 /\ told[text[k]] = text[k]
    <3>1. \A k \in 1 .. n - 1 : b + 1 + k - 1 = b + k
      BY <1>2
    <3> QED
      BY <1>7, <1>8, <3>1
  <2> QED
    BY <1>8, <2>1, <2>2, <2>3 DEF IsLine
<1>10. Cut(told, r, w, b + n)
  <2>1. Len(told) = (b + n) + (a - n) + d
    BY <1>2, <1>4
  <2>2. \A k \in 1 .. a - n : r[k] = told[(b + n) + k]
    <3>1. \A k \in 1 .. a - n : n + k \in 1 .. a /\ b + (n + k) = (b + n) + k
      BY <1>2
    <3> QED
      BY <1>4, <1>6, <3>1
  <2>3. \A k \in 1 .. d : w[k] = told[(b + n) + (a - n) + k]
    <3>1. (b + n) + (a - n) = b + a
      BY <1>2
    <3> QED
      BY <1>4, <3>1
  <2> QED
    BY <1>1, <1>6, <2>1, <2>2, <2>3 DEF Cut
<1>11. Len(r) <= Len(i)
  BY <1>1, <1>2, <1>6
<1>12. LineMsg(c, i, n) = [sock |-> c, kind |-> "line", text |-> text]
  BY <1>3 DEF LineMsg, Msg
<1>13. [sock |-> c, kind |-> "line", text |-> text] \in Message
  BY <1>5 DEF Message
<1>14. PICK m : m = LineMsg(c, i, n)
  OBVIOUS
<1>15. m \in Message /\ m.sock = c /\ m.kind = "line" /\ m.text = text
  BY <1>12, <1>13, <1>14
<1> QED
  BY <1>3, <1>6, <1>8, <1>9, <1>10, <1>11, <1>14, <1>15

LEMMA ToldLine ==
  ASSUME NEW c \in Client, NEW s \in Seq(Message), NEW told \in Seq(Nat),
         NEW i \in Seq(Nat), NEW w \in Seq(Nat), NEW L, NEW p,
         ClientInv(c, s, told, i, w, L, p), c \in L, p # "destroyed",
         NEW n \in 2 .. Len(i), i[n] = LF, \A k \in 1 .. n - 1 : i[k] # LF
  PROVE  /\ LineMsg(c, i, n) \in Message
         /\ SubSeq(i, n + 1, Len(i)) \in Seq(Nat)
         /\ Len(SubSeq(i, n + 1, Len(i))) <= Len(i)
         /\ ClientInv(c, Append(s, LineMsg(c, i, n)), told, SubSeq(i, n + 1, Len(i)), w, L, p)
<1>1. PICK b \in Nat : Cut(told, i, w, b) /\ UpTo(s, c, b)
  BY DEF ClientInv
<1>2. PICK m, r : m = LineMsg(c, i, n) /\ r = SubSeq(i, n + 1, Len(i))
  OBVIOUS
<1>a. \A k \in 1 .. Len(told) : told[k] \in {LF, k}
  BY DEF ClientInv
<1>b. /\ LineMsg(c, i, n) \in Message
      /\ LineMsg(c, i, n).sock = c /\ LineMsg(c, i, n).kind = "line"
      /\ IsLine(LineMsg(c, i, n).text, told)
      /\ LineMsg(c, i, n).text[1] = b + 1 /\ EndOf(LineMsg(c, i, n).text) = b + n
      /\ SubSeq(i, n + 1, Len(i)) \in Seq(Nat)
      /\ Len(SubSeq(i, n + 1, Len(i))) <= Len(i)
      /\ Cut(told, SubSeq(i, n + 1, Len(i)), w, b + n)
  BY <1>1, <1>a, LineTaken
<1>3. /\ m \in Message /\ m.sock = c /\ m.kind = "line" /\ IsLine(m.text, told)
      /\ m.text[1] = b + 1 /\ EndOf(m.text) = b + n
      /\ r \in Seq(Nat) /\ Len(r) <= Len(i) /\ Cut(told, r, w, b + n)
  BY <1>2, <1>b
<1>4. PICK t, e : t = Append(s, m) /\ e = Len(s) + 1
  OBVIOUS
<1>d. m \in Message
  BY <1>3
<1>c. /\ Append(s, m) \in Seq(Message) /\ Len(s) + 1 \in Nat
      /\ Append(s, m)[Len(s) + 1] = m
      /\ \A x \in Of(s, c) : Append(s, m)[x] = s[x] /\ x < Len(s) + 1 /\ x \in Nat
      /\ \A x : x \in Of(Append(s, m), c) <=>
                  x \in Of(s, c) \/ (x = Len(s) + 1 /\ m.sock = c)
  BY <1>d, AppendOf
<1>5. /\ t \in Seq(Message) /\ e \in Nat /\ t[e] = m
      /\ \A x \in Of(s, c) : t[x] = s[x] /\ x < e /\ x \in Nat
      /\ \A x : x \in Of(t, c) <=> x \in Of(s, c) \/ x = e
  BY <1>3, <1>4, <1>c
<1>6. \A x : x \in LinesOf(t, c) <=> x \in LinesOf(s, c) \/ x = e
  BY <1>3, <1>5 DEF LinesOf
<1>7. \A x \in LinesOf(s, c) : t[x] = s[x] /\ x < e /\ x \in Of(s, c)
  BY <1>5 DEF LinesOf
<1>8. \A x \in LinesOf(s, c) :
        /\ s[x].text[1] \in Nat /\ EndOf(s[x].text) \in Nat /\ EndOf(s[x].text) <= b
  <2>1. LinesTold(s, c, told)
    BY DEF ClientInv
  <2>2. \A x \in LinesOf(s, c) : EndOf(s[x].text) <= b
    BY <1>1 DEF UpTo
  <2> SUFFICES ASSUME NEW x \in LinesOf(s, c)
               PROVE  /\ s[x].text[1] \in Nat /\ EndOf(s[x].text) \in Nat
                      /\ EndOf(s[x].text) <= b
    OBVIOUS
  <2>3. /\ s[x].text \in Seq(Nat) /\ s[x].text[1] \in Nat \ {0}
        /\ EndOf(s[x].text) \in 1 .. Len(told)
        /\ \A k \in DOMAIN s[x].text : s[x].text[k] \in 1 .. Len(told)
    BY <2>1, LineBounds
  <2>4. EndOf(s[x].text) <= b
    BY <2>2
  <2>5. PICK e1, f1 : e1 = EndOf(s[x].text) /\ f1 = s[x].text[1]
    OBVIOUS
  <2>6. e1 \in Nat /\ f1 \in Nat
    <3>1. e1 \in 1 .. Len(told)
      BY <2>3, <2>5
    <3>2. Len(told) \in Nat
      BY LenProperties
    <3>3. f1 \in Nat \ {0}
      BY <2>3, <2>5
    <3> QED
      BY <3>1, <3>2, <3>3
  <2> QED
    BY <2>4, <2>5, <2>6
<1>9. n \in Nat /\ n >= 2
  BY LenProperties
<1>10. LinesTold(t, c, told)
  <2>1. \A x \in LinesOf(t, c) : IsLine(t[x].text, told)
    BY <1>3, <1>5, <1>6, <1>7 DEF ClientInv, LinesTold
  <2>2. ASSUME NEW x \in LinesOf(t, c)
        PROVE  \/ t[x].text[1] = 1
               \/ \E y \in LinesOf(t, c) : y < x /\ t[x].text[1] = EndOf(t[y].text) + 1
    <3>1. CASE x \in LinesOf(s, c)
      <4>1. t[x] = s[x]
        BY <1>7, <3>1
      <4>2. CASE s[x].text[1] = 1
        BY <4>1, <4>2
      <4>3. ASSUME NEW y \in LinesOf(s, c), y < x, s[x].text[1] = EndOf(s[y].text) + 1
            PROVE  \E z \in LinesOf(t, c) : z < x /\ t[x].text[1] = EndOf(t[z].text) + 1
        <5>1. y \in LinesOf(t, c) /\ t[y] = s[y]
          BY <1>6, <1>7
        <5> QED
          BY <4>1, <4>3, <5>1
      <4> QED
        BY <3>1, <4>2, <4>3 DEF ClientInv, LinesTold
    <3>2. CASE x = e
      <4>1. CASE b = 0
        BY <1>3, <1>5, <3>2, <4>1
      <4>2. ASSUME NEW y \in LinesOf(s, c), EndOf(s[y].text) = b
            PROVE  \E z \in LinesOf(t, c) : z < x /\ t[x].text[1] = EndOf(t[z].text) + 1
        BY <1>3, <1>5, <1>6, <1>7, <3>2, <4>2
      <4> QED
        BY <1>1, <4>1, <4>2 DEF UpTo
    <3> QED
      BY <1>6, <3>1, <3>2
  <2>3. ASSUME NEW x \in LinesOf(t, c), NEW y \in LinesOf(t, c), x < y
        PROVE  EndOf(t[x].text) < t[y].text[1]
    <3>1. x \in LinesOf(s, c)
      <4>1. CASE x = e
        <5>1. y \in Nat /\ (y < e \/ y = e)
          BY <1>5, <1>6, <1>7
        <5> QED
          BY <1>5, <2>3, <4>1, <5>1
      <4> QED
        BY <1>6, <4>1
    <3>2. CASE y \in LinesOf(s, c)
      BY <1>7, <2>3, <3>1, <3>2 DEF ClientInv, LinesTold
    <3>3. CASE y = e
      <4>1. t[y].text[1] = b + 1 /\ t[x] = s[x]
        BY <1>3, <1>5, <1>7, <3>1, <3>3
      <4> QED
        BY <1>8, <3>1, <4>1
    <3> QED
      BY <1>6, <3>2, <3>3
  <2> QED
    BY <2>1, <2>2, <2>3 DEF LinesTold
<1>11. UpTo(t, c, b + n)
  <2>1. ASSUME NEW x \in LinesOf(t, c) PROVE EndOf(t[x].text) <= b + n
    <3>1. CASE x \in LinesOf(s, c)
      <4>1. PICK y \in Nat : y = EndOf(s[x].text) /\ y <= b
        BY <1>8, <3>1
      <4>2. y <= b + n /\ t[x] = s[x]
        BY <1>7, <1>9, <3>1, <4>1
      <4> QED
        BY <4>1, <4>2
    <3>2. CASE x = e
      BY <1>3, <1>5, <1>9, <3>2
    <3> QED
      BY <1>6, <3>1, <3>2
  <2>2. \E x \in LinesOf(t, c) : EndOf(t[x].text) = b + n
    BY <1>3, <1>5, <1>6
  <2> QED
    BY <2>1, <2>2 DEF UpTo
<1>12. Form(t, c, L)
  <2>0. /\ Form(s, c, L) /\ Of(s, c) # {} /\ Tells(s, c, NewMsg(c))
        /\ \A x \in Of(s, c) : s[x].kind # "closed"
    BY DEF ClientInv, Form
  <2>1. NewFirst(t, c)
    <3>1. ASSUME NEW x \in Of(s, c)
          PROVE  t[x].kind = "new" <=> \A y \in Of(t, c) : x <= y
      <4>1. (\A y \in Of(t, c) : x <= y) <=> (\A y \in Of(s, c) : x <= y)
        BY <1>5
      <4> QED
        BY <1>5, <2>0, <4>1 DEF Form, NewFirst
    <3>2. t[e].kind # "new" /\ ~ \A y \in Of(t, c) : e <= y
      BY <1>3, <1>5, <2>0
    <3> QED
      BY <1>5, <3>1, <3>2 DEF NewFirst
  <2>2. \A x \in Of(t, c) : t[x].kind # "closed"
    BY <1>3, <1>5, <2>0
  <2>3. Tells(t, c, NewMsg(c))
    BY <1>5, <2>0 DEF Tells
  <2>4. Of(t, c) # {}
    BY <1>5
  <2> QED
    BY <2>1, <2>2, <2>3, <2>4 DEF Form, ClosedLast
<1>13. b + n \in Nat
  BY <1>9
<1>14. ClientInv(c, t, told, r, w, L, p)
  <2>1. Of(t, c) # {}
    BY <1>5
  <2> QED
    BY <1>3, <1>10, <1>11, <1>12, <1>13, <2>1 DEF ClientInv
<1> QED
  BY <1>2, <1>3, <1>4, <1>14

(* It leaves the list, and that is told.                                   *)
LEMMA ToldClosed ==
  ASSUME NEW c \in Client, NEW s \in Seq(Message), NEW told, NEW i, NEW w,
         NEW L, NEW p, ClientInv(c, s, told, i, w, L, p), c \in L, p # "destroyed",
         NEW L2, c \notin L2, NEW p2
  PROVE  /\ ClosedMsg(c) \in Message
         /\ ClientInv(c, Append(s, ClosedMsg(c)), told, << >>, << >>, L2, p2)
<1>1. PICK m : m = ClosedMsg(c)
  OBVIOUS
<1>2. m \in Message /\ m.sock = c /\ m.kind = "closed"
  BY <1>1 DEF ClosedMsg, Msg, Message
<1>3. m \in Message
  BY <1>2
<1>4. /\ Append(s, m) \in Seq(Message) /\ Len(s) + 1 \in Nat
      /\ Append(s, m)[Len(s) + 1] = m
      /\ \A x \in Of(s, c) : Append(s, m)[x] = s[x] /\ x < Len(s) + 1 /\ x \in Nat
      /\ \A x : x \in Of(Append(s, m), c) <=>
                  x \in Of(s, c) \/ (x = Len(s) + 1 /\ m.sock = c)
  BY <1>3, AppendOf
<1>5. PICK t, e : t = Append(s, m) /\ e = Len(s) + 1
  OBVIOUS
<1>6. /\ e \in Nat /\ t[e] = m
      /\ \A x \in Of(s, c) : t[x] = s[x] /\ x < e /\ x \in Nat
      /\ \A x : x \in Of(t, c) <=> x \in Of(s, c) \/ x = e
  BY <1>2, <1>4, <1>5
<1>7. \A x : x \in LinesOf(t, c) <=> x \in LinesOf(s, c)
  BY <1>2, <1>6 DEF LinesOf
<1>8. \A x \in LinesOf(s, c) : t[x] = s[x]
  BY <1>6 DEF LinesOf
<1>9. LinesOf(t, c) = LinesOf(s, c)
  BY <1>7
<1>10. LinesTold(t, c, told)
  BY <1>8, <1>9 DEF ClientInv, LinesTold
<1>11. Form(t, c, L2)
  <2>0. /\ Form(s, c, L) /\ Of(s, c) # {} /\ Tells(s, c, NewMsg(c))
        /\ \A x \in Of(s, c) : s[x].kind # "closed"
    BY DEF ClientInv, Form
  <2>1. NewFirst(t, c)
    <3>1. ASSUME NEW x \in Of(s, c)
          PROVE  t[x].kind = "new" <=> \A y \in Of(t, c) : x <= y
      <4>1. (\A y \in Of(t, c) : x <= y) <=> (\A y \in Of(s, c) : x <= y)
        BY <1>6
      <4> QED
        BY <1>6, <2>0, <4>1 DEF Form, NewFirst
    <3>2. t[e].kind # "new" /\ ~ \A y \in Of(t, c) : e <= y
      BY <1>2, <1>6, <2>0
    <3> QED
      BY <1>6, <3>1, <3>2 DEF NewFirst
  <2>2. ClosedLast(t, c)
    <3>1. \A x \in Of(s, c) : t[x].kind # "closed"
      BY <1>6, <2>0
    <3>2. \A y \in Of(t, c) : y <= e
      BY <1>6
    <3> QED
      BY <1>6, <3>1, <3>2 DEF ClosedLast
  <2>3. Tells(t, c, NewMsg(c)) /\ Tells(t, c, ClosedMsg(c))
    BY <1>1, <1>6, <2>0 DEF Tells
  <2> QED
    BY <2>1, <2>2, <2>3 DEF Form
<1>12. Of(t, c) # {}
  BY <1>6
<1>13. ClientInv(c, t, told, << >>, << >>, L2, p2)
  BY <1>10, <1>11, <1>12 DEF ClientInv
<1> QED
  BY <1>1, <1>3, <1>5, <1>13

(* It is accepted.                                                         *)
LEMMA ToldNew ==
  ASSUME NEW c \in Client, NEW s \in Seq(Message), NEW told, NEW i, NEW w,
         NEW L, NEW p, ClientInv(c, s, told, i, w, L, p), p # "destroyed",
         Of(s, c) = {}, NEW L2, c \in L2, NEW p2
  PROVE  /\ NewMsg(c) \in Message
         /\ ClientInv(c, Append(s, NewMsg(c)), told, i, w, L2, p2)
<1>1. PICK m : m = NewMsg(c)
  OBVIOUS
<1>2. m \in Message /\ m.sock = c /\ m.kind = "new"
  BY <1>1 DEF NewMsg, Msg, Message
<1>3. m \in Message
  BY <1>2
<1>4. /\ Append(s, m) \in Seq(Message) /\ Len(s) + 1 \in Nat
      /\ Append(s, m)[Len(s) + 1] = m
      /\ \A x \in Of(s, c) : Append(s, m)[x] = s[x] /\ x < Len(s) + 1 /\ x \in Nat
      /\ \A x : x \in Of(Append(s, m), c) <=>
                  x \in Of(s, c) \/ (x = Len(s) + 1 /\ m.sock = c)
  BY <1>3, AppendOf
<1>5. PICK t, e : t = Append(s, m) /\ e = Len(s) + 1
  OBVIOUS
<1>6. e \in Nat /\ t[e] = m /\ \A x : x \in Of(t, c) <=> x = e
  BY <1>2, <1>4, <1>5
<1>7. LinesOf(t, c) = {}
  BY <1>2, <1>6 DEF LinesOf
<1>8. Form(t, c, L2)
  <2>1. NewFirst(t, c) /\ ClosedLast(t, c) /\ Tells(t, c, NewMsg(c)) /\ Of(t, c) # {}
    BY <1>1, <1>2, <1>6 DEF NewFirst, ClosedLast, Tells
  <2> QED
    BY <1>2, <1>6, <2>1 DEF Form
<1>9. told = << >> /\ i = << >> /\ w = << >>
  BY DEF ClientInv
<1>10. Cut(told, i, w, 0) /\ UpTo(t, c, 0)
  BY <1>7, <1>9 DEF Cut, UpTo
<1>11. LinesTold(t, c, told)
  BY <1>7 DEF LinesTold
<1>12. Of(t, c) # {}
  BY <1>6
<1>13. ClientInv(c, t, told, i, w, L2, p2)
  BY <1>8, <1>10, <1>11, <1>12 DEF ClientInv
<1> QED
  BY <1>1, <1>3, <1>5, <1>13

(* What waited is deleted with the server.                                 *)
LEMMA ToldPrefix ==
  ASSUME NEW c, NEW h \in Seq(Message), NEW q \in Seq(Message), NEW told, NEW i, NEW w,
         NEW L, NEW p, ClientInv(c, h \o q, told, i, w, L, p)
  PROVE  ClientInv(c, h \o << >>, told, i, w, {}, "destroyed")
<1>1. PICK a \in Nat, b \in Nat : a = Len(h) /\ b = Len(q)
  BY LenProperties
<1>2. PICK s : s = h \o q
  OBVIOUS
<1>3. s \in Seq(Message) /\ Len(s) = a + b /\ \A x \in 1 .. a : s[x] = h[x]
  BY <1>1, <1>2, Joined
<1>4. \A x : x \in LinesOf(h, c) <=> x \in LinesOf(s, c) /\ x \in 1 .. a
  <2>1. \A x : x \in LinesOf(h, c) <=> x \in 1 .. a /\ h[x].sock = c /\ h[x].kind = "line"
    BY <1>1, OfNat
  <2>2. \A x : x \in LinesOf(s, c) <=> x \in 1 .. a + b /\ s[x].sock = c /\ s[x].kind = "line"
    BY <1>3, OfNat
  <2>3. \A x : x \in 1 .. a => x \in 1 .. a + b
    OBVIOUS
  <2> QED
    BY <1>3, <2>1, <2>2, <2>3
<1>5. \A x \in LinesOf(h, c) : h[x] = s[x] /\ x \in LinesOf(s, c) /\ x \in 1 .. a
  BY <1>3, <1>4
<1>6. \A x \in LinesOf(s, c) : x \in Nat \ {0}
  BY <1>3, OfNat
<1>7. LinesTold(s, c, told)
  BY <1>2 DEF ClientInv
<1>8. LinesTold(h, c, told)
  <2>1. \A x \in LinesOf(h, c) : IsLine(h[x].text, told)
    BY <1>5, <1>7 DEF LinesTold
  <2>2. ASSUME NEW x \in LinesOf(h, c)
        PROVE  \/ h[x].text[1] = 1
               \/ \E y \in LinesOf(h, c) : y < x /\ h[x].text[1] = EndOf(h[y].text) + 1
    <3>1. h[x] = s[x] /\ x \in LinesOf(s, c) /\ x \in 1 .. a
      BY <1>5
    <3>2. CASE s[x].text[1] = 1
      BY <3>1, <3>2
    <3>3. ASSUME NEW y \in LinesOf(s, c), y < x, s[x].text[1] = EndOf(s[y].text) + 1
          PROVE  \E z \in LinesOf(h, c) : z < x /\ h[x].text[1] = EndOf(h[z].text) + 1
      <4>0. PICK z \in Nat \ {0}, v \in 1 .. a : z = y /\ v = x /\ z < v
        BY <1>6, <3>1, <3>3
      <4>1. y \in 1 .. a
        BY <4>0
      <4>2. y \in LinesOf(h, c) /\ h[y] = s[y]
        BY <1>4, <1>5, <4>1
      <4> QED
        BY <3>1, <3>3, <4>2
    <3> QED
      BY <1>7, <3>1, <3>2, <3>3 DEF LinesTold
  <2>3. ASSUME NEW x \in LinesOf(h, c), NEW y \in LinesOf(h, c), x < y
        PROVE  EndOf(h[x].text) < h[y].text[1]
    BY <1>5, <1>7, <2>3 DEF LinesTold
  <2> QED
    BY <2>1, <2>2, <2>3 DEF LinesTold
<1>9. h \o << >> = h
  BY ConcatEmptySeq
<1> QED
  BY <1>8, <1>9 DEF ClientInv

-----------------------------------------------------------------------------
(* The list.                                                               *)

LEMMA SetOf ==
  ASSUME NEW S, NEW s \in Seq(S)
  PROVE  \A x : x \in SE!ToSet(s) <=> \E i \in 1 .. Len(s) : s[i] = x
BY LenProperties DEF SE!ToSet

LEMMA ListedEntries ==
  /\ items \in Seq(Client) =>
       /\ \A x : x \in Listed <=> \E i \in 1 .. Len(items) : items[i] = x
       /\ Listed \subseteq Client
  /\ items' \in Seq(Client) =>
       /\ \A x : x \in Listed' <=> \E i \in 1 .. Len(items') : items'[i] = x
       /\ Listed' \subseteq Client
<1>1. ASSUME NEW s \in Seq(Client)
      PROVE  /\ \A x : x \in SE!ToSet(s) <=> \E i \in 1 .. Len(s) : s[i] = x
             /\ SE!ToSet(s) \subseteq Client
  <2>1. \A x : x \in SE!ToSet(s) <=> \E i \in 1 .. Len(s) : s[i] = x
    BY SetOf
  <2>2. \A i \in 1 .. Len(s) : s[i] \in Client
    BY ElementOfSeq
  <2> QED
    BY <2>1, <2>2
<1> QED
  BY <1>1 DEF Listed

LEMMA RemovalLists ==
  ASSUME NEW s \in Seq(Client), NEW n \in 1 .. Len(s),
         \A i, j \in 1 .. Len(s) : s[i] = s[j] => i = j
  PROVE  /\ Without(s, n) \in Seq(Client) /\ Len(Without(s, n)) = Len(s) - 1
         /\ \A i, j \in 1 .. Len(Without(s, n)) :
              Without(s, n)[i] = Without(s, n)[j] => i = j
         /\ \A x : x \in SE!ToSet(Without(s, n)) <=> x \in SE!ToSet(s) /\ x # s[n]
<1>0. PICK m \in Nat : m = Len(s)
  BY LenProperties
<1>1. PICK t : t = Without(s, n)
  OBVIOUS
<1>2. /\ t \in Seq(Client) /\ Len(t) = m - 1
      /\ \A j \in 1 .. m - 1 : t[j] = IF j < n THEN s[j] ELSE s[j + 1]
  BY <1>0, <1>1, WithoutEntry
<1>3. n \in Nat /\ 1 <= n /\ n <= m
  BY <1>0
<1> DEFINE at(j) == IF j < n THEN j ELSE j + 1
<1>4. \A j \in 1 .. m - 1 : at(j) \in 1 .. m /\ at(j) # n /\ t[j] = s[at(j)]
  BY <1>2, <1>3
<1>5. \A j, k \in 1 .. m - 1 : at(j) = at(k) => j = k
  BY <1>3
<1>6. ASSUME NEW k \in 1 .. m, k # n PROVE \E j \in 1 .. m - 1 : at(j) = k
  <2>1. CASE k < n
    <3>1. k \in 1 .. m - 1 /\ at(k) = k
      BY <1>3, <2>1
    <3> QED
      BY <3>1
  <2>2. CASE ~(k < n)
    <3>1. k - 1 \in 1 .. m - 1 /\ at(k - 1) = k
      BY <1>3, <1>6, <2>2
    <3> QED
      BY <3>1
  <2> QED
    BY <2>1, <2>2
<1> HIDE DEF at
<1>7. ASSUME NEW i \in 1 .. m - 1, NEW j \in 1 .. m - 1, t[i] = t[j] PROVE i = j
  <2>1. at(i) \in 1 .. m /\ at(j) \in 1 .. m /\ s[at(i)] = s[at(j)]
    BY <1>4, <1>7
  <2>2. at(i) = at(j)
    BY <1>0, <2>1
  <2> QED
    BY <1>5, <2>2
<1>8. ASSUME NEW x
      PROVE  x \in SE!ToSet(t) <=> x \in SE!ToSet(s) /\ x # s[n]
  <2>0. x \in SE!ToSet(t) <=> \E j \in 1 .. Len(t) : t[j] = x
    BY <1>2, SetOf
  <2>1. x \in SE!ToSet(t) <=> \E j \in 1 .. m - 1 : t[j] = x
    BY <1>2, <2>0
  <2>2. x \in SE!ToSet(s) <=> \E k \in 1 .. m : s[k] = x
    BY <1>0, SetOf
  <2>3. ASSUME NEW j \in 1 .. m - 1, t[j] = x PROVE (\E k \in 1 .. m : s[k] = x) /\ x # s[n]
    <3>1. PICK k \in 1 .. m : k # n /\ s[k] = x
      BY <1>4, <2>3
    <3>2. s[k] # s[n]
      BY <1>0, <1>3, <3>1
    <3> QED
      BY <3>1, <3>2
  <2>4. ASSUME NEW k \in 1 .. m, s[k] = x, x # s[n] PROVE \E j \in 1 .. m - 1 : t[j] = x
    <3>1. k # n
      BY <2>4
    <3>2. PICK j \in 1 .. m - 1 : at(j) = k
      BY <1>6, <3>1
    <3> QED
      BY <1>4, <2>4, <3>2
  <2> QED
    BY <2>1, <2>2, <2>3, <2>4
<1> QED
  BY <1>0, <1>1, <1>2, <1>7, <1>8

LEMMA Scanned ==
  ASSUME IInv, pc \in {"scan", "extract"}
  PROVE  /\ Len(items) \in Nat /\ cur \in 1 .. Len(items)
         /\ Current \in Client /\ Current \in Listed
<1>1. Len(items) \in Nat /\ cur \in 1 .. Len(items) /\ items \in Seq(Client)
  BY LenProperties DEF IInv, TypeOK, ListInv
<1>2. Current \in Client
  BY <1>1, ElementOfSeq DEF Current
<1> QED
  BY <1>1, <1>2, ListedEntries DEF Current

LEMMA ScanBegins ==
  ASSUME NEW list \in Seq(Client), cur \in 0 .. Len(list), BeginScan(list),
         rset # {} => list # << >>
  PROVE  /\ pc' \in {"messages", "scan"} /\ cur' \in 0 .. Len(list)
         /\ pc' = "scan" => cur' \in 1 .. Len(list)
<1>1. list # << >> => Len(list) \in Nat \ {0}
  BY EmptySeq
<1> QED
  BY <1>1 DEF BeginScan, HeadCursor

LEMMA ScanContinues ==
  ASSUME NEW list \in Seq(Client), NEW from \in 0 .. Len(list),
         ContinueScan(list, from)
  PROVE  /\ pc' \in {"messages", "scan"} /\ cur' \in 0 .. Len(list)
         /\ pc' = "scan" => cur' \in 1 .. Len(list)
BY DEF ContinueScan, NextCursor, NoCurrent

-----------------------------------------------------------------------------
(* The invariant.                                                          *)

LEMMA InitInv == Init => IInv
<1> SUFFICES ASSUME Init PROVE IInv
  OBVIOUS
<1>0. << >> \in Seq(Client) /\ << >> \in Seq(Message) /\ << >> \in Seq(Nat) /\ Len(<< >>) = 0
  BY EmptySeq
<1>1. TypeOK
  <2>1. items \in Seq(Client) /\ que \in Seq(Message) /\ cur \in 0 .. Len(items)
    BY <1>0 DEF Init, NoCurrent
  <2>2. /\ in \in [Client -> Seq(Nat)] /\ said \in [Client -> Seq(Nat)]
        /\ wire \in [Client -> Seq(Nat)] /\ handled \in [Client -> Seq(Message)]
    BY <1>0 DEF Init
  <2>3. \A c \in Client : Len(in[c]) <= MaxIn
    BY <1>0, TelnetConstants DEF Init
  <2> QED
    BY <2>1, <2>2, <2>3 DEF Init, TypeOK
<1>2. Listed = {}
  BY <1>0, ListedEntries DEF Init
<1>3. ListInv
  BY <1>0, <1>2 DEF Init, ListInv
<1>4. ASSUME NEW c \in Client
      PROVE  ClientInv(c, Story(c), said[c], in[c], wire[c], Listed, pc)
  <2>1. Story(c) = << >> /\ said[c] = << >> /\ in[c] = << >> /\ wire[c] = << >>
    BY <1>0, ConcatEmptySeq DEF Init, Story
  <2>2. PICK s : s = << >>
    OBVIOUS
  <2>3. Of(s, c) = {} /\ LinesOf(s, c) = {}
    <3>1. DOMAIN s = {}
      BY <2>2
    <3> QED
      BY <3>1 DEF Of, LinesOf
  <2>4. ClientInv(c, s, << >>, << >>, << >>, {}, "init")
    BY <1>0, <2>3 DEF ClientInv, LinesTold, Form, NewFirst, ClosedLast
  <2> QED
    BY <1>2, <2>1, <2>2, <2>4 DEF Init
<1>5. OnlyExtracted
  BY <1>0 DEF Init, OnlyExtracted
<1> QED
  BY <1>1, <1>3, <1>4, <1>5 DEF IInv, StoryInv

(* What a client said, and its story, whichever variables they are in.     *)
LEMMA Sequences ==
  ASSUME TypeOK, NEW c \in Client
  PROVE  /\ said[c] \in Seq(Nat) /\ in[c] \in Seq(Nat) /\ wire[c] \in Seq(Nat)
         /\ handled[c] \in Seq(Message) /\ que \in Seq(Message)
         /\ Story(c) \in Seq(Message)
BY ConcatProperties DEF TypeOK, Story

(* Steps of the server that only move it on.                               *)
QuietVars == <<items, que, alive, fds, in, peer, said, wire, handled>>

LEMMA QuietInv ==
  ASSUME IInv, UNCHANGED QuietVars, pc # "destroyed",
         pc' \in (Terminal \ {"destroyed"}) \cup {"loop", "selected", "scan", "messages"},
         run' \in BOOLEAN, listenSet' \in BOOLEAN, rset' \subseteq Client,
         cur' \in 0 .. Len(items), pc' = "scan" => cur' \in 1 .. Len(items),
         pc' = "selected" => rset' \subseteq Listed,
         pc' \in Terminal \/ (\A c \in Client : \A i \in 1 .. Len(in[c]) : in[c][i] # LF)
  PROVE  IInv'
<1>1. /\ items' = items /\ que' = que /\ alive' = alive /\ fds' = fds /\ in' = in
      /\ peer' = peer /\ said' = said /\ wire' = wire /\ handled' = handled
  BY DEF QuietVars
<1>2. Listed' = Listed
  BY <1>1 DEF Listed
<1>3. pc' # "destroyed" /\ pc' # "extract"
  BY DEF Terminal
<1>4. TypeOK'
  BY <1>1 DEF IInv, TypeOK
<1>5. ListInv'
  BY <1>1, <1>2, <1>3 DEF IInv, ListInv
<1>6. ASSUME NEW c \in Client
      PROVE  ClientInv(c, Story(c), said[c], in[c], wire[c], Listed, pc)'
  <2>1. Story(c)' = Story(c)
    BY <1>1 DEF Story
  <2>2. ClientInv(c, Story(c), said[c], in[c], wire[c], Listed, pc')
    BY ToldElsewhere DEF IInv, StoryInv
  <2> QED
    BY <1>1, <1>2, <2>1, <2>2
<1>7. OnlyExtracted'
  BY <1>1 DEF OnlyExtracted
<1> QED
  BY <1>4, <1>5, <1>6, <1>7 DEF IInv, StoryInv

LEMMA NoneWhole ==
  ASSUME IInv, pc \notin Terminal \cup {"extract"}
  PROVE  \A c \in Client : \A i \in 1 .. Len(in[c]) : in[c][i] # LF
BY DEF IInv, OnlyExtracted

LEMMA ControlInv ==
  ASSUME IInv, StartServer \/ StopServer \/ Select \/ SelectError \/ StartScan \/ MessagesDone
  PROVE  IInv'
<1>1. /\ UNCHANGED QuietVars /\ pc \notin Terminal \cup {"extract"}
      /\ pc' \in (Terminal \ {"destroyed"}) \cup {"loop", "selected", "scan", "messages"}
      /\ run' \in BOOLEAN /\ listenSet' \in BOOLEAN
  BY DEF StartServer, StopServer, Select, SelectError, StartScan, BeginScan, MessagesDone,
         QuietVars, listVars, objectVars, clientVars, Terminal, IInv, TypeOK
<1>2. \A c \in Client : \A i \in 1 .. Len(in[c]) : in[c][i] # LF
  BY <1>1, NoneWhole
<1>3. items \in Seq(Client) /\ cur \in 0 .. Len(items) /\ rset \subseteq Client
  BY DEF IInv, TypeOK
<1>4. Listed \subseteq Client
  BY <1>3, ListedEntries
<1>5. /\ rset' \subseteq Client /\ cur' \in 0 .. Len(items)
      /\ pc' = "scan" => cur' \in 1 .. Len(items)
      /\ pc' = "selected" => rset' \subseteq Listed
  <2>1. CASE StartServer \/ StopServer \/ SelectError \/ MessagesDone
    BY <1>3, <2>1 DEF StartServer, StopServer, SelectError, MessagesDone, listVars
  <2>2. CASE Select
    BY <1>3, <1>4, <2>2, LenProperties DEF Select, NoCurrent
  <2>3. CASE StartScan
    <3>1. rset # {} => items # << >>
      <4>1. rset \subseteq Listed
        BY <2>3 DEF StartScan, IInv, ListInv
      <4>2. items = << >> => Len(items) = 0
        BY EmptySeq
      <4> QED
        BY <1>3, <4>1, <4>2, ListedEntries
    <3>2. BeginScan(items) /\ rset' = rset
      BY <2>3 DEF StartScan
    <3>3. /\ pc' \in {"messages", "scan"} /\ cur' \in 0 .. Len(items)
          /\ pc' = "scan" => cur' \in 1 .. Len(items)
      BY <1>3, <3>1, <3>2, ScanBegins
    <3> QED
      BY <1>3, <3>2, <3>3
  <2> QED
    BY <2>1, <2>2, <2>3
<1>6. pc # "destroyed"
  BY <1>1 DEF Terminal
<1> QED
  BY <1>1, <1>2, <1>5, <1>6, QuietInv

LEMMA ScanOnInv ==
  ASSUME IInv, ScanSkips \/ ExtractNone \/ ExtractBadLine
  PROVE  IInv'
<1>1. /\ UNCHANGED QuietVars /\ pc \in {"scan", "extract"}
      /\ rset' = rset /\ run' = run /\ listenSet' = listenSet
  BY DEF ScanSkips, ExtractNone, ExtractBadLine, QuietVars, listVars, objectVars, clientVars
<1>2. rset' \subseteq Client /\ run' \in BOOLEAN /\ listenSet' \in BOOLEAN
  BY <1>1 DEF IInv, TypeOK
<1>3. items \in Seq(Client) /\ cur \in 0 .. Len(items)
  BY DEF IInv, TypeOK
<1>4. CASE ExtractBadLine
  <2>1. pc' = "badLine" /\ cur' = cur
    BY <1>4 DEF ExtractBadLine, listVars
  <2> QED
    BY <1>1, <1>2, <1>3, <2>1, QuietInv DEF Terminal
<1>5. CASE ScanSkips \/ ExtractNone
  <2>1. ContinueScan(items, cur)
    BY <1>5 DEF ScanSkips, ExtractNone
  <2>2. /\ pc' \in {"messages", "scan"} /\ cur' \in 0 .. Len(items)
        /\ pc' = "scan" => cur' \in 1 .. Len(items)
    BY <1>3, <2>1, ScanContinues
  <2>3. \A c \in Client : \A i \in 1 .. Len(in[c]) : in[c][i] # LF
    <3>1. CASE ScanSkips
      BY <3>1, NoneWhole DEF ScanSkips, Terminal
    <3>2. CASE ExtractNone
      <4>1. \A i \in 1 .. Len(in[Current]) : in[Current][i] # LF
        <5>1. in[Current] \in Seq(Nat)
          BY <1>1, Scanned, Sequences DEF IInv
        <5> QED
          BY <3>2, <5>1, LenProperties DEF ExtractNone
      <4>2. pc = "extract" /\ pc \notin Terminal
        BY <3>2 DEF ExtractNone, Terminal
      <4> QED
        BY <4>1, <4>2 DEF IInv, OnlyExtracted
    <3> QED
      BY <1>5, <3>1, <3>2
  <2> QED
    BY <1>1, <1>2, <2>2, <2>3, QuietInv
<1> QED
  BY <1>4, <1>5

(* The clients.                                                            *)
LEMMA ClientStepInv == IInv /\ ClientStep => IInv'
<1> SUFFICES ASSUME IInv, ClientStep PROVE IInv'
  OBVIOUS
<1>1. /\ pc' = pc /\ run' = run /\ items' = items /\ cur' = cur /\ que' = que
      /\ alive' = alive /\ fds' = fds /\ in' = in /\ rset' = rset
      /\ listenSet' = listenSet /\ handled' = handled
  BY DEF ClientStep, listVars, objectVars
<1>2. Listed' = Listed /\ Current' = Current
  BY <1>1 DEF Listed, Current
<1>3. ListInv'
  BY <1>1, <1>2 DEF IInv, ListInv
<1>4. OnlyExtracted'
  BY <1>1, <1>2 DEF IInv, OnlyExtracted
<1>5. \A c \in Client : Story(c)' = Story(c)
  BY <1>1 DEF Story
<1>6. PICK c \in Client : Connect(c) \/ Hangup(c) \/ \E t \in {LF} \cup Text : Say(c, t)
  BY DEF ClientStep
<1>7. CASE Connect(c) \/ Hangup(c)
  <2>1. said' = said /\ wire' = wire /\ peer' \in [Client -> {"absent", "open", "gone"}]
    BY <1>7 DEF Connect, Hangup, IInv, TypeOK
  <2>2. TypeOK'
    BY <1>1, <2>1 DEF IInv, TypeOK
  <2>3. StoryInv'
    BY <1>1, <1>2, <1>5, <2>1 DEF IInv, StoryInv
  <2> QED
    BY <1>3, <1>4, <2>2, <2>3 DEF IInv
<1>8. ASSUME NEW t \in {LF} \cup Text, Say(c, t) PROVE IInv'
  <2>1. /\ t \in {LF, Len(said[c]) + 1} /\ c \in fds /\ peer' = peer
        /\ said' = [said EXCEPT ![c] = Append(said[c], t)]
        /\ wire' = [wire EXCEPT ![c] = Append(wire[c], t)]
    BY <1>8 DEF Say
  <2>2. said[c] \in Seq(Nat) /\ wire[c] \in Seq(Nat) /\ in[c] \in Seq(Nat)
        /\ Story(c) \in Seq(Message)
    BY Sequences DEF IInv
  <2>3. t \in Nat
    BY <2>1, <2>2, LenProperties DEF LF
  <2>4. Append(said[c], t) \in Seq(Nat) /\ Append(wire[c], t) \in Seq(Nat)
    BY <2>2, <2>3, AppendProperties
  <2>5. /\ said' \in [Client -> Seq(Nat)] /\ wire' \in [Client -> Seq(Nat)]
        /\ said'[c] = Append(said[c], t) /\ wire'[c] = Append(wire[c], t)
        /\ \A d \in Client \ {c} : said'[d] = said[d] /\ wire'[d] = wire[d]
    BY <2>1, <2>4 DEF IInv, TypeOK
  <2>6. TypeOK'
    BY <1>1, <2>1, <2>5 DEF IInv, TypeOK
  <2>7. c \in Listed \/ pc = "destroyed"
    BY <2>1 DEF IInv, ListInv
  <2>8. ClientInv(c, Story(c), Append(said[c], t), in[c], Append(wire[c], t), Listed, pc)
    BY <2>1, <2>2, <2>7, ToldSaid DEF IInv, StoryInv
  <2>9. ASSUME NEW d \in Client
        PROVE  ClientInv(d, Story(d), said[d], in[d], wire[d], Listed, pc)'
    <3>1. CASE d = c
      BY <1>1, <1>2, <1>5, <2>5, <2>8, <3>1
    <3>2. CASE d # c
      <4>1. ClientInv(d, Story(d), said[d], in[d], wire[d], Listed, pc)
        BY DEF IInv, StoryInv
      <4> QED
        BY <1>1, <1>2, <1>5, <2>5, <3>2, <4>1
    <3> QED
      BY <3>1, <3>2
  <2> QED
    BY <1>3, <1>4, <2>6, <2>9 DEF IInv, StoryInv
<1> QED
  BY <1>6, <1>7, <1>8

(* A client is accepted.                                                   *)
LEMMA AcceptInv == IInv /\ (\E c \in Client : AcceptConnection(c)) => IInv'
<1> SUFFICES ASSUME IInv, NEW c \in Client, AcceptConnection(c) PROVE IInv'
  OBVIOUS
<1>1. /\ items \in Seq(Client) /\ cur \in 0 .. Len(items) /\ que \in Seq(Message)
      /\ alive = Listed /\ fds = Listed /\ pc = "selected"
  BY DEF AcceptConnection, IInv, TypeOK, ListInv
<1>2. /\ items' = Append(items, c) /\ que' = Append(que, NewMsg(c))
      /\ alive' = alive \cup {c} /\ fds' = fds \cup {c} /\ listenSet' = FALSE
      /\ run' = run /\ in' = in /\ rset' = rset /\ peer' = peer /\ said' = said
      /\ wire' = wire /\ handled' = handled
  BY DEF AcceptConnection, clientVars
<1>3. PICK n \in Nat : n = Len(items)
  BY <1>1, LenProperties
<1>4. /\ items' \in Seq(Client) /\ Len(items') = n + 1 /\ items'[n + 1] = c
      /\ \A j \in 1 .. n : items'[j] = items[j]
  BY <1>1, <1>2, <1>3, AppendProperties
<1>5. Of(Story(c), c) = {}
  <2>1. c \in Waiting
    BY DEF AcceptConnection
  <2>2. handled[c] = << >> /\ NewMsg(c) \notin SE!ToSet(que)
    BY <2>1 DEF Waiting
  <2>3. Story(c) = que
    BY <1>1, <2>2, ConcatEmptySeq DEF Story
  <2>4. ~Tells(que, c, NewMsg(c))
    <3>1. \A i \in 1 .. Len(que) : que[i] # NewMsg(c)
      BY <1>1, <2>2, SetOf
    <3> QED
      BY <1>1, <3>1, OfNat DEF Tells
  <2>5. Form(Story(c), c, Listed)
    BY <1>1 DEF IInv, StoryInv, ClientInv
  <2> QED
    BY <2>3, <2>4, <2>5 DEF Form
<1>6. c \notin Listed
  <2>1. Form(Story(c), c, Listed)
    BY <1>1 DEF IInv, StoryInv, ClientInv
  <2> QED
    BY <1>5, <2>1 DEF Form
<1>7. \A x : x \in Listed' <=> x \in Listed \/ x = c
  <2>1. \A x : x \in Listed' <=> \E i \in 1 .. n + 1 : items'[i] = x
    BY <1>4, ListedEntries
  <2>2. \A x : x \in Listed <=> \E i \in 1 .. n : items[i] = x
    BY <1>1, <1>3, ListedEntries
  <2>3. \A i : i \in 1 .. n + 1 <=> i \in 1 .. n \/ i = n + 1
    OBVIOUS
  <2> QED
    BY <1>4, <2>1, <2>2, <2>3
<1>8. /\ pc' \in {"messages", "scan"} /\ cur' \in 0 .. Len(items')
      /\ pc' = "scan" => cur' \in 1 .. Len(items')
  <2>1. BeginScan(items') /\ items' # << >> /\ cur \in 0 .. Len(items')
    BY <1>1, <1>3, <1>4, EmptySeq DEF AcceptConnection
  <2> QED
    BY <1>4, <2>1, ScanBegins
<1>9. NewMsg(c) \in Message
  BY DEF NewMsg, Msg, Message
<1>10. que' \in Seq(Message)
  BY <1>1, <1>2, <1>9, AppendProperties
<1>11. TypeOK'
  BY <1>2, <1>4, <1>8, <1>10 DEF IInv, TypeOK
<1>12. ListInv'
  <2>1. \A i, j \in 1 .. n : items[i] = items[j] => i = j
    BY <1>3 DEF IInv, ListInv
  <2>2. \A i \in 1 .. n : items[i] # c
    BY <1>1, <1>3, <1>6, ListedEntries
  <2>3. \A i, j \in 1 .. n + 1 : items'[i] = items'[j] => i = j
    <3>1. \A i : i \in 1 .. n + 1 <=> i \in 1 .. n \/ i = n + 1
      OBVIOUS
    <3> QED
      BY <1>4, <2>1, <2>2, <3>1
  <2>4. alive' = Listed' /\ fds' = Listed'
    BY <1>1, <1>2, <1>7
  <2> QED
    BY <1>4, <1>8, <2>3, <2>4 DEF ListInv
<1>13. ASSUME NEW d \in Client
       PROVE  ClientInv(d, Story(d), said[d], in[d], wire[d], Listed, pc)'
  <2>1. /\ ClientInv(d, Story(d), said[d], in[d], wire[d], Listed, pc)
        /\ Story(d) \in Seq(Message) /\ handled[d] \in Seq(Message)
    BY Sequences DEF IInv, StoryInv
  <2>2. Story(d)' = Append(Story(d), NewMsg(c))
    BY <1>1, <1>2, <1>9, <2>1, AppendStory DEF Story
  <2>3. CASE d = c
    <3>1. ClientInv(c, Append(Story(c), NewMsg(c)), said[c], in[c], wire[c], Listed', pc')
      BY <1>1, <1>5, <1>7, <2>1, <2>3, ToldNew
    <3> QED
      BY <1>2, <2>2, <2>3, <3>1
  <2>4. CASE d # c
    <3>1. NewMsg(c).sock # d
      BY <2>4 DEF NewMsg, Msg
    <3>2. /\ Append(Story(d), NewMsg(c)) \in Seq(Message)
          /\ Same(Story(d), Append(Story(d), NewMsg(c)), d)
      BY <1>9, <2>1, <3>1, SameAside
    <3>3. ClientInv(d, Append(Story(d), NewMsg(c)), said[d], in[d], wire[d], Listed, pc)
      BY <2>1, <3>2, ToldSame
    <3>4. ClientInv(d, Append(Story(d), NewMsg(c)), said[d], in[d], wire[d], Listed', pc')
      BY <1>1, <1>7, <2>4, <3>3, ToldElsewhere
    <3> QED
      BY <1>2, <2>2, <3>4
  <2> QED
    BY <2>3, <2>4
<1>14. OnlyExtracted'
  <2>1. \A d \in Client : \A i \in 1 .. Len(in[d]) : in[d][i] # LF
    BY <1>1, NoneWhole DEF Terminal
  <2> QED
    BY <1>2, <2>1 DEF OnlyExtracted
<1> QED
  BY <1>11, <1>12, <1>13, <1>14 DEF IInv, StoryInv

(* The current client is read, and lines are taken off.                    *)
LEMMA OneClientInv ==
  ASSUME IInv, pc \in {"scan", "extract"}, pc' = "extract",
         UNCHANGED <<run, listVars, objectVars, rset, listenSet, clientVars, handled>>,
         que' \in Seq(Message),
         in' \in [Client -> Seq(Nat)], wire' \in [Client -> Seq(Nat)],
         Len(in'[Current]) <= MaxIn,
         \A d \in Client \ {Current} : in'[d] = in[d] /\ wire'[d] = wire[d],
         \A d \in Client : ClientInv(d, handled[d] \o que', said[d], in'[d], wire'[d], Listed, pc)
  PROVE  IInv'
<1>1. /\ run' = run /\ items' = items /\ cur' = cur /\ alive' = alive /\ fds' = fds
      /\ rset' = rset /\ listenSet' = listenSet /\ peer' = peer /\ said' = said
      /\ handled' = handled
  BY DEF listVars, objectVars, clientVars
<1>2. Listed' = Listed /\ Current' = Current
  BY <1>1 DEF Listed, Current
<1>3. /\ Current \in Client /\ cur \in 1 .. Len(items)
  BY Scanned
<1>4. TypeOK'
  <2>1. \A d \in Client : Len(in'[d]) <= MaxIn
    BY DEF IInv, TypeOK
  <2> QED
    BY <1>1, <2>1 DEF IInv, TypeOK
<1>5. ListInv'
  BY <1>1, <1>2, <1>3 DEF IInv, ListInv
<1>6. ASSUME NEW d \in Client
      PROVE  ClientInv(d, Story(d), said[d], in[d], wire[d], Listed, pc)'
  <2>1. ClientInv(d, handled[d] \o que', said[d], in'[d], wire'[d], Listed, pc')
    BY ToldElsewhere
  <2> QED
    BY <1>1, <1>2, <2>1 DEF Story
<1>7. OnlyExtracted'
  <2>1. \A d \in Client \ {Current} : \A i \in 1 .. Len(in[d]) : in[d][i] # LF
    BY DEF IInv, OnlyExtracted, Terminal
  <2> QED
    BY <1>2, <2>1 DEF OnlyExtracted
<1> QED
  BY <1>4, <1>5, <1>6, <1>7 DEF IInv, StoryInv

LEMMA ReadsInv == IInv /\ (\E k \in 1 .. MaxIn : ScanReads(k)) => IInv'
<1> SUFFICES ASSUME IInv, NEW k \in 1 .. MaxIn, ScanReads(k) PROVE IInv'
  OBVIOUS
<1>1. PICK c \in Client : c = Current /\ c \in Listed
  BY Scanned DEF ScanReads
<1>2. /\ k \in 1 .. Len(wire[c]) /\ Len(in[c]) + k <= MaxIn
      /\ in' = [in EXCEPT ![c] = in[c] \o SubSeq(wire[c], 1, k)]
      /\ wire' = [wire EXCEPT ![c] = SubSeq(wire[c], k + 1, Len(wire[c]))]
      /\ pc = "scan" /\ pc' = "extract" /\ que' = que
      /\ UNCHANGED <<run, listVars, objectVars, rset, listenSet, clientVars, handled>>
  BY <1>1 DEF ScanReads
<1>3. said[c] \in Seq(Nat) /\ in[c] \in Seq(Nat) /\ wire[c] \in Seq(Nat)
      /\ Story(c) \in Seq(Message)
  BY Sequences DEF IInv
<1>4. PICK d \in Nat, n \in Nat : d = Len(wire[c]) /\ n = Len(in[c])
  BY <1>3, LenProperties
<1>5. k \in Nat /\ k <= d /\ 0 <= k
  BY <1>2, <1>4
<1>6. SubSeq(wire[c], k + 1, Len(wire[c])) \in Seq(Nat)
  BY <1>3, <1>4, <1>5, Part
<1>7. SubSeq(wire[c], 1, k) \in Seq(Nat) /\ Len(SubSeq(wire[c], 1, k)) = k
  BY <1>3, <1>4, <1>5, Front
<1>8. /\ in[c] \o SubSeq(wire[c], 1, k) \in Seq(Nat)
      /\ Len(in[c] \o SubSeq(wire[c], 1, k)) = Len(in[c]) + k
  <2>1. /\ in[c] \o SubSeq(wire[c], 1, k) \in Seq(Nat)
        /\ Len(in[c] \o SubSeq(wire[c], 1, k)) = Len(in[c]) + Len(SubSeq(wire[c], 1, k))
    BY <1>3, <1>7, ConcatProperties
  <2> QED
    BY <1>7, <2>1
<1>9. /\ in' \in [Client -> Seq(Nat)] /\ in'[c] = in[c] \o SubSeq(wire[c], 1, k)
      /\ wire' \in [Client -> Seq(Nat)]
      /\ wire'[c] = SubSeq(wire[c], k + 1, Len(wire[c]))
      /\ \A x \in Client \ {c} : in'[x] = in[x] /\ wire'[x] = wire[x]
  BY <1>2, <1>6, <1>8 DEF IInv, TypeOK
<1>10. ClientInv(c, Story(c), said[c], in[c] \o SubSeq(wire[c], 1, k),
                 SubSeq(wire[c], k + 1, Len(wire[c])), Listed, pc)
  <2>1. ClientInv(c, Story(c), said[c], in[c], wire[c], Listed, pc)
    BY DEF IInv, StoryInv
  <2> QED
    BY <1>1, <1>2, <1>3, <2>1, ToldRead
<1>11. ASSUME NEW x \in Client
       PROVE  ClientInv(x, handled[x] \o que', said[x], in'[x], wire'[x], Listed, pc)
  <2>1. CASE x = c
    BY <1>2, <1>9, <1>10, <2>1 DEF Story
  <2>2. CASE x # c
    <3>1. ClientInv(x, Story(x), said[x], in[x], wire[x], Listed, pc)
      BY DEF IInv, StoryInv
    <3> QED
      BY <1>2, <1>9, <2>2, <3>1 DEF Story
  <2> QED
    BY <2>1, <2>2
<1>12. que' \in Seq(Message) /\ Len(in'[Current]) <= MaxIn
  BY <1>1, <1>2, <1>8, <1>9 DEF IInv, TypeOK
<1> QED
  BY <1>1, <1>2, <1>9, <1>11, <1>12, OneClientInv

LEMMA LineInv == IInv /\ (\E n \in 1 .. MaxIn : ExtractLine(n)) => IInv'
<1> SUFFICES ASSUME IInv, NEW n \in 1 .. MaxIn, ExtractLine(n) PROVE IInv'
  OBVIOUS
<1>1. PICK c \in Client : c = Current /\ c \in Listed
  BY Scanned DEF ExtractLine
<1>2. PICK m, r : m = LineMsg(c, in[c], n) /\ r = SubSeq(in[c], n + 1, Len(in[c]))
  OBVIOUS
<1>3. /\ n \in 2 .. Len(in[c]) /\ in[c][n] = LF /\ \A i \in 1 .. n - 1 : in[c][i] # LF
      /\ que' = Append(que, m) /\ in' = [in EXCEPT ![c] = r] /\ wire' = wire
      /\ pc = "extract" /\ pc' = "extract"
      /\ UNCHANGED <<run, listVars, objectVars, rset, listenSet, clientVars, handled>>
  BY <1>1, <1>2 DEF ExtractLine, LineMsg
<1>4. /\ said[c] \in Seq(Nat) /\ in[c] \in Seq(Nat) /\ wire[c] \in Seq(Nat)
      /\ Story(c) \in Seq(Message) /\ que \in Seq(Message)
  BY Sequences DEF IInv
<1>5. ClientInv(c, Story(c), said[c], in[c], wire[c], Listed, pc)
  BY DEF IInv, StoryInv
<1>6. /\ LineMsg(c, in[c], n) \in Message
      /\ SubSeq(in[c], n + 1, Len(in[c])) \in Seq(Nat)
      /\ Len(SubSeq(in[c], n + 1, Len(in[c]))) <= Len(in[c])
      /\ ClientInv(c, Append(Story(c), LineMsg(c, in[c], n)), said[c],
                   SubSeq(in[c], n + 1, Len(in[c])), wire[c], Listed, pc)
  BY <1>1, <1>3, <1>4, <1>5, ToldLine
<1>7. m \in Message /\ m.sock = c
  BY <1>2, <1>6 DEF LineMsg, Msg
<1>8. /\ in' \in [Client -> Seq(Nat)] /\ in'[c] = r /\ wire' \in [Client -> Seq(Nat)]
      /\ \A x \in Client \ {c} : in'[x] = in[x] /\ wire'[x] = wire[x]
  BY <1>2, <1>3, <1>6 DEF IInv, TypeOK
<1>9. que' \in Seq(Message)
  BY <1>3, <1>4, <1>7, AppendProperties
<1>10. Len(in'[Current]) <= MaxIn
  <2>1. PICK a \in Nat, b \in Nat : a = Len(in[c]) /\ b = Len(r)
    BY <1>2, <1>4, <1>6, LenProperties
  <2>2. b <= a /\ a <= MaxIn
    BY <1>2, <1>6, <2>1 DEF IInv, TypeOK
  <2>3. b <= MaxIn
    BY <2>2, TelnetConstants
  <2> QED
    BY <1>1, <1>8, <2>1, <2>3
<1>11. ASSUME NEW x \in Client
       PROVE  ClientInv(x, handled[x] \o que', said[x], in'[x], wire'[x], Listed, pc)
  <2>1. /\ ClientInv(x, Story(x), said[x], in[x], wire[x], Listed, pc)
        /\ Story(x) \in Seq(Message) /\ handled[x] \in Seq(Message)
    BY Sequences DEF IInv, StoryInv
  <2>2. handled[x] \o que' = Append(Story(x), m)
    BY <1>3, <1>4, <1>7, <2>1, AppendStory DEF Story
  <2>3. CASE x = c
    BY <1>2, <1>3, <1>6, <1>8, <2>2, <2>3
  <2>4. CASE x # c
    <3>1. Same(Story(x), Append(Story(x), m), x) /\ Append(Story(x), m) \in Seq(Message)
      BY <1>7, <2>1, <2>4, SameAside
    <3>2. ClientInv(x, Append(Story(x), m), said[x], in[x], wire[x], Listed, pc)
      BY <2>1, <3>1, ToldSame
    <3> QED
      BY <1>8, <2>2, <2>4, <3>2
  <2> QED
    BY <2>3, <2>4
<1> QED
  BY <1>1, <1>3, <1>8, <1>9, <1>10, <1>11, OneClientInv

(* A message is taken off the queue and told: the stories stay.            *)
LEMMA HandleStories ==
  ASSUME IInv, que # << >>, Handle(Head(que))
  PROVE  /\ Head(que) \in Message /\ Tail(que) \in Seq(Message)
         /\ handled' \in [Client -> Seq(Message)]
         /\ \A d \in Client :
              /\ handled'[d] \in Seq(Message) /\ handled'[d] \o Tail(que) \in Seq(Message)
              /\ ClientInv(d, handled'[d] \o Tail(que), said[d], in[d], wire[d], Listed, pc)
<1>1. que \in Seq(Message) /\ handled \in [Client -> Seq(Message)]
  BY DEF IInv, TypeOK
<1>2. Head(que) \in Message /\ Tail(que) \in Seq(Message)
  BY <1>1, HeadTailProperties
<1>3. PICK c \in Client : c = Head(que).sock
  BY <1>2 DEF Message
<1>4. handled' = [handled EXCEPT ![c] = Append(handled[c], Head(que))]
  BY <1>3 DEF Handle
<1>5. /\ Append(handled[c], Head(que)) \in Seq(Message)
      /\ Append(handled[c], Head(que)) \o Tail(que) = handled[c] \o que
  BY <1>1, HandledStory
<1>6. /\ handled' \in [Client -> Seq(Message)]
      /\ handled'[c] = Append(handled[c], Head(que))
      /\ \A d \in Client \ {c} : handled'[d] = handled[d]
  BY <1>1, <1>4, <1>5
<1>7. ASSUME NEW d \in Client
      PROVE  ClientInv(d, handled'[d] \o Tail(que), said[d], in[d], wire[d], Listed, pc)
  <2>1. ClientInv(d, handled[d] \o que, said[d], in[d], wire[d], Listed, pc)
    BY DEF IInv, StoryInv, Story
  <2>2. CASE d = c
    BY <1>5, <1>6, <2>1, <2>2
  <2>3. CASE d # c
    <3>1. handled[d] \in Seq(Message) /\ handled'[d] = handled[d]
      BY <1>1, <1>6, <2>3
    <3>2. /\ handled[d] \o Tail(que) \in Seq(Message)
          /\ Same(handled[d] \o que, handled[d] \o Tail(que), d)
      BY <1>1, <1>3, <2>3, <3>1, SameDrop
    <3>3. handled[d] \o que \in Seq(Message)
      BY <1>1, <3>1, ConcatProperties
    <3> QED
      BY <2>1, <3>1, <3>2, <3>3, ToldSame
  <2> QED
    BY <2>2, <2>3
<1>8. \A d \in Client : handled'[d] \in Seq(Message) /\ handled'[d] \o Tail(que) \in Seq(Message)
  BY <1>2, <1>6, ConcatProperties
<1> QED
  BY <1>2, <1>6, <1>7, <1>8

LEMMA HandledInv == IInv /\ (MsgHandled \/ MsgKill) => IInv'
<1> SUFFICES ASSUME IInv, MsgHandled \/ MsgKill PROVE IInv'
  OBVIOUS
<1>1. /\ pc = "messages" /\ que # << >> /\ Handle(Head(que)) /\ que' = Tail(que)
      /\ pc' = pc /\ run' \in BOOLEAN /\ items' = items /\ cur' = cur /\ alive' = alive
      /\ fds' = fds /\ in' = in /\ rset' = rset /\ listenSet' = listenSet /\ peer' = peer
      /\ said' = said /\ wire' = wire
  BY DEF MsgHandled, MsgKill, listVars, objectVars, clientVars, IInv, TypeOK
<1>2. /\ Tail(que) \in Seq(Message) /\ handled' \in [Client -> Seq(Message)]
      /\ \A d \in Client :
           ClientInv(d, handled'[d] \o Tail(que), said[d], in[d], wire[d], Listed, pc)
  BY <1>1, HandleStories
<1>3. Listed' = Listed
  BY <1>1 DEF Listed
<1>4. TypeOK'
  BY <1>1, <1>2 DEF IInv, TypeOK
<1>5. ListInv'
  BY <1>1, <1>3 DEF IInv, ListInv
<1>6. StoryInv'
  BY <1>1, <1>2, <1>3 DEF StoryInv, Story
<1>7. OnlyExtracted'
  BY <1>1, NoneWhole DEF OnlyExtracted, Terminal
<1> QED
  BY <1>4, <1>5, <1>6, <1>7 DEF IInv

(* A client is taken out of the list, and pcClosed put behind q.           *)
LEMMA Removed ==
  ASSUME IInv, pc # "destroyed", NEW q \in Seq(Message), NEW n \in 1 .. Len(items),
         NEW c \in Client, items[n] = c,
         \A d \in Client :
           /\ handled'[d] \in Seq(Message)
           /\ ClientInv(d, handled'[d] \o q, said[d], in[d], wire[d], Listed, pc),
         que' = Append(q, ClosedMsg(c)), items' = Without(items, n),
         alive' = alive \ {c}, fds' = fds \ {c},
         in' = [in EXCEPT ![c] = << >>], wire' = [wire EXCEPT ![c] = << >>],
         said' = said, pc' # "destroyed"
  PROVE  /\ que' \in Seq(Message) /\ items' \in Seq(Client) /\ Len(items') = Len(items) - 1
         /\ alive' \subseteq Client /\ fds' \subseteq Client
         /\ in' \in [Client -> Seq(Nat)] /\ wire' \in [Client -> Seq(Nat)]
         /\ \A d \in Client : Len(in'[d]) <= MaxIn
         /\ \A i, j \in 1 .. Len(items') : items'[i] = items'[j] => i = j
         /\ alive' = Listed' /\ fds' = Listed'
         /\ \A d \in Client : \A i \in 1 .. Len(in'[d]) :
              d # c /\ in'[d] = in[d] /\ i \in 1 .. Len(in[d])
         /\ StoryInv'
<1>0. << >> \in Seq(Nat) /\ Len(<< >>) = 0
  BY EmptySeq
<1>1. /\ items \in Seq(Client) /\ alive = Listed /\ fds = Listed /\ Listed \subseteq Client
      /\ \A i, j \in 1 .. Len(items) : items[i] = items[j] => i = j
  BY ListedEntries DEF IInv, TypeOK, ListInv
<1>2. /\ items' \in Seq(Client) /\ Len(items') = Len(items) - 1
      /\ \A i, j \in 1 .. Len(items') : items'[i] = items'[j] => i = j
      /\ \A x : x \in SE!ToSet(items') <=> x \in SE!ToSet(items) /\ x # items[n]
  BY <1>1, RemovalLists
<1>3. \A x : x \in Listed' <=> x \in Listed /\ x # c
  BY <1>2 DEF Listed
<1>4. c \in Listed
  BY <1>1, ListedEntries
<1>5. ClosedMsg(c) \in Message /\ ClosedMsg(c).sock = c
  BY DEF ClosedMsg, Msg, Message
<1>6. que' \in Seq(Message)
  BY <1>5, AppendProperties
<1>7. /\ in' \in [Client -> Seq(Nat)] /\ wire' \in [Client -> Seq(Nat)]
      /\ in'[c] = << >> /\ wire'[c] = << >>
      /\ \A d \in Client \ {c} : in'[d] = in[d] /\ wire'[d] = wire[d]
  BY <1>0 DEF IInv, TypeOK
<1>8. \A d \in Client : Len(in'[d]) <= MaxIn
  <2>1. 0 <= MaxIn
    BY TelnetConstants
  <2> QED
    BY <1>0, <1>7, <2>1 DEF IInv, TypeOK
<1>9. \A d \in Client : \A i \in 1 .. Len(in'[d]) :
        d # c /\ in'[d] = in[d] /\ i \in 1 .. Len(in[d])
  BY <1>0, <1>7
<1>10. ASSUME NEW d \in Client
       PROVE  ClientInv(d, Story(d), said[d], in[d], wire[d], Listed, pc)'
  <2>1. PICK s : s = handled'[d] \o q
    OBVIOUS
  <2>2. /\ handled'[d] \in Seq(Message) /\ s \in Seq(Message)
        /\ ClientInv(d, s, said[d], in[d], wire[d], Listed, pc)
    BY <2>1, ConcatProperties
  <2>3. Story(d)' = Append(s, ClosedMsg(c))
    BY <1>5, <2>1, <2>2, AppendStory DEF Story
  <2>4. CASE d = c
    <3>1. c \notin Listed'
      BY <1>3
    <3>2. ClientInv(c, s, said[c], in[c], wire[c], Listed, pc)
      BY <2>2, <2>4
    <3>3. ClientInv(c, Append(s, ClosedMsg(c)), said[c], << >>, << >>, Listed', pc')
      BY <1>4, <2>2, <3>1, <3>2, ToldClosed
    <3> QED
      BY <1>7, <2>3, <2>4, <3>3
  <2>5. CASE d # c
    <3>1. /\ Append(s, ClosedMsg(c)) \in Seq(Message)
          /\ Same(s, Append(s, ClosedMsg(c)), d)
      BY <1>5, <2>2, <2>5, SameAside
    <3>2. ClientInv(d, Append(s, ClosedMsg(c)), said[d], in[d], wire[d], Listed, pc)
      BY <2>2, <3>1, ToldSame
    <3>3. ClientInv(d, Append(s, ClosedMsg(c)), said[d], in[d], wire[d], Listed', pc')
      BY <1>3, <2>5, <3>2, ToldElsewhere
    <3> QED
      BY <1>7, <2>3, <2>5, <3>3
  <2> QED
    BY <2>4, <2>5
<1>11. alive' = Listed' /\ fds' = Listed'
  BY <1>1, <1>3
<1>12. alive' \subseteq Client /\ fds' \subseteq Client
  BY <1>1
<1> QED
  BY <1>2, <1>6, <1>7, <1>8, <1>9, <1>10, <1>11, <1>12 DEF StoryInv

LEMMA ClosesInv == IInv /\ ScanCloses => IInv'
<1> SUFFICES ASSUME IInv, ScanCloses PROVE IInv'
  OBVIOUS
<1>1. PICK c \in Client : c = Current /\ c \in Listed
  BY Scanned DEF ScanCloses
<1>2. Len(items) \in Nat /\ cur \in 1 .. Len(items) /\ items[cur] = c
  BY <1>1, Scanned DEF ScanCloses, Current
<1>3. /\ pc = "scan" /\ que' = Append(que, ClosedMsg(c)) /\ items' = Without(items, cur)
      /\ alive' = alive \ {c} /\ fds' = fds \ {c}
      /\ in' = [in EXCEPT ![c] = << >>] /\ wire' = [wire EXCEPT ![c] = << >>]
      /\ ContinueScan(items', CursorAfterRemovePrev(cur))
      /\ run' = run /\ rset' = rset /\ listenSet' = listenSet /\ peer' = peer
      /\ said' = said /\ handled' = handled
  BY <1>1 DEF ScanCloses, clientVars
<1>4. pc' \in {"messages", "scan"}
  BY <1>3 DEF ContinueScan
<1>5. \A d \in Client :
        /\ handled'[d] \in Seq(Message)
        /\ ClientInv(d, handled'[d] \o que, said[d], in[d], wire[d], Listed, pc)
  BY <1>3 DEF IInv, TypeOK, StoryInv, Story
<1>6. que \in Seq(Message) /\ pc # "destroyed" /\ pc' # "destroyed"
  BY <1>3, <1>4 DEF IInv, TypeOK
<1>7. /\ que' \in Seq(Message) /\ items' \in Seq(Client) /\ Len(items') = Len(items) - 1
      /\ alive' \subseteq Client /\ fds' \subseteq Client
      /\ in' \in [Client -> Seq(Nat)] /\ wire' \in [Client -> Seq(Nat)]
      /\ \A d \in Client : Len(in'[d]) <= MaxIn
      /\ \A i, j \in 1 .. Len(items') : items'[i] = items'[j] => i = j
      /\ alive' = Listed' /\ fds' = Listed'
      /\ \A d \in Client : \A i \in 1 .. Len(in'[d]) :
           d # c /\ in'[d] = in[d] /\ i \in 1 .. Len(in[d])
      /\ StoryInv'
  BY <1>2, <1>3, <1>5, <1>6, Removed
<1>8. /\ cur' \in 0 .. Len(items')
      /\ pc' = "scan" => cur' \in 1 .. Len(items')
  <2>1. CursorAfterRemovePrev(cur) \in 0 .. Len(items')
    BY <1>2, <1>7 DEF CursorAfterRemovePrev, PrevCursor, NoCurrent
  <2> QED
    BY <1>3, <1>7, <2>1, ScanContinues
<1>9. TypeOK'
  BY <1>3, <1>4, <1>7, <1>8 DEF IInv, TypeOK
<1>10. ListInv'
  BY <1>4, <1>7, <1>8 DEF ListInv
<1>11. OnlyExtracted'
  <2>1. \A d \in Client : \A i \in 1 .. Len(in[d]) : in[d][i] # LF
    BY <1>3, NoneWhole DEF Terminal
  <2> QED
    BY <1>7, <2>1 DEF OnlyExtracted
<1> QED
  BY <1>7, <1>9, <1>10, <1>11 DEF IInv

(* The application removes a client that is listed, directly or because it *)
(* could not be sent to.                                                   *)
LEMMA RemoveInv ==
  ASSUME IInv, pc = "messages", que # << >>, NEW c \in Listed,
         Handle(Head(que)), RemoveSocket(c, Tail(que)),
         pc' \in {"messages", "sendError"},
         UNCHANGED <<run, rset, listenSet, clientVars>>
  PROVE  IInv'
<1>1. items \in Seq(Client) /\ Len(items) \in Nat
  BY LenProperties DEF IInv, TypeOK
<1>2. c \in Client /\ \E i \in DOMAIN items : items[i] = c
  BY <1>1, ListedEntries, LenProperties
<1>3. PICK n : n = CHOOSE i \in DOMAIN items : items[i] = c
  OBVIOUS
<1>4. n \in 1 .. Len(items) /\ items[n] = c
  BY <1>1, <1>2, <1>3, LenProperties
<1>5. /\ que' = Append(Tail(que), ClosedMsg(c)) /\ items' = Without(items, n)
      /\ cur' = CursorAfterRemovePrev(n)
      /\ alive' = alive \ {c} /\ fds' = fds \ {c}
      /\ in' = [in EXCEPT ![c] = << >>] /\ wire' = [wire EXCEPT ![c] = << >>]
      /\ run' = run /\ rset' = rset /\ listenSet' = listenSet /\ peer' = peer
      /\ said' = said
  BY <1>3 DEF RemoveSocket, clientVars
<1>6. /\ Tail(que) \in Seq(Message) /\ handled' \in [Client -> Seq(Message)]
      /\ \A d \in Client :
           /\ handled'[d] \in Seq(Message)
           /\ ClientInv(d, handled'[d] \o Tail(que), said[d], in[d], wire[d], Listed, pc)
  BY HandleStories
<1>7. /\ que' \in Seq(Message) /\ items' \in Seq(Client) /\ Len(items') = Len(items) - 1
      /\ alive' \subseteq Client /\ fds' \subseteq Client
      /\ in' \in [Client -> Seq(Nat)] /\ wire' \in [Client -> Seq(Nat)]
      /\ \A d \in Client : Len(in'[d]) <= MaxIn
      /\ \A i, j \in 1 .. Len(items') : items'[i] = items'[j] => i = j
      /\ alive' = Listed' /\ fds' = Listed'
      /\ \A d \in Client : \A i \in 1 .. Len(in'[d]) :
           d # c /\ in'[d] = in[d] /\ i \in 1 .. Len(in[d])
      /\ StoryInv'
  BY <1>2, <1>4, <1>5, <1>6, Removed
<1>8. cur' \in 0 .. Len(items')
  BY <1>1, <1>4, <1>5, <1>7 DEF CursorAfterRemovePrev, PrevCursor, NoCurrent
<1>9. TypeOK'
  BY <1>5, <1>6, <1>7, <1>8 DEF IInv, TypeOK, Terminal
<1>10. ListInv'
  BY <1>7 DEF ListInv
<1>11. OnlyExtracted'
  <2>1. \A d \in Client : \A i \in 1 .. Len(in[d]) : in[d][i] # LF
    BY NoneWhole DEF Terminal
  <2> QED
    BY <1>7, <2>1 DEF OnlyExtracted
<1> QED
  BY <1>7, <1>9, <1>10, <1>11 DEF IInv

LEMMA KickInv == IInv /\ (MsgKick \/ \E c \in Client : SendFails(c)) => IInv'
<1> SUFFICES ASSUME IInv, MsgKick \/ \E c \in Client : SendFails(c) PROVE IInv'
  OBVIOUS
<1>1. CASE MsgKick
  <2>1. PICK c : c = Head(que).sock
    OBVIOUS
  <2>2. /\ pc = "messages" /\ que # << >> /\ Handle(Head(que)) /\ c \in alive
        /\ RemoveSocket(c, Tail(que)) /\ pc' = pc
        /\ UNCHANGED <<run, rset, listenSet, clientVars>>
    BY <1>1, <2>1 DEF MsgKick
  <2>3. c \in Listed
    BY <2>2 DEF IInv, ListInv
  <2> QED
    BY <2>2, <2>3, RemoveInv
<1>2. ASSUME NEW c \in Client, SendFails(c) PROVE IInv'
  BY <1>2, RemoveInv DEF SendFails
<1> QED
  BY <1>1, <1>2

LEMMA DestroyInv == IInv /\ Destroy => IInv'
<1> SUFFICES ASSUME IInv, Destroy PROVE IInv'
  OBVIOUS
<1>0. << >> \in Seq(Client) /\ << >> \in Seq(Message) /\ Len(<< >>) = 0
  BY EmptySeq
<1>1. /\ pc' = "destroyed" /\ que' = << >> /\ items' = << >> /\ alive' = alive \ Listed
      /\ cur' = IF items = << >> THEN cur ELSE NoCurrent
      /\ run' = run /\ fds' = fds /\ in' = in /\ rset' = rset /\ listenSet' = listenSet
      /\ peer' = peer /\ said' = said /\ wire' = wire /\ handled' = handled
  BY DEF Destroy, clientVars
<1>2. cur' \in 0 .. Len(items')
  BY <1>0, <1>1 DEF IInv, TypeOK, NoCurrent
<1>3. TypeOK'
  BY <1>0, <1>1, <1>2 DEF IInv, TypeOK, Terminal
<1>4. Listed' = {}
  <2>1. \A x : x \in Listed' <=> \E i \in 1 .. Len(items') : items'[i] = x
    BY <1>0, <1>1, ListedEntries
  <2> QED
    BY <1>0, <1>1, <2>1
<1>5. ListInv'
  BY <1>0, <1>1 DEF ListInv
<1>6. ASSUME NEW d \in Client
      PROVE  ClientInv(d, Story(d), said[d], in[d], wire[d], Listed, pc)'
  <2>1. /\ ClientInv(d, handled[d] \o que, said[d], in[d], wire[d], Listed, pc)
        /\ handled[d] \in Seq(Message) /\ que \in Seq(Message)
    BY Sequences DEF IInv, StoryInv, Story
  <2>2. ClientInv(d, handled[d] \o << >>, said[d], in[d], wire[d], {}, "destroyed")
    BY <2>1, ToldPrefix
  <2> QED
    BY <1>1, <1>4, <2>2 DEF Story
<1>7. OnlyExtracted'
  BY <1>1 DEF OnlyExtracted, Terminal
<1> QED
  BY <1>3, <1>5, <1>6, <1>7 DEF IInv, StoryInv

LEMMA StepInv == IInv /\ [Next]_vars => IInv'
<1> SUFFICES ASSUME IInv, [Next]_vars PROVE IInv'
  OBVIOUS
<1>1. CASE ServerStep
  BY <1>1, ControlInv, ScanOnInv, AcceptInv, ReadsInv, LineInv, HandledInv, ClosesInv,
     KickInv DEF ServerStep
<1>2. CASE UNCHANGED vars
  <2>1. /\ pc' = pc /\ run' = run /\ items' = items /\ cur' = cur /\ que' = que
        /\ alive' = alive /\ fds' = fds /\ in' = in /\ rset' = rset
        /\ listenSet' = listenSet /\ peer' = peer /\ said' = said /\ wire' = wire
        /\ handled' = handled
    BY <1>2 DEF vars, listVars, objectVars, clientVars
  <2>2. TypeOK' /\ Listed' = Listed /\ Current' = Current
    BY <2>1 DEF IInv, TypeOK, Listed, Current
  <2>3. ListInv'
    BY <2>1, <2>2 DEF IInv, ListInv
  <2>4. StoryInv'
    BY <2>1, <2>2 DEF IInv, StoryInv, Story
  <2>5. OnlyExtracted'
    BY <2>1, <2>2 DEF IInv, OnlyExtracted
  <2> QED
    BY <2>2, <2>3, <2>4, <2>5 DEF IInv
<1> QED
  BY <1>1, <1>2, ClientStepInv, ControlInv, DestroyInv DEF Next

LEMMA Invariance == Spec => []IInv
BY InitInv, StepInv, PTL DEF Spec

-----------------------------------------------------------------------------
(* Whatever clients send and the application does, the list's cursor, the  *)
(* input buffers and the queue keep their types, and no buffer holds more  *)
(* than it has room for.                                                   *)
THEOREM TypeCorrect == Spec => []TypeOK
<1>1. IInv => TypeOK
  BY DEF IInv
<1> QED
  BY Invariance, <1>1, PTL

LEMMA KeptFollows == IInv => LinesKept
<1> SUFFICES ASSUME IInv, NEW c \in Client
             PROVE  /\ LinesTold(Story(c), c, said[c])
                    /\ c \in Listed =>
                         /\ in[c] \o wire[c] = SubSeq(said[c], Begun(c) + 1, Len(said[c]))
                         /\ \A i \in LinesOf(Story(c), c) :
                              EndOf(Story(c)[i].text) <= Begun(c)
                         /\ Begun(c) = 0 \/ \E i \in LinesOf(Story(c), c) :
                                              EndOf(Story(c)[i].text) = Begun(c)
                    /\ pc \notin Terminal \cup {"extract"} =>
                         \A i \in DOMAIN in[c] : in[c][i] # LF
  BY DEF LinesKept
<1>1. ClientInv(c, Story(c), said[c], in[c], wire[c], Listed, pc)
  BY DEF IInv, StoryInv
<1>2. said[c] \in Seq(Nat) /\ in[c] \in Seq(Nat) /\ wire[c] \in Seq(Nat)
  BY Sequences DEF IInv
<1>3. PICK n \in Nat, a \in Nat, d \in Nat :
        n = Len(said[c]) /\ a = Len(in[c]) /\ d = Len(wire[c])
  BY <1>2, LenProperties
<1>4. LinesTold(Story(c), c, said[c])
  BY <1>1 DEF ClientInv
<1>5. ASSUME NEW b \in Nat, Cut(said[c], in[c], wire[c], b), UpTo(Story(c), c, b)
      PROVE  /\ in[c] \o wire[c] = SubSeq(said[c], Begun(c) + 1, Len(said[c]))
             /\ UpTo(Story(c), c, Begun(c))
  <2>1. /\ n = b + a + d
        /\ \A k \in 1 .. a : in[c][k] = said[c][b + k]
        /\ \A k \in 1 .. d : wire[c][k] = said[c][b + a + k]
    BY <1>3, <1>5 DEF Cut
  <2>a. (b + a + d) - a - d = b /\ b <= b + a + d
    OBVIOUS
  <2>2. Begun(c) = b
    <3>1. Begun(c) = n - a - d
      BY <1>3 DEF Begun
    <3> QED
      BY <2>1, <2>a, <3>1
  <2>3. PICK held, rest : /\ held = in[c] \o wire[c]
                          /\ rest = SubSeq(said[c], b + 1, Len(said[c]))
    OBVIOUS
  <2>4. /\ held \in Seq(Nat) /\ Len(held) = a + d
        /\ \A k \in 1 .. a : held[k] = in[c][k]
        /\ \A k \in 1 .. d : held[a + k] = wire[c][k]
    <3>1. PICK s \in Seq(Nat), t \in Seq(Nat) : s = in[c] /\ t = wire[c]
      BY <1>2
    <3>2. /\ s \o t \in Seq(Nat) /\ Len(s \o t) = Len(s) + Len(t)
          /\ DOMAIN (s \o t) = 1 .. Len(s) + Len(t)
          /\ \A i \in 1 .. Len(s) : (s \o t)[i] = s[i]
          /\ \A i \in 1 .. Len(t) : (s \o t)[Len(s) + i] = t[i]
      BY Joined
    <3> QED
      BY <1>3, <2>3, <3>1, <3>2
  <2>5. rest \in Seq(Nat) /\ Len(rest) = n - b /\ \A k \in 1 .. n - b : rest[k] = said[c][b + k]
    <3>1. b <= n /\ n <= Len(said[c])
      <4>1. b <= n /\ n <= n
        BY <2>1, <2>a
      <4> QED
        BY <1>3, <4>1
    <3> QED
      BY <1>2, <1>3, <2>3, <3>1, Part
  <2>6. n - b = a + d
    BY <2>1
  <2>7. ASSUME NEW k \in 1 .. a + d PROVE held[k] = rest[k]
    <3>1. rest[k] = said[c][b + k]
      BY <2>5, <2>6
    <3>2. CASE k <= a
      BY <2>1, <2>4, <3>1, <3>2
    <3>3. CASE ~(k <= a)
      <4>1. PICK j \in 1 .. d : k = a + j
        <5>1. k - a \in 1 .. d /\ k = a + (k - a)
          BY <3>3
        <5> QED
          BY <5>1
      <4>2. b + a + j = b + k
        BY <4>1
      <4> QED
        BY <2>1, <2>4, <3>1, <4>1, <4>2
    <3> QED
      BY <3>2, <3>3
  <2>8. held = rest
    BY <2>4, <2>5, <2>6, <2>7, SeqEqual
  <2> QED
    BY <1>5, <2>2, <2>3, <2>8
<1>6. c \in Listed =>
        /\ in[c] \o wire[c] = SubSeq(said[c], Begun(c) + 1, Len(said[c]))
        /\ UpTo(Story(c), c, Begun(c))
  BY <1>1, <1>5 DEF ClientInv
<1>7. pc \notin Terminal \cup {"extract"} => \A i \in DOMAIN in[c] : in[c][i] # LF
  BY <1>2, NoneWhole, LenProperties
<1> QED
  BY <1>4, <1>6, <1>7 DEF UpTo

(* Every line a client said is told once, whole and in order, and what has *)
(* not ended waits in its buffer or in its connection: for any clients,    *)
(* any size of the buffer and any way TCP cuts what they say.              *)
THEOREM LinesToldOnce == Spec => []LinesKept
BY Invariance, KeptFollows, PTL

LEMMA EndsFollows == IInv => StoryEndsOnce
<1> SUFFICES ASSUME IInv, pc # "destroyed" PROVE StoryEndsOnce
  BY DEF StoryEndsOnce
<1>1. alive = Listed /\ fds = Listed
  BY DEF IInv, ListInv
<1>2. ASSUME NEW c \in Client
      PROVE  /\ NewFirst(Story(c), c) /\ ClosedLast(Story(c), c)
             /\ Of(Story(c), c) # {} =>
                  (c \notin Listed <=> Tells(Story(c), c, ClosedMsg(c)))
  <2>1. Form(Story(c), c, Listed)
    BY DEF IInv, StoryInv, ClientInv
  <2>2. ClosedMsg(c).kind = "closed"
    BY DEF ClosedMsg, Msg
  <2> QED
    BY <2>1, <2>2 DEF Form, Tells
<1> QED
  BY <1>1, <1>2 DEF StoryEndsOnce, NewFirst, ClosedLast, Tells

(* However a client leaves the list -- it hung up, its buffer was full, it *)
(* could not be sent to, the application removed it -- its story ends with *)
(* one pcClosed, and what is listed is what is allocated and open.         *)
THEOREM StoriesEnd == Spec => []StoryEndsOnce
BY Invariance, EndsFollows, PTL
=============================================================================
