---------------------------- MODULE Codecs_proofs ----------------------------
(***************************************************************************)
(* What holds of the codecs for every size, width and length.              *)
(***************************************************************************)
EXTENDS Codecs, SequenceTheorems, WellFoundedInduction, TLAPS

-----------------------------------------------------------------------------
(* PacketBuffer: an owner that was never careless has a packet whose       *)
(* memory is what its constructor was told, whose data is inside it and    *)
(* whose pointer is inside the data.                                       *)
Packets == [data : Seq({Junk}), max : Nat, ptr : Nat, size : Nat, net : BOOLEAN]

Sound(p) ==
  /\ p \in Packets
  /\ Cap(p) = p.max /\ p.max < Big
  /\ HostSize(p) \in Nat /\ HostSize(p) <= p.max /\ p.ptr <= HostSize(p)

PacketInv == careless # {} \/ (~outside /\ Sound(pkt))

LEMMA JunkOf ==
  ASSUME NEW k \in Nat
  PROVE  /\ [i \in 1 .. k |-> Junk] \in Seq({Junk})
         /\ Len([i \in 1 .. k |-> Junk]) = k
  OBVIOUS

LEMMA SwapTwice ==
  ASSUME NEW k \in Nat, k < Big
  PROVE  Swap(k) \in Nat /\ Swap(Swap(k)) = k
  BY DEF Swap, Big

LEMMA NewPacket ==
  ASSUME NEW k \in Nat
  PROVE  /\ New(k) \in Packets /\ Len(New(k).data) = k /\ New(k).max = k
         /\ New(k).ptr = 0 /\ New(k).size = 0 /\ New(k).net = FALSE
  BY JunkOf DEF New, Packets

LEMMA SoundOf ==
  ASSUME NEW p \in Packets, NEW k \in Nat,
         Len(p.data) = p.max, p.max < Big, HostSize(p) = k, k <= p.max, p.ptr <= k
  PROVE  Sound(p)
  BY DEF Sound, Cap

LEMMA NewSound ==
  ASSUME NEW k \in Sizes \cup {HeaderSize}
  PROVE  Sound(New(k))
<1>1. k \in Nat /\ k < Big
  BY PacketBufferConstants, SizesSmall
<1> DEFINE p == New(k)
<1>2. p \in Packets /\ Len(p.data) = p.max /\ p.max = k /\ p.ptr = 0 /\ p.size = 0 /\ ~p.net
  BY <1>1, NewPacket
<1> HIDE DEF p
<1>3. HostSize(p) = 0
  BY <1>2 DEF HostSize
<1> QED
  BY <1>1, <1>2, <1>3, SoundOf DEF p

LEMMA Fields ==
  ASSUME NEW p, Sound(p)
  PROVE  /\ p \in Packets
         /\ p.data \in Seq({Junk}) /\ p.max \in Nat /\ p.ptr \in Nat /\ p.size \in Nat
         /\ p.net \in BOOLEAN /\ Len(p.data) = p.max /\ p.max < Big
         /\ HostSize(p) \in Nat /\ HostSize(p) <= p.max /\ p.ptr <= HostSize(p)
  BY DEF Sound, Cap, Packets

LEMMA MovedSound ==
  ASSUME NEW p, Sound(p), NEW i \in Nat, i <= HostSize(p)
  PROVE  Sound([p EXCEPT !.ptr = i])
<1> DEFINE q == [p EXCEPT !.ptr = i]
<1>1. p \in Packets
  BY Fields
<1>2. /\ q \in Packets /\ q.data = p.data /\ q.max = p.max /\ q.ptr = i
      /\ q.size = p.size /\ q.net = p.net
  BY <1>1 DEF Packets
<1>3. HostSize(q) = HostSize(p)
  BY <1>2 DEF HostSize
<1> QED
  BY <1>2, <1>3, Fields, SoundOf

LEMMA ResetSound ==
  ASSUME NEW p, Sound(p)
  PROVE  Sound(Reset(p))
<1>1. p \in Packets
  BY Fields
<1>2. /\ Reset(p) \in Packets /\ Reset(p).data = p.data /\ Reset(p).max = p.max
      /\ Reset(p).ptr = 0 /\ Reset(p).size = 0 /\ Reset(p).net = FALSE
  BY <1>1 DEF Packets, Reset
<1>3. HostSize(Reset(p)) = 0
  BY <1>2 DEF HostSize
<1> QED
  BY <1>2, <1>3, Fields, SoundOf

LEMMA InsertSound ==
  ASSUME Sound(pkt), ~pkt.net, NEW w \in Nat, Room(pkt, w)
  PROVE  /\ Sound(Put(pkt, [i \in 1 .. w |-> Junk]))
         /\ pkt.ptr + w <= Cap(pkt)
<1> DEFINE s == [i \in 1 .. w |-> Junk]
           d == [i \in DOMAIN pkt.data |-> IF i \in pkt.ptr + 1 .. pkt.ptr + Len(s)
                                             THEN s[i - pkt.ptr] ELSE pkt.data[i]]
           q == Put(pkt, s)
<1>1. Len(s) = w
  BY JunkOf
<1>2. pkt.size = HostSize(pkt)
  BY DEF HostSize
<1>3. /\ pkt \in Packets /\ pkt.ptr \in Nat /\ pkt.size \in Nat /\ pkt.max \in Nat
      /\ pkt.ptr <= pkt.size /\ pkt.size + w <= pkt.max /\ Cap(pkt) = pkt.max
      /\ pkt.max < Big
  BY <1>2, Fields DEF Sound, Room
<1>4. DOMAIN pkt.data = 1 .. Cap(pkt) /\ \A i \in 1 .. Cap(pkt) : pkt.data[i] = Junk
  BY Fields, <1>3 DEF Cap
<1>5. \A i \in DOMAIN pkt.data : d[i] = Junk
  <2> SUFFICES ASSUME NEW i \in DOMAIN pkt.data PROVE d[i] = Junk
    OBVIOUS
  <2>1. CASE i \in pkt.ptr + 1 .. pkt.ptr + w
    <3>1. i - pkt.ptr \in 1 .. w
      BY <2>1, <1>3
    <3> QED
      BY <3>1, <2>1, <1>1
  <2>2. CASE i \notin pkt.ptr + 1 .. pkt.ptr + w
    <3>1. d[i] = pkt.data[i]
      BY <2>2, <1>1
    <3> QED
      BY <3>1, <1>4
  <2> QED
    BY <2>1, <2>2
<1>6. d = [i \in 1 .. Cap(pkt) |-> Junk]
  BY <1>4, <1>5
<1>7. d \in Seq({Junk}) /\ Len(d) = Cap(pkt)
  BY <1>6, <1>3, JunkOf
<1>8. q = [pkt EXCEPT !.data = d, !.ptr = pkt.ptr + w, !.size = pkt.ptr + w]
  BY <1>1, <1>3 DEF Put, Packets
<1> HIDE DEF d, s, q
<1>9. pkt.ptr + w \in Nat /\ pkt.ptr + w <= pkt.max
  BY <1>3
<1>10. /\ q \in Packets /\ q.data = d /\ q.max = pkt.max /\ q.ptr = pkt.ptr + w
       /\ q.size = pkt.ptr + w /\ q.net = FALSE
  BY <1>3, <1>7, <1>8, <1>9 DEF Packets
<1>11. HostSize(q) = pkt.ptr + w
  BY <1>10 DEF HostSize
<1> QED
  BY <1>3, <1>7, <1>9, <1>10, <1>11, SoundOf DEF q, s

LEMMA CopySound ==
  ASSUME Sound(pkt), ~pkt.net
  PROVE  Sound(CopyOf(pkt)) /\ Sound(Assigned(pkt))
<1> DEFINE d == Kept(pkt, pkt.max, pkt.size)
<1>1. /\ pkt.size \in Nat /\ pkt.max \in Nat /\ pkt.size <= pkt.max /\ pkt.max < Big
      /\ pkt.ptr \in Nat /\ pkt.ptr <= pkt.size /\ pkt \in Packets
      /\ Cap(pkt) = pkt.max /\ \A i \in 1 .. pkt.max : pkt.data[i] = Junk
  BY Fields DEF Sound, HostSize
<1>2. d = [i \in 1 .. pkt.max |-> Junk]
  BY <1>1 DEF Kept, Least
<1>3. d \in Seq({Junk}) /\ Len(d) = pkt.max
  BY <1>1, <1>2, JunkOf
<1> HIDE DEF d
<1>4. ASSUME NEW q, q \in Packets, q.data = d, q.max = pkt.max,
             q.ptr \in {pkt.size, pkt.ptr}, q.size = pkt.size, q.net = FALSE
      PROVE  Sound(q)
  <2>1. HostSize(q) = pkt.size
    BY <1>4 DEF HostSize
  <2> QED
    BY <1>1, <1>3, <1>4, <2>1, SoundOf
<1>5. Sound(CopyOf(pkt))
  <2> DEFINE q == CopyOf(pkt)
  <2>1. q = [pkt EXCEPT !.data = d, !.ptr = pkt.size, !.net = FALSE]
    BY DEF CopyOf, d
  <2> HIDE DEF q
  <2>2. /\ q \in Packets /\ q.data = d /\ q.max = pkt.max /\ q.ptr = pkt.size
        /\ q.size = pkt.size /\ q.net = FALSE
    BY <1>1, <1>3, <2>1 DEF Packets
  <2> QED
    BY <1>4, <2>2 DEF q
<1>6. Sound(Assigned(pkt))
  <2> DEFINE q == Assigned(pkt)
  <2>1. q = [pkt EXCEPT !.data = d]
    BY DEF Assigned, d
  <2> HIDE DEF q
  <2>2. /\ q \in Packets /\ q.data = d /\ q.max = pkt.max /\ q.ptr = pkt.ptr
        /\ q.size = pkt.size /\ q.net = FALSE
    BY <1>1, <1>3, <2>1 DEF Packets
  <2> QED
    BY <1>4, <2>2 DEF q
<1> QED
  BY <1>5, <1>6

LEMMA SentSound ==
  ASSUME Sound(pkt), ~pkt.net
  PROVE  Sound(MakeNetworkReady(pkt))
<1>1. /\ pkt.size \in Nat /\ pkt.size < Big /\ pkt.size <= pkt.max /\ pkt \in Packets
      /\ pkt.ptr <= pkt.size
  BY Fields DEF HostSize, Big
<1>2. Swap(pkt.size) \in Nat /\ Swap(Swap(pkt.size)) = pkt.size
  BY <1>1, SwapTwice
<1> DEFINE q == MakeNetworkReady(pkt)
<1>3. /\ q \in Packets /\ q.data = pkt.data /\ q.max = pkt.max /\ q.ptr = pkt.ptr
      /\ q.size = Swap(pkt.size) /\ q.net = TRUE
  BY <1>1, <1>2 DEF MakeNetworkReady, Packets
<1>4. HostSize(q) = pkt.size
  BY <1>2, <1>3 DEF HostSize
<1> QED
  BY <1>1, <1>3, <1>4, Fields, SoundOf

LEMMA ReceivedSound ==
  ASSUME NEW k \in Sizes
  PROVE  Sound(Received([i \in 1 .. k |-> Junk]))
<1> DEFINE s == [i \in 1 .. k |-> Junk]
           q == Received(s)
<1>1. k \in Nat /\ k < Big
  BY PacketBufferConstants, SizesSmall
<1>2. s \in Seq({Junk}) /\ Len(s) = k
  BY <1>1, JunkOf
<1> HIDE DEF s
<1>3. /\ q \in Packets /\ q.data = s /\ q.max = k /\ q.ptr = 0
      /\ q.size = k /\ q.net = FALSE
  BY <1>1, <1>2, NewPacket DEF Received, Packets
<1>4. HostSize(q) = k
  BY <1>3 DEF HostSize
<1> QED
  BY <1>1, <1>2, <1>3, <1>4, SoundOf DEF s

LEMMA PacketStepInv ==
  ASSUME PacketInv, [PacketNext]_pktVars
  PROVE  PacketInv'
<1>1. CASE UNCHANGED pktVars
  BY <1>1 DEF PacketInv, pktVars, Sound, Cap, HostSize
<1>2. CASE PacketNext
  <2>0. ~outside
    BY <1>2 DEF PacketNext
  <2>1. CASE Construct
    BY <2>0, <2>1, NewSound DEF Construct, PacketInv
  <2>2. ASSUME careless # {}, ~Construct PROVE PacketInv'
    BY <1>2, <2>2 DEF PacketNext, PacketInv, Rewind, ResetIt, Copy, Assign, SendPacket,
      RecvPacket, InsertValue, ExtractValue, ResizeBuffer, Step
  <2> SUFFICES ASSUME careless = {}, ~Construct PROVE PacketInv'
    BY <2>1, <2>2
  <2>3. Sound(pkt)
    BY DEF PacketInv
  <2>5. CASE Rewind
    <3>1. 0 <= HostSize(pkt)
      BY <2>3, Fields
    <3>2. Sound([pkt EXCEPT !.ptr = 0])
      BY <2>3, <3>1, MovedSound
    <3> QED
      BY <3>2, <2>5 DEF Rewind, Step, PacketInv
  <2>6. CASE ResetIt
    BY <2>3, <2>6, ResetSound DEF ResetIt, Step, PacketInv
  <2>7. CASE RecvPacket
    <3>1. PICK k \in Sizes : Step(Received([i \in 1 .. k |-> Junk]), FALSE, {})
      BY <2>7 DEF RecvPacket
    <3>2. Sound(Received([i \in 1 .. k |-> Junk]))
      BY ReceivedSound
    <3> QED
      BY <3>1, <3>2 DEF Step, PacketInv
  <2>8. ASSUME NEW w \in Widths, InsertValue(w) PROVE PacketInv'
    <3>1. w \in Nat
      BY PacketBufferConstants
    <3>2. CASE pkt.net
      BY <2>8, <3>2 DEF InsertValue, Step, Reuse, PacketInv
    <3>3. CASE ~pkt.net
      <4>1. /\ Sound(Put(pkt, [i \in 1 .. w |-> Junk])) /\ pkt.ptr + w <= Cap(pkt)
            /\ pkt.ptr \in Nat /\ Cap(pkt) \in Nat
        BY <2>3, <2>8, <3>1, <3>3, InsertSound, Fields DEF InsertValue, Cap
      <4>2. (pkt.ptr + w > Cap(pkt)) = FALSE
        BY <3>1, <4>1
      <4> QED
        BY <2>8, <4>1, <4>2 DEF InsertValue, Step, PacketInv
    <3> QED
      BY <3>2, <3>3
  <2>9. ASSUME NEW w \in Widths, ExtractValue(w) PROVE PacketInv'
    <3>1. w \in Nat
      BY PacketBufferConstants
    <3>2. CASE pkt.ptr + w > HostSize(pkt)
      BY <2>9, <3>2 DEF ExtractValue, Step, PacketInv
    <3>3. CASE ~(pkt.ptr + w > HostSize(pkt))
      <4>1. pkt.ptr + w <= HostSize(pkt) /\ (pkt.ptr + w > Cap(pkt)) = FALSE
        BY <2>3, <3>1, <3>3, Fields DEF Cap
      <4>2. pkt.ptr + w \in Nat
        BY <2>3, <3>1, Fields
      <4>3. Sound(Skip(pkt, w))
        BY <2>3, <4>1, <4>2, MovedSound DEF Skip
      <4> QED
        BY <2>9, <4>1, <4>3 DEF ExtractValue, Step, PacketInv
    <3> QED
      BY <3>2, <3>3
  <2>10. CASE Copy \/ Assign \/ SendPacket
    <3>1. CASE pkt.net
      BY <2>10, <3>1 DEF Copy, Assign, SendPacket, Step, Reuse, PacketInv
    <3>2. CASE ~pkt.net
      <4>1. /\ (pkt.size > Cap(pkt)) = FALSE
            /\ (pkt.size > Least(Cap(pkt), pkt.max)) = FALSE
        BY <2>3, <3>2, Fields DEF HostSize, Least, Cap
      <4> QED
        BY <2>3, <2>10, <3>2, <4>1, CopySound, SentSound
          DEF Copy, Assign, SendPacket, Step, PacketInv
    <3> QED
      BY <3>1, <3>2
  <2>11. ASSUME NEW k \in Sizes, ResizeBuffer(k) PROVE PacketInv'
    BY <2>11 DEF ResizeBuffer, Step, PacketInv
  <2> QED
    BY <1>2, <2>5, <2>6, <2>7, <2>8, <2>9, <2>10, <2>11 DEF PacketNext
<1> QED
  BY <1>1, <1>2

(* An owner that does not read past the data, resize the packet or reuse   *)
(* one that was sent, never makes it touch memory outside of its buffer,   *)
(* whatever else it calls and in which order.                              *)
THEOREM PacketInBounds == Spec => []InBounds
<1>1. Init => PacketInv
  BY NewSound DEF Init, PacketInit, PacketInv
<1>2. PacketInv /\ [Next]_vars => PacketInv'
  BY PacketStepInv DEF Next, vars, PacketStep, FileStep, LineStep, FrameStep, StrStep, pktVars
<1>3. PacketInv => InBounds
  BY DEF PacketInv, InBounds
<1> QED
  BY <1>1, <1>2, <1>3, PTL DEF Spec

-----------------------------------------------------------------------------
(* Numbers and sequences.                                                  *)

LEMMA LeastNatural ==
  ASSUME NEW T, T \subseteq Nat, T # {}
  PROVE  Min(T) \in T /\ \A y \in T : Min(T) <= y
<1>1. \E x \in T : \A y \in T : ~(<<y, x>> \in OpToRel(<, Nat))
  BY NatLessThanWellFounded, WFMin
<1>2. PICK x \in T : \A y \in T : <<y, x>> \notin OpToRel(<, Nat)
  BY <1>1
<1>3. ASSUME NEW y \in T PROVE x <= y
  <2>1. x \in Nat /\ y \in Nat /\ <<y, x>> \in Nat \X Nat
    OBVIOUS
  <2>2. ~(<<y, x>>[1] < <<y, x>>[2])
    BY <1>2, <2>1 DEF OpToRel
  <2> QED
    BY <2>1, <2>2
<1> QED
  BY <1>3 DEF Min

(* The elements of a sequence behind the first i, as far as the j-th.      *)
LEMMA PartOf ==
  ASSUME NEW S, NEW s \in Seq(S), NEW i \in Nat, NEW j \in Nat, i <= j, j <= Len(s)
  PROVE  /\ SubSeq(s, i + 1, j) \in Seq(S) /\ Len(SubSeq(s, i + 1, j)) = j - i
         /\ \A p \in 1 .. j - i : SubSeq(s, i + 1, j)[p] = s[i + p]
<1> DEFINE t == SubSeq(s, i + 1, j)
<1>1. Len(s) \in Nat /\ \A x \in 1 .. Len(s) : s[x] \in S
  BY LenProperties, ElementOfSeq
<1>2. \A x \in i + 1 .. j : s[x] \in S
  <2>1. \A x \in i + 1 .. j : x \in 1 .. Len(s)
    BY <1>1
  <2> QED
    BY <1>1, <2>1
<1>3. /\ i + 1 \in Int /\ j \in Int /\ j - (i + 1) + 1 = j - i
      /\ (IF i + 1 <= j THEN j - (i + 1) + 1 ELSE 0) = j - i
      /\ \A p \in 1 .. j - i : i + 1 + p - 1 = i + p
  OBVIOUS
<1>4. /\ t \in Seq(S) /\ Len(t) = IF i + 1 <= j THEN j - (i + 1) + 1 ELSE 0
      /\ \A p \in 1 .. j - (i + 1) + 1 : t[p] = s[i + 1 + p - 1]
  BY <1>2, <1>3, SubSeqProperties
<1> HIDE DEF t
<1>5. t \in Seq(S) /\ Len(t) = j - i /\ \A p \in 1 .. j - i : t[p] = s[i + p]
  BY <1>3, <1>4
<1> QED
  BY <1>5 DEF t

LEMMA FrontOf ==
  ASSUME NEW S, NEW s \in Seq(S), NEW j \in Nat, j <= Len(s)
  PROVE  /\ SubSeq(s, 1, j) \in Seq(S) /\ Len(SubSeq(s, 1, j)) = j
         /\ \A p \in 1 .. j : SubSeq(s, 1, j)[p] = s[p]
<1>1. /\ SubSeq(s, 0 + 1, j) \in Seq(S) /\ Len(SubSeq(s, 0 + 1, j)) = j - 0
      /\ \A p \in 1 .. j - 0 : SubSeq(s, 0 + 1, j)[p] = s[0 + p]
  <2>1. 0 \in Nat /\ 0 <= j
    OBVIOUS
  <2> QED
    BY <2>1, PartOf
<1>2. 0 + 1 = 1 /\ j - 0 = j /\ \A p \in 1 .. j : 0 + p = p
  OBVIOUS
<1> QED
  BY <1>1, <1>2

-----------------------------------------------------------------------------
(* Lines.  The readers' cells are numbers; a buffer is a sequence of them. *)

Cells == Seq(Nat)

LEMMA CellsConcat ==
  \A s, t \in Cells : s \o t \in Cells /\ Len(s \o t) = Len(s) + Len(t)
BY ConcatProperties DEF Cells

LEMMA CellsAssociative == \A s, t, u \in Cells : (s \o t) \o u = s \o (t \o u)
<1> SUFFICES ASSUME NEW s \in Seq(Nat), NEW t \in Seq(Nat), NEW u \in Seq(Nat)
             PROVE  (s \o t) \o u = s \o (t \o u)
  BY DEF Cells
<1> QED
  BY ConcatAssociative, SMTT(30)

LEMMA CellsEmpty == << >> \in Cells /\ \A s \in Cells : s \o << >> = s /\ << >> \o s = s
BY ConcatEmptySeq, EmptySeq DEF Cells

LEMMA CellsPart ==
  ASSUME NEW s \in Cells, NEW i \in Nat, NEW j \in Nat, j <= Len(s)
  PROVE  SubSeq(s, i + 1, j) \in Cells
<1>1. \A x \in i + 1 .. j : s[x] \in Nat
  BY ElementOfSeq DEF Cells
<1> QED
  BY <1>1, SubSeqProperties DEF Cells

LEMMA CellsLen ==
  ASSUME NEW s \in Cells, NEW i \in Nat, NEW j \in Nat, i <= j, j <= Len(s)
  PROVE  SubSeq(s, i + 1, j) \in Cells /\ Len(SubSeq(s, i + 1, j)) = j - i
BY PartOf DEF Cells

(* Taking a sequence apart after its first i elements.                     *)
LEMMA CellsCut ==
  ASSUME NEW s \in Cells, NEW i \in Nat, NEW j \in Nat, i <= j, j <= Len(s)
  PROVE  /\ SubSeq(s, 1, i) \in Cells /\ SubSeq(s, i + 1, j) \in Cells
         /\ SubSeq(s, 1, j) = SubSeq(s, 1, i) \o SubSeq(s, i + 1, j)
<1>1. SubSeq(s, 1, i) \in Cells /\ SubSeq(s, i + 1, j) \in Cells
  BY CellsPart, 0 + 1 = 1
<1>2. Len(s) \in Nat
  BY LenProperties DEF Cells
<1>3. SubSeq(s, 1, i) \o SubSeq(s, i + 1, j) = SubSeq(s, 1, j)
  BY <1>2, ConcatAdjacentSubSeq DEF Cells
<1> QED
  BY <1>1, <1>3

LEMMA CellsWhole ==
  ASSUME NEW s \in Cells, NEW i \in Nat, i <= Len(s)
  PROVE  /\ SubSeq(s, 1, i) \in Cells /\ SubSeq(s, i + 1, Len(s)) \in Cells
         /\ s = SubSeq(s, 1, i) \o SubSeq(s, i + 1, Len(s))
<1>1. Len(s) \in Nat /\ SubSeq(s, 1, Len(s)) = s
  BY LenProperties, SubSeqFull DEF Cells
<1>2. /\ SubSeq(s, 1, i) \in Cells /\ SubSeq(s, i + 1, Len(s)) \in Cells
      /\ SubSeq(s, 1, Len(s)) = SubSeq(s, 1, i) \o SubSeq(s, i + 1, Len(s))
  <2>1. Len(s) \in Nat /\ Len(s) <= Len(s)
    BY <1>1
  <2> QED
    BY <2>1, CellsCut
<1> QED
  BY <1>1, <1>2

-----------------------------------------------------------------------------
(* As long as every caller had room: the buffer has its size, and nothing  *)
(* is buffered while a response goes directly to the caller.               *)
Buffer == [1 .. LineMax -> Nat]

LineInv ==
  ~cut => /\ room \in Nat /\ n \in 0 .. LineMax
          /\ buf \in Buffer
          /\ air \in Cells /\ said \in Cells /\ got \in Cells
          /\ at = "response" => n = 0
          /\ LinesWhole

LEMMA BufferCells ==
  ASSUME NEW b \in Buffer
  PROVE  b \in Cells /\ Len(b) = LineMax /\ LineMax \in Nat
BY LineReaderConstants DEF Buffer, Cells

(* What two buffers hold is told by their cells.                           *)
LEMMA SameHeld ==
  ASSUME NEW b \in Buffer, NEW c \in Buffer, NEW i \in 0 .. LineMax, NEW j \in 0 .. LineMax,
         NEW k \in 0 .. LineMax, k - i = j, i <= k,
         \A x \in 1 .. j : b[x] = c[x + i]
  PROVE  SubSeq(b, 1, j) = SubSeq(c, i + 1, k)
<1>0. LineMax \in Nat
  BY LineReaderConstants
<1>1. \A x \in 1 .. j : b[x] \in Nat
  BY <1>0 DEF Buffer
<1>2. \A x \in i + 1 .. k : c[x] \in Nat
  BY <1>0 DEF Buffer
<1> DEFINE s == SubSeq(b, 1, j)
           t == SubSeq(c, i + 1, k)
<1>3. s \in Seq(Nat) /\ Len(s) = j /\ \A x \in 1 .. j : s[x] = b[x]
  <2>1. j \in Int /\ 1 \in Int /\ (IF 1 <= j THEN j - 1 + 1 ELSE 0) = j /\ j - 1 + 1 = j
    BY <1>0
  <2>2. /\ s \in Seq(Nat) /\ Len(s) = IF 1 <= j THEN j - 1 + 1 ELSE 0
        /\ \A x \in 1 .. j - 1 + 1 : s[x] = b[1 + x - 1]
    BY <1>1, <2>1, SubSeqProperties
  <2> HIDE DEF s
  <2>3. \A x \in 1 .. j : 1 + x - 1 = x
    BY <1>0
  <2> QED
    BY <2>1, <2>2, <2>3
<1>4. t \in Seq(Nat) /\ Len(t) = j /\ \A x \in 1 .. j : t[x] = c[x + i]
  <2>1. /\ k \in Int /\ i + 1 \in Int /\ (IF i + 1 <= k THEN k - (i + 1) + 1 ELSE 0) = j
        /\ k - (i + 1) + 1 = j
    BY <1>0
  <2>2. /\ t \in Seq(Nat) /\ Len(t) = IF i + 1 <= k THEN k - (i + 1) + 1 ELSE 0
        /\ \A x \in 1 .. k - (i + 1) + 1 : t[x] = c[i + 1 + x - 1]
    BY <1>2, <2>1, SubSeqProperties
  <2> HIDE DEF t
  <2>3. \A x \in 1 .. j : i + 1 + x - 1 = x + i
    BY <1>0
  <2> QED
    BY <2>1, <2>2, <2>3
<1> HIDE DEF s, t
<1>5. s = t
  BY <1>3, <1>4, SeqEqual
<1> QED
  BY <1>5 DEF s, t

LEMMA HeldCells ==
  ASSUME NEW b \in Buffer, NEW k \in 0 .. LineMax
  PROVE  SubSeq(b, 1, k) \in Cells
BY BufferCells, CellsCut

(* Where a line ends.                                                      *)
LEMMA EndIn ==
  ASSUME LineInv, ~cut, Ends # {}
  PROVE  Min(Ends) \in 1 .. n /\ buf[Min(Ends)] = LF
<1>0. n \in Nat /\ room \in Nat /\ LineMax \in Nat /\ n <= LineMax /\ buf \in Buffer
  BY LineReaderConstants DEF LineInv
<1>1. \A i \in LFs : i \in 1 .. n /\ buf[i] = LF
  BY DEF LFs
<1>2. ASSUME NEW i \in CRLFs PROVE i \in 1 .. n /\ buf[i] = LF
  <2>1. CASE Blank
    <3>1. i = 2 /\ SubSeq(buf, 1, 2) = EndOfLine /\ n >= 2
      BY <1>2, <2>1 DEF CRLFs, Blank
    <3>2. SubSeq(buf, 1, 2)[2] = buf[2]
      BY <1>0, <3>1 DEF Buffer
    <3>3. EndOfLine[2] = LF
      BY DEF EndOfLine
    <3> QED
      BY <1>0, <3>1, <3>2, <3>3
  <2>2. CASE ~Blank
    <3>1. i \in 3 .. Watermark /\ SubSeq(buf, i - 1, i) = EndOfLine
      BY <1>2, <2>2 DEF CRLFs
    <3>2. i \in 1 .. n
      BY <1>0, <3>1 DEF Watermark
    <3>3. SubSeq(buf, i - 1, i)[2] = buf[i]
      BY <1>0, <3>1, <3>2 DEF Buffer
    <3>4. EndOfLine[2] = LF
      BY DEF EndOfLine
    <3> QED
      BY <3>1, <3>2, <3>3, <3>4
  <2> QED
    BY <2>1, <2>2
<1>3. \A i \in Ends : i \in 1 .. n /\ buf[i] = LF
  BY <1>1, <1>2 DEF Ends
<1>4. Ends \subseteq Nat
  BY <1>0, <1>3
<1> HIDE DEF Ends
<1>5. Min(Ends) \in Ends
  BY <1>4, LeastNatural
<1> QED
  BY <1>3, <1>5

(* A line that is returned whole is what the buffer held.                  *)
LEMMA WholeLine ==
  ASSUME LineInv, ~cut, NEW i \in 1 .. n, buf[i] = LF, AfterCR(i)
  PROVE  Given(i) = SubSeq(buf, 1, i)
<1>0. n \in Nat /\ LineMax \in Nat /\ n <= LineMax /\ buf \in Buffer
  BY LineReaderConstants DEF LineInv
<1>1. CASE kind = "http" \/ i < 2
  BY <1>1 DEF Given
<1>2. CASE ~(kind = "http" \/ i < 2)
  <2>1. Given(i) = SubSeq(buf, 1, i - 2) \o EndOfLine
    BY <1>2 DEF Given
  <2>2. buf[i - 1] = CR
    BY DEF AfterCR
  <2>3. SubSeq(buf, i - 2 + 1, i) = EndOfLine
    <3>1. /\ i - 2 + 1 \in Int /\ i \in Int /\ i - 2 + 1 <= i /\ i - (i - 2 + 1) + 1 = 2
          /\ i - 2 + 1 + 1 - 1 = i - 1 /\ i - 2 + 1 + 2 - 1 = i
          /\ \A x \in i - 2 + 1 .. i : x \in 1 .. LineMax
      BY <1>0, <1>2
    <3>2. \A x \in i - 2 + 1 .. i : buf[x] \in Nat
      BY <1>0, <3>1 DEF Buffer
    <3> DEFINE s == SubSeq(buf, i - 2 + 1, i)
    <3>3. /\ s \in Seq(Nat) /\ Len(s) = 2
          /\ \A x \in 1 .. 2 : s[x] = buf[i - 2 + 1 + x - 1]
      BY <3>1, <3>2, SubSeqProperties
    <3> HIDE DEF s
    <3>4. s[1] = CR /\ s[2] = LF
      BY <2>2, <3>1, <3>3
    <3>5. EndOfLine \in Seq(Nat) /\ Len(EndOfLine) = 2 /\ EndOfLine[1] = CR /\ EndOfLine[2] = LF
      BY DEF EndOfLine, CR, LF
    <3>6. s = EndOfLine
      <4>1. \A x \in 1 .. Len(s) : s[x] = EndOfLine[x]
        <5>1. \A x \in 1 .. Len(s) : x = 1 \/ x = 2
          BY <3>3
        <5> QED
          BY <3>4, <3>5, <5>1
      <4> QED
        BY <3>3, <3>5, <4>1, SeqEqual
    <3> QED
      BY <3>6 DEF s
  <2>4. i - 2 \in Nat /\ i \in Nat /\ i - 2 <= i /\ i <= Len(buf) /\ buf \in Cells
    BY <1>0, <1>2, BufferCells
  <2> HIDE DEF EndOfLine
  <2>5. SubSeq(buf, 1, i) = SubSeq(buf, 1, i - 2) \o SubSeq(buf, i - 2 + 1, i)
    BY <2>4, CellsCut
  <2> QED
    BY <2>1, <2>3, <2>5
<1> QED
  BY <1>1, <1>2

LEMMA LineInitInv == LineInit => LineInv
<1> SUFFICES ASSUME LineInit PROVE LineInv
  OBVIOUS
<1>1. LineMax \in Nat
  BY LineReaderConstants
<1>2. /\ room = 0 /\ n = 0 /\ air = << >> /\ said = << >> /\ got = << >>
      /\ at = "idle" /\ buf \in Buffer
  BY <1>1 DEF LineInit, Buffer, Stale
<1>3. Held = << >>
  BY <1>2, SubSeqEmpty DEF Held
<1>4. got \o Held \o air = said
  BY <1>2, <1>3, CellsEmpty
<1> QED
  BY <1>1, <1>2, <1>4, CellsEmpty DEF LineInv, LinesWhole

LEMMA LineStepInv ==
  ASSUME LineInv, [LineNext]_lineVars
  PROVE  LineInv'
<1> SUFFICES ASSUME ~cut' PROVE LineInv'
  BY DEF LineInv
<1>0. ~cut /\ LineMax \in Nat
  <2>0. LineMax \in Nat
    BY LineReaderConstants
  <2>1. ASSUME NEW m \in Rooms, CallReadLine(m) \/ CallReadResponse(m) PROVE ~cut
    BY <2>1 DEF CallReadLine, CallReadResponse
  <2>2. CASE Say \/ Receive \/ RecvThrows \/ NoLine \/ Asserts \/ ReceiveResponse \/ ResponseEnds
    BY <2>0, <2>2 DEF Say, Receive, RecvThrows, NoLine, Asserts, ReceiveResponse, ResponseEnds
  <2>3. CASE Return
    BY <2>0, <2>3 DEF Return
  <2>4. CASE UNCHANGED lineVars
    BY <2>0, <2>4 DEF lineVars
  <2> QED
    BY <2>0, <2>1, <2>2, <2>3, <2>4 DEF LineNext
<1>1. /\ room \in Nat /\ n \in 0 .. LineMax /\ buf \in Buffer
      /\ air \in Cells /\ said \in Cells /\ got \in Cells
      /\ at = "response" => n = 0
      /\ got \o Held \o air = said
  BY <1>0 DEF LineInv, LinesWhole
<1>2. Held \in Cells
  BY <1>1, HeldCells DEF Held
<1>3. ASSUME UNCHANGED <<n, buf, air, said, got>>, room' \in Nat, at' = "response" => n = 0
      PROVE  LineInv'
  BY <1>0, <1>1, <1>3 DEF LineInv, LinesWhole, Held, Buffer
<1>4. CASE UNCHANGED lineVars
  BY <1>1, <1>3, <1>4 DEF lineVars
<1>5. CASE Say
  <2>1. PICK s \in {<<Len(said) + 1>>, EndOfLine} : air' = air \o s /\ said' = said \o s
    BY <1>5 DEF Say
  <2>2. s \in Cells
    <3>1. <<Len(said) + 1>> \in Cells
      <4>1. Len(said) \in Nat
        BY <1>1, LenProperties DEF Cells
      <4> QED
        BY <4>1 DEF Cells
    <3>2. EndOfLine \in Cells
      BY DEF Cells, EndOfLine, CR, LF
    <3> QED
      BY <3>1, <3>2
  <2>3. UNCHANGED <<kind, at, room, buf, n, got, cut>>
    BY <1>5 DEF Say
  <2>4. got \o Held \in Cells /\ air' \in Cells /\ said' \in Cells
    BY <1>1, <1>2, <2>1, <2>2, CellsConcat
  <2>5. (got \o Held) \o (air \o s) = ((got \o Held) \o air) \o s
    <3> DEFINE g == got \o Held
    <3>1. g \in Cells /\ air \in Cells
      BY <1>1, <2>4
    <3> HIDE DEF g
    <3>2. g \o (air \o s) = (g \o air) \o s
      BY <2>2, <3>1, CellsAssociative
    <3> QED
      BY <3>2 DEF g
  <2>6. got' \o Held' \o air' = said'
    BY <1>1, <2>1, <2>3, <2>5 DEF Held
  <2> QED
    BY <1>0, <1>1, <2>3, <2>4, <2>6 DEF LineInv, LinesWhole, Buffer
<1>6. ASSUME NEW r \in Rooms, CallReadLine(r) PROVE LineInv'
  <2>1. r \in Nat
    BY LineReaderConstants
  <2> QED
    BY <1>3, <1>6, <2>1 DEF CallReadLine
<1>7. CASE RecvThrows \/ NoLine \/ Asserts \/ ResponseEnds
  BY <1>1, <1>3, <1>7 DEF RecvThrows, NoLine, Asserts, ResponseEnds
<1>8. CASE Receive
  <2>1. PICK k \in 1 .. Len(air) :
          /\ n + k <= LineMax
          /\ buf' = [i \in DOMAIN buf |-> IF i \in n + 1 .. n + k THEN air[i - n] ELSE buf[i]]
          /\ n' = n + k
          /\ air' = SubSeq(air, k + 1, Len(air))
    BY <1>8 DEF Receive
  <2>2. UNCHANGED <<kind, room, said, got, cut>> /\ at' = "parse"
    BY <1>8 DEF Receive
  <2>3. Len(air) \in Nat /\ \A i \in 1 .. Len(air) : air[i] \in Nat
    BY <1>1, LenProperties, ElementOfSeq DEF Cells
  <2>4. /\ k \in Nat /\ n \in Nat /\ n' \in 0 .. LineMax /\ n \in 0 .. LineMax
        /\ DOMAIN buf = 1 .. LineMax
    BY <1>0, <1>1, <2>1, <2>3 DEF Buffer
  <2>5. buf' \in Buffer
    BY <1>0, <1>1, <2>1, <2>3, <2>4 DEF Buffer
  <2>6. /\ \A x \in 1 .. n : buf'[x] = buf[x]
        /\ \A x \in 1 .. k : buf'[n + x] = air[x]
    BY <1>0, <2>1, <2>3, <2>4
  <2>7. SubSeq(buf', 1, n) = SubSeq(buf, 1, n)
    <3>1. 0 \in 0 .. LineMax /\ n - 0 = n /\ 0 <= n /\ \A x \in 1 .. n : buf'[x] = buf[x + 0]
      BY <1>0, <2>4, <2>6
    <3>2. SubSeq(buf', 1, n) = SubSeq(buf, 0 + 1, n)
      BY <1>1, <2>4, <2>5, <3>1, SameHeld
    <3>3. 0 + 1 = 1
      OBVIOUS
    <3> QED
      BY <3>2, <3>3
  <2>8. SubSeq(buf', n + 1, n + k) = SubSeq(air, 1, k)
    <3> DEFINE s == SubSeq(buf', n + 1, n + k)
               t == SubSeq(air, 1, k)
    <3>1. s \in Seq(Nat) /\ Len(s) = k /\ \A x \in 1 .. k : s[x] = buf'[n + x]
      <4>1. \A x \in n + 1 .. n + k : buf'[x] \in Nat
        <5>1. \A x \in 1 .. LineMax : buf'[x] \in Nat
          BY <2>5 DEF Buffer
        <5>2. \A x \in n + 1 .. n + k : x \in 1 .. LineMax
          BY <1>0, <2>1, <2>4
        <5> QED
          BY <5>1, <5>2
      <4>2. /\ n + 1 \in Int /\ n + k \in Int /\ n + 1 <= n + k
            /\ n + k - (n + 1) + 1 = k /\ \A x \in 1 .. k : n + 1 + x - 1 = n + x
        BY <2>1, <2>4
      <4> QED
        BY <4>1, <4>2, SubSeqProperties
    <3>2. t \in Seq(Nat) /\ Len(t) = k /\ \A x \in 1 .. k : t[x] = air[x]
      <4>1. \A x \in 1 .. k : air[x] \in Nat
        BY <2>1, <2>3
      <4>2. k \in Int /\ 1 <= k /\ k - 1 + 1 = k /\ \A x \in 1 .. k : 1 + x - 1 = x
        BY <2>1, <2>4
      <4> QED
        BY <4>1, <4>2, SubSeqProperties
    <3> HIDE DEF s, t
    <3>3. s = t
      BY <2>6, <3>1, <3>2, SeqEqual
    <3> QED
      BY <3>3 DEF s, t
  <2>9. Held' = Held \o SubSeq(air, 1, k)
    <3>1. buf' \in Cells /\ n' <= Len(buf') /\ n <= n' /\ n' \in Nat
      BY <2>1, <2>4, <2>5, BufferCells
    <3>2. SubSeq(buf', 1, n') = SubSeq(buf', 1, n) \o SubSeq(buf', n + 1, n')
      BY <3>1, <2>4, CellsCut
    <3> QED
      BY <3>2, <2>1, <2>7, <2>8 DEF Held
  <2>10. /\ SubSeq(air, 1, k) \in Cells /\ air' \in Cells
         /\ air = SubSeq(air, 1, k) \o air'
    <3>1. k \in Nat /\ k <= Len(air)
      BY <2>1, <2>3
    <3>2. /\ SubSeq(air, 1, k) \in Cells /\ SubSeq(air, k + 1, Len(air)) \in Cells
          /\ air = SubSeq(air, 1, k) \o SubSeq(air, k + 1, Len(air))
      BY <1>1, <3>1, CellsWhole
    <3> QED
      BY <2>1, <3>2
  <2>11. got \o (Held \o SubSeq(air, 1, k)) \o air' = got \o Held \o air
    <3> DEFINE a == SubSeq(air, 1, k)
    <3> HIDE DEF a
    <3>1. a \in Cells /\ air' \in Cells /\ air = a \o air'
      BY <2>10 DEF a
    <3> DEFINE h == Held
    <3>0. h \in Cells /\ got \in Cells
      BY <1>1, <1>2
    <3> HIDE DEF h
    <3>2. got \o (h \o a) = (got \o h) \o a /\ got \o h \in Cells
      BY <3>0, <3>1, CellsAssociative, CellsConcat
    <3>3. ((got \o h) \o a) \o air' = (got \o h) \o (a \o air')
      BY <3>1, <3>2, CellsAssociative
    <3> QED
      BY <3>1, <3>2, <3>3 DEF a, h
  <2>12. got' \o Held' \o air' = said'
    BY <1>1, <2>2, <2>9, <2>11
  <2> QED
    BY <1>0, <1>1, <2>2, <2>4, <2>5, <2>10, <2>12 DEF LineInv, LinesWhole
<1>9. CASE Return
  <2> DEFINE i == Min(Ends)
             l == Length(i)
  <2>1. /\ Ends # {} /\ AfterCR(i)
        /\ got' = got \o Given(l) /\ n' = n - l /\ buf' = Shift(i, n - l)
        /\ cut' = (cut \/ l # i)
        /\ at' = "idle" /\ UNCHANGED <<kind, room, air, said>>
    BY <1>9 DEF Return
  <2>2. i \in 1 .. n /\ buf[i] = LF
    BY <1>0, <2>1, EndIn
  <2> HIDE DEF i, l
  <2>3. l = i
    BY <1>0, <2>1
  <2>4. Given(l) = SubSeq(buf, 1, i)
    BY <1>0, <2>1, <2>2, <2>3, WholeLine
  <2>5. i \in 0 .. LineMax /\ n' \in 0 .. LineMax /\ n' = n - i /\ i <= n /\ n \in 0 .. LineMax
    BY <1>0, <1>1, <2>1, <2>2, <2>3
  <2>6. buf' \in Buffer /\ \A x \in 1 .. n' : buf'[x] = buf[x + i]
    <3>1. buf' = [j \in 1 .. LineMax |-> IF j > n - i THEN buf[j]
                                         ELSE IF i + j <= LineMax THEN buf[i + j] ELSE Stale]
      BY <2>1, <2>3 DEF Shift
    <3>2. buf' \in Buffer
      BY <1>0, <1>1, <2>5, <3>1 DEF Buffer, Stale
    <3>3. \A x \in 1 .. n' : x \in 1 .. LineMax /\ ~(x > n - i) /\ i + x <= LineMax /\ i + x = x + i
      BY <1>0, <2>5
    <3> QED
      BY <3>1, <3>2, <3>3
  <2>7. Held' = SubSeq(buf, i + 1, n)
    <3>1. SubSeq(buf', 1, n') = SubSeq(buf, i + 1, n)
      BY <1>0, <1>1, <2>5, <2>6, SameHeld
    <3> QED
      BY <3>1 DEF Held
  <2>8. /\ SubSeq(buf, 1, i) \in Cells /\ SubSeq(buf, i + 1, n) \in Cells
        /\ Held = SubSeq(buf, 1, i) \o SubSeq(buf, i + 1, n)
    <3>1. buf \in Cells /\ n <= Len(buf) /\ i \in Nat /\ n \in Nat
      BY <1>0, <1>1, <2>5, BufferCells
    <3> QED
      BY <3>1, <2>5, CellsCut DEF Held
  <2>9. (got \o SubSeq(buf, 1, i)) \o SubSeq(buf, i + 1, n) = got \o Held
    BY <1>1, <2>8, CellsAssociative
  <2>10. got' \o Held' \o air' = said' /\ got' \in Cells
    BY <1>1, <2>1, <2>4, <2>7, <2>8, <2>9, CellsConcat
  <2> QED
    BY <1>0, <1>1, <2>1, <2>5, <2>6, <2>10 DEF LineInv, LinesWhole
<1>10. ASSUME NEW m \in Rooms, CallReadResponse(m) PROVE LineInv'
  <2>1. /\ got' = got \o Held /\ n' = 0 /\ UNCHANGED <<kind, buf, air, said>>
        /\ ~(m < n) /\ room' = m - n
    BY <1>0, <1>10 DEF CallReadResponse
  <2>2. m \in Nat /\ room' \in Nat /\ 0 \in 0 .. LineMax
    BY <1>0, <1>1, <2>1, LineReaderConstants
  <2>3. Held' = << >>
    BY <2>1, SubSeqEmpty DEF Held
  <2>4. got' \in Cells /\ got' \o << >> = got'
    BY <1>1, <1>2, <2>1, CellsConcat, CellsEmpty
  <2>5. got' \o Held' \o air' = said'
    BY <1>1, <2>1, <2>3, <2>4
  <2> QED
    BY <1>0, <1>1, <2>1, <2>2, <2>4, <2>5 DEF LineInv, LinesWhole
<1>11. CASE ReceiveResponse
  <2>1. PICK k \in 1 .. Len(air) :
          /\ k <= room
          /\ got' = got \o SubSeq(air, 1, k)
          /\ air' = SubSeq(air, k + 1, Len(air))
          /\ room' = room - k
    BY <1>11 DEF ReceiveResponse
  <2>2. UNCHANGED <<kind, at, buf, n, said, cut>> /\ n = 0
    BY <1>1, <1>11 DEF ReceiveResponse
  <2>3. Len(air) \in Nat /\ k \in Nat /\ k <= Len(air) /\ room' \in Nat
    <3>1. Len(air) \in Nat
      BY <1>1, LenProperties DEF Cells
    <3> QED
      BY <1>1, <2>1, <3>1
  <2>4. /\ SubSeq(air, 1, k) \in Cells /\ air' \in Cells
        /\ air = SubSeq(air, 1, k) \o air'
    BY <1>1, <2>1, <2>3, CellsWhole
  <2>5. Held = << >> /\ Held' = << >>
    BY <2>2, SubSeqEmpty DEF Held
  <2>6. (got \o SubSeq(air, 1, k)) \o air' = got \o air /\ got' \in Cells
    <3> DEFINE a == SubSeq(air, 1, k)
    <3>1. a \in Cells /\ got \in Cells /\ air' \in Cells /\ air = a \o air' /\ got' = got \o a
      BY <1>1, <2>1, <2>4
    <3> HIDE DEF a
    <3>2. (got \o a) \o air' = got \o (a \o air') /\ got \o a \in Cells
      BY <3>1, CellsAssociative, CellsConcat
    <3> QED
      BY <3>1, <3>2 DEF a
  <2>7. got' \o Held' \o air' = said'
    BY <1>1, <2>1, <2>2, <2>5, <2>6, CellsEmpty
  <2> QED
    BY <1>0, <1>1, <2>2, <2>3, <2>4, <2>6, <2>7 DEF LineInv, LinesWhole, Buffer
<1> QED
  BY <1>4, <1>5, <1>6, <1>7, <1>8, <1>9, <1>10, <1>11 DEF LineNext

(* Whatever the peer's lines are cut into, however long they are and       *)
(* whichever calls end with an exception, none of the three readers loses, *)
(* repeats or reorders a byte, unless a caller had too little room.        *)
THEOREM LinesNeverTorn == Spec => []LinesWhole
<1>1. Init => LineInv
  BY LineInitInv DEF Init
<1>2. LineInv /\ [Next]_vars => LineInv'
  BY LineStepInv DEF Next, vars, PacketStep, FileStep, LineStep, FrameStep, StrStep
<1>3. LineInv => LinesWhole
  BY DEF LineInv, LinesWhole
<1> QED
  BY <1>1, <1>2, <1>3, PTL DEF Spec

-----------------------------------------------------------------------------
(* Files.  What a data packet is filled with, and what is taken of it.     *)

Memory(m) == [data : [1 .. m -> Nat], max : Nat, ptr : Nat, size : Nat, net : BOOLEAN]

Wrote(m, p, s, r) ==
  /\ r \in Memory(m) /\ r.ptr = p.ptr + Len(s) /\ r.size = p.ptr + Len(s)
  /\ \A i \in 1 .. m : r.data[i] =
       IF i \in p.ptr + 1 .. p.ptr + Len(s) THEN s[i - p.ptr] ELSE p.data[i]

LEMMA PutIn ==
  ASSUME NEW m \in Nat, NEW p \in Memory(m), NEW s \in Cells
  PROVE  Wrote(m, p, s, Put(p, s))
<1> DEFINE d == [i \in 1 .. m |-> IF i \in p.ptr + 1 .. p.ptr + Len(s)
                                    THEN s[i - p.ptr] ELSE p.data[i]]
<1>1. p.data \in [1 .. m -> Nat] /\ p.ptr \in Nat /\ Len(s) \in Nat /\ s \in Seq(Nat)
  BY LenProperties DEF Memory, Cells
<1>2. d \in [1 .. m -> Nat]
  <2> SUFFICES ASSUME NEW i \in 1 .. m PROVE d[i] \in Nat
    OBVIOUS
  <2>1. CASE i \in p.ptr + 1 .. p.ptr + Len(s)
    <3>1. i - p.ptr \in 1 .. Len(s)
      BY <1>1, <2>1
    <3> QED
      BY <1>1, <2>1, <3>1, ElementOfSeq
  <2> QED
    BY <1>1, <2>1
<1>3. Put(p, s) = [p EXCEPT !.data = d, !.ptr = p.ptr + Len(s), !.size = p.ptr + Len(s)]
  <2>1. DOMAIN p.data = 1 .. m
    BY <1>1
  <2> QED
    BY <2>1 DEF Put, Memory
<1>4. \A i \in 1 .. m : d[i] = IF i \in p.ptr + 1 .. p.ptr + Len(s)
                                THEN s[i - p.ptr] ELSE p.data[i]
  OBVIOUS
<1> HIDE DEF d
<1>5. p.ptr + Len(s) \in Nat
  BY <1>1
<1> QED
  BY <1>2, <1>3, <1>4, <1>5 DEF Memory, Wrote

LEMMA One ==
  ASSUME NEW k \in Nat
  PROVE  <<k>> \in Cells /\ Len(<<k>>) = 1 /\ <<k>>[1] = k
BY DEF Cells

LEMMA Numbered ==
  ASSUME NEW k \in Nat, NEW v \in Cells
  PROVE  /\ <<k>> \o v \in Cells /\ Len(<<k>> \o v) = Len(v) + 1 /\ (<<k>> \o v)[1] = k
         /\ \A i \in 1 .. Len(v) : (<<k>> \o v)[i + 1] = v[i]
<1>1. v \in Seq(Nat) /\ Len(v) \in Nat
  BY LenProperties DEF Cells
<1>2. <<k>> \in Seq(Nat) /\ Len(<<k>>) = 1 /\ <<k>>[1] = k
  BY One DEF Cells
<1>3. /\ <<k>> \o v \in Seq(Nat) /\ Len(<<k>> \o v) = 1 + Len(v)
      /\ \A i \in 1 .. 1 + Len(v) : (<<k>> \o v)[i] = IF i <= 1 THEN <<k>>[i] ELSE v[i - 1]
  BY <1>1, <1>2, ConcatProperties
<1>4. \A i \in 1 .. Len(v) : (<<k>> \o v)[i + 1] = v[i]
  <2> SUFFICES ASSUME NEW i \in 1 .. Len(v) PROVE (<<k>> \o v)[i + 1] = v[i]
    OBVIOUS
  <2>1. i + 1 \in 1 .. 1 + Len(v) /\ ~(i + 1 <= 1) /\ (i + 1) - 1 = i
    BY <1>1
  <2> QED
    BY <1>3, <2>1
<1> QED
  BY <1>1, <1>2, <1>3, <1>4 DEF Cells

LEMMA SameCells ==
  ASSUME NEW s \in Cells, NEW t \in Cells, Len(s) = Len(t),
         \A i \in 1 .. Len(s) : s[i] = t[i]
  PROVE  s = t
BY SeqEqual DEF Cells

(* The packet of a chunk holds its number and its units.                   *)
LEMMA ChunkFilled ==
  ASSUME NEW s \in Cells, Len(s) <= Chunk
  PROVE  SubSeq(Filled(s).data, 1, Filled(s).size) = <<Len(s)>> \o s
<1> DEFINE m == Chunk + 1
           p0 == DataPacket
           p1 == Put(p0, <<Chunk>>)
           p2 == Reset(p1)
           q  == <<Len(s)>>
           p3 == Put(p2, q)
           p4 == Put(p3, s)
<1>1. Chunk \in Nat /\ m \in Nat /\ Len(s) \in Nat /\ s \in Seq(Nat)
  BY NetFileConstants, LenProperties DEF Cells
<1>2. p0 \in Memory(m) /\ p0.ptr = 0
  BY <1>1 DEF DataPacket, New, Memory, Junk
<1> HIDE DEF p0
<1>3. p1 \in Memory(m)
  BY <1>1, <1>2, One, PutIn DEF Wrote
<1> HIDE DEF p1
<1>4. p2 \in Memory(m) /\ p2.ptr = 0
  BY <1>3 DEF Reset, Memory
<1>one. q \in Cells /\ Len(q) = 1 /\ q[1] = Len(s)
  BY <1>1, One
<1> HIDE DEF p2, m, q
<1>5. /\ p3 \in Memory(m) /\ p3.ptr = 0 + 1
      /\ \A i \in 1 .. m : p3.data[i] = IF i \in 0 + 1 .. 0 + 1 THEN q[i - 0] ELSE p2.data[i]
  <2>1. Wrote(m, p2, q, p3)
    BY <1>1, <1>4, <1>one, PutIn
  <2> HIDE DEF p3
  <2> QED
    BY <1>4, <1>one, <2>1 DEF Wrote
<1>6. 1 \in 1 .. m /\ p3.ptr = 1 /\ p3.data[1] = Len(s)
  <2>1. 1 \in 1 .. m /\ 1 \in 0 + 1 .. 0 + 1 /\ 1 - 0 = 1
    BY <1>1 DEF m
  <2> QED
    BY <1>5, <1>one, <2>1
<1> HIDE DEF p3
<1>7. /\ p4 \in Memory(m) /\ p4.size = 1 + Len(s)
      /\ \A i \in 1 .. m : p4.data[i] = IF i \in 1 + 1 .. 1 + Len(s) THEN s[i - 1] ELSE p3.data[i]
  <2>1. Wrote(m, p3, s, p4)
    BY <1>1, <1>5, PutIn
  <2> HIDE DEF p4
  <2> QED
    BY <1>6, <2>1 DEF Wrote
<1>8. p4 = Filled(s)
  BY DEF Filled, p0, p1, p2, p3, q
<1> HIDE DEF p4
<1>9. p4.data[1] = Len(s)
  BY <1>1, <1>6, <1>7
<1>10. \A i \in 1 .. Len(s) : p4.data[i + 1] = s[i]
  <2> SUFFICES ASSUME NEW i \in 1 .. Len(s) PROVE p4.data[i + 1] = s[i]
    OBVIOUS
  <2>1. i + 1 \in 1 .. m /\ i + 1 \in 1 + 1 .. 1 + Len(s) /\ (i + 1) - 1 = i
    BY <1>1 DEF m
  <2> QED
    BY <1>7, <2>1
<1> DEFINE u == SubSeq(p4.data, 1, 1 + Len(s))
<1>11. \A i \in 1 .. 1 + Len(s) : p4.data[i] \in Nat
  BY <1>1, <1>7 DEF Memory, m
<1>12. /\ u \in Seq(Nat) /\ Len(u) = 1 + Len(s)
       /\ \A i \in 1 .. 1 + Len(s) : u[i] = p4.data[i]
  <2>1. /\ u \in Seq(Nat)
        /\ Len(u) = IF 1 <= 1 + Len(s) THEN 1 + Len(s) - 1 + 1 ELSE 0
        /\ \A i \in 1 .. 1 + Len(s) - 1 + 1 : u[i] = p4.data[1 + i - 1]
    BY <1>1, <1>11, SubSeqProperties
  <2>2. 1 + Len(s) - 1 + 1 = 1 + Len(s) /\ \A i \in 1 .. 1 + Len(s) : 1 + i - 1 = i
    BY <1>1
  <2> HIDE DEF u
  <2> QED
    BY <1>1, <2>1, <2>2
<1> HIDE DEF u
<1> DEFINE w == <<Len(s)>> \o s
<1>13. /\ w \in Cells /\ Len(w) = Len(s) + 1 /\ w[1] = Len(s)
       /\ \A i \in 1 .. Len(s) : w[i + 1] = s[i]
  BY <1>1, Numbered
<1> HIDE DEF w
<1>14. \A i \in 1 .. 1 + Len(s) : u[i] = w[i]
  <2> SUFFICES ASSUME NEW i \in 1 .. 1 + Len(s) PROVE u[i] = w[i]
    OBVIOUS
  <2>1. CASE i = 1
    BY <1>9, <1>12, <1>13, <2>1
  <2>2. CASE i # 1
    <3>1. i - 1 \in 1 .. Len(s) /\ (i - 1) + 1 = i
      BY <1>1, <2>2
    <3> QED
      BY <1>10, <1>12, <1>13, <3>1
  <2> QED
    BY <2>1, <2>2
<1>15. u = w
  <2>1. u \in Cells /\ Len(u) = Len(w) /\ \A i \in 1 .. Len(u) : u[i] = w[i]
    BY <1>1, <1>12, <1>13, <1>14 DEF Cells
  <2> QED
    BY <1>13, <2>1, SameCells
<1> QED
  BY <1>7, <1>8, <1>15 DEF u, w

LEMMA FirstTaken ==
  ASSUME NEW d \in Cells, Len(d) > 0
  PROVE  Take(Received(d), 1)[1] = d[1]
<1>1. Received(d).data = d /\ Received(d).ptr = 0
  BY DEF Received, New
<1>2. d \in Seq(Nat) /\ 1 \in Nat /\ 1 <= Len(d) /\ 1 \in 1 .. 1
  BY LenProperties DEF Cells
<1>3. SubSeq(d, 1, 1)[1] = d[1]
  BY <1>2, FrontOf
<1>4. Take(Received(d), 1) = SubSeq(d, 1, 1)
  BY <1>1 DEF Take
<1> QED
  BY <1>3, <1>4

LEMMA RestTaken ==
  ASSUME NEW v \in Cells, NEW k \in Nat, k = Len(v)
  PROVE  Take(Skip(Received(<<k>> \o v), 1), k) = v
<1> DEFINE d == <<k>> \o v
           p == Skip(Received(d), 1)
           u == SubSeq(d, 1 + 1, k + 1)
<1>1. /\ d \in Cells /\ Len(d) = k + 1 /\ \A i \in 1 .. k : d[i + 1] = v[i]
  BY Numbered
<1>2. p.data = d /\ p.ptr = 1
  BY DEF Received, New, Skip
<1> HIDE DEF d, p
<1>3. Take(p, k) = u
  BY <1>2, 1 + k = k + 1 DEF Take
<1>4. /\ u \in Seq(Nat) /\ Len(u) = k + 1 - 1
      /\ \A i \in 1 .. k + 1 - 1 : u[i] = d[1 + i]
  <2>1. d \in Seq(Nat) /\ 1 \in Nat /\ k + 1 \in Nat /\ 1 <= k + 1 /\ k + 1 <= Len(d)
    BY <1>1 DEF Cells
  <2> QED
    BY <2>1, PartOf
<1> HIDE DEF u
<1>5. u \in Cells /\ Len(u) = Len(v) /\ \A i \in 1 .. Len(u) : u[i] = v[i]
  BY <1>1, <1>4 DEF Cells
<1> QED
  BY <1>3, <1>5, SameCells DEF d, p

(* A connection nobody shares is a sequence of stages: between any two of  *)
(* its packets either no file is on its way, or one is, of which the first *)
(* so many units have gone by.  The receiver is at the first stage and the *)
(* sender at the last.                                                     *)
Stages == [on : BOOLEAN, of : Cells, upto : Nat]
FilePackets == [cmd : {"start", "data", "end", "other"}, data : Cells]

Leads(s, p, t) ==
  \/ p.cmd = "start" /\ ~s.on /\ t.on /\ t.upto = 0 /\ p.data = <<Len(t.of)>>
  \/ /\ p.cmd = "data" /\ s.on /\ t.on /\ t.of = s.of /\ s.upto <= t.upto
     /\ p.data = <<t.upto - s.upto>> \o SubSeq(s.of, s.upto + 1, t.upto)
  \/ p.cmd = "end" /\ s.on /\ s.upto = Len(s.of) /\ ~t.on
  \/ p.cmd = "other" /\ t = s

(* A file on its way is one of Files; a file that was on its way at two    *)
(* stages was so at those between.                                         *)
WithinFile(s) == s.on => s.of \in Files /\ s.upto <= Len(s.of)
OnWay(s, f) == s.on /\ s.of = f
Unbroken(st, i, k) == \A f \in Files : OnWay(st[i], f) /\ OnWay(st[k], f) =>
                        \A j \in i .. k : OnWay(st[j], f)

Staged(st, ps) ==
  /\ st \in Seq(Stages) /\ ps \in Seq(FilePackets) /\ Len(st) = Len(ps) + 1
  /\ \A i \in 1 .. Len(st) : WithinFile(st[i])
  /\ \A i \in 1 .. Len(ps) : Leads(st[i], ps[i], st[i + 1])
  /\ \A i, k \in 1 .. Len(st) : Unbroken(st, i, k)

LEMMA StageTypes ==
  ASSUME NEW st, NEW ps, Staged(st, ps)
  PROVE  /\ Len(ps) \in Nat /\ Len(st) \in Nat /\ Len(st) = Len(ps) + 1
         /\ 1 \in 1 .. Len(st) /\ Len(st) \in 1 .. Len(st)
         /\ \A i \in 1 .. Len(st) : st[i] \in Stages
BY LenProperties, ElementOfSeq DEF Staged

LEMMA StageAdded ==
  ASSUME NEW st, NEW ps, Staged(st, ps), NEW p \in FilePackets, NEW t \in Stages,
         Leads(st[Len(st)], p, t), WithinFile(t),
         t.on => OnWay(st[Len(st)], t.of) \/ \A i \in 1 .. Len(st) : ~OnWay(st[i], t.of)
  PROVE  /\ Staged(Append(st, t), Append(ps, p))
         /\ Append(st, t)[1] = st[1] /\ Append(st, t)[Len(Append(st, t))] = t
         /\ Len(Append(st, t)) = Len(st) + 1
         /\ \A i \in 1 .. Len(st) : Append(st, t)[i] = st[i]
<1> DEFINE st1 == Append(st, t)
           ps1 == Append(ps, p)
           l   == Len(ps)
<1>1. l \in Nat /\ Len(st) = l + 1 /\ st \in Seq(Stages) /\ ps \in Seq(FilePackets)
  BY StageTypes DEF Staged
<1>2. /\ st1 \in Seq(Stages) /\ Len(st1) = l + 2 /\ st1[l + 2] = t
      /\ \A i \in 1 .. l + 1 : st1[i] = st[i]
  <2>1. Len(st) + 1 = l + 2
    BY <1>1
  <2> QED
    BY <1>1, <2>1, AppendProperties
<1>3. /\ ps1 \in Seq(FilePackets) /\ Len(ps1) = l + 1 /\ ps1[l + 1] = p
      /\ \A i \in 1 .. l : ps1[i] = ps[i]
  BY <1>1, AppendProperties
<1>4. /\ \A i \in 1 .. l + 1 : WithinFile(st[i])
      /\ \A i \in 1 .. l : Leads(st[i], ps[i], st[i + 1])
      /\ \A i, k \in 1 .. l + 1 : Unbroken(st, i, k)
      /\ Leads(st[l + 1], p, t)
      /\ t.on => OnWay(st[l + 1], t.of) \/ \A i \in 1 .. l + 1 : ~OnWay(st[i], t.of)
  BY <1>1 DEF Staged
<1> HIDE DEF st1, ps1, l
<1>5. \A i \in 1 .. l + 2 : WithinFile(st1[i])
  <2> SUFFICES ASSUME NEW i \in 1 .. l + 2 PROVE WithinFile(st1[i])
    OBVIOUS
  <2>1. i \in 1 .. l + 1 \/ i = l + 2
    BY <1>1
  <2> QED
    BY <1>2, <1>4, <2>1
<1>6. \A i \in 1 .. l + 1 : Leads(st1[i], ps1[i], st1[i + 1])
  <2> SUFFICES ASSUME NEW i \in 1 .. l + 1 PROVE Leads(st1[i], ps1[i], st1[i + 1])
    OBVIOUS
  <2>1. CASE i = l + 1
    <3>1. st1[i] = st[l + 1] /\ ps1[i] = p /\ st1[i + 1] = t
      <4>1. l + 1 \in 1 .. l + 1 /\ (l + 1) + 1 = l + 2
        BY <1>1
      <4> QED
        BY <1>2, <1>3, <2>1, <4>1
    <3> QED
      BY <1>4, <3>1
  <2>2. CASE i # l + 1
    <3>1. i \in 1 .. l /\ i + 1 \in 1 .. l + 1
      BY <1>1, <2>2
    <3> QED
      BY <1>2, <1>3, <1>4, <3>1
  <2> QED
    BY <2>1, <2>2
<1>7. ASSUME NEW i \in 1 .. l + 2, NEW k \in 1 .. l + 2 PROVE Unbroken(st1, i, k)
  <2> SUFFICES ASSUME NEW f \in Files, OnWay(st1[i], f), OnWay(st1[k], f), NEW j \in i .. k
               PROVE  OnWay(st1[j], f)
    BY DEF Unbroken
  <2>0. j \in 1 .. l + 2 /\ i <= j /\ j <= k
    BY <1>1
  <2>1. CASE k \in 1 .. l + 1
    <3>1. i \in 1 .. l + 1 /\ j \in 1 .. l + 1
      BY <1>1, <2>0, <2>1
    <3>2. OnWay(st[i], f) /\ OnWay(st[k], f) /\ st1[j] = st[j]
      BY <1>2, <2>1, <3>1
    <3> QED
      BY <1>4, <2>1, <3>1, <3>2 DEF Unbroken
  <2>2. CASE k = l + 2
    <3>1. CASE j = l + 2
      BY <2>2, <3>1
    <3>2. CASE j # l + 2
      <4>1. i \in 1 .. l + 1 /\ j \in 1 .. l + 1 /\ j \in i .. l + 1 /\ l + 1 \in 1 .. l + 1
        BY <1>1, <2>0, <3>2
      <4>2. OnWay(st[i], f) /\ t.on /\ t.of = f /\ st1[j] = st[j]
        BY <1>2, <2>2, <4>1 DEF OnWay
      <4>3. OnWay(st[l + 1], f)
        BY <1>4, <4>1, <4>2
      <4> QED
        BY <1>4, <4>1, <4>2, <4>3 DEF Unbroken
    <3> QED
      BY <3>1, <3>2
  <2> QED
    BY <1>1, <2>1, <2>2
<1>8. Staged(st1, ps1)
  <2>1. Len(st1) = Len(ps1) + 1
    BY <1>1, <1>2, <1>3
  <2> QED
    BY <1>2, <1>3, <1>5, <1>6, <1>7, <2>1 DEF Staged
<1>9. l + 2 = Len(st) + 1 /\ 1 \in 1 .. l + 1
  BY <1>1
<1> QED
  BY <1>1, <1>2, <1>8, <1>9 DEF st1, ps1

LEMMA StageTaken ==
  ASSUME NEW st, NEW ps, Staged(st, ps), ps # << >>
  PROVE  /\ Staged(Tail(st), Tail(ps)) /\ Leads(st[1], Head(ps), st[2])
         /\ Len(Tail(st)) = Len(st) - 1 /\ Len(st) - 1 \in 1 .. Len(st) - 1
         /\ \A i \in 1 .. Len(st) - 1 : Tail(st)[i] = st[i + 1]
         /\ 1 \in 1 .. Len(st) /\ 2 \in 1 .. Len(st) /\ Len(st) \in 2 .. Len(st)
<1> DEFINE st1 == Tail(st)
           ps1 == Tail(ps)
           l   == Len(ps)
<1>1. l \in Nat /\ Len(st) = l + 1 /\ st \in Seq(Stages) /\ ps \in Seq(FilePackets) /\ l > 0
  <2>1. Len(ps) # 0
    BY EmptySeq DEF Staged
  <2> QED
    BY <2>1, StageTypes DEF Staged
<1>2. /\ st1 \in Seq(Stages) /\ Len(st1) = l /\ \A i \in 1 .. l : st1[i] = st[i + 1]
  <2>1. st # << >> /\ Len(st) - 1 = l
    BY <1>1, EmptySeq
  <2> QED
    BY <1>1, <2>1, HeadTailProperties
<1>3. /\ ps1 \in Seq(FilePackets) /\ Len(ps1) = l - 1 /\ \A i \in 1 .. l - 1 : ps1[i] = ps[i + 1]
  BY <1>1, HeadTailProperties
<1>4. Head(ps) = ps[1]
  BY <1>1
<1>5. /\ \A i \in 1 .. l + 1 : WithinFile(st[i])
      /\ \A i \in 1 .. l : Leads(st[i], ps[i], st[i + 1])
      /\ \A i, k \in 1 .. l + 1 : Unbroken(st, i, k)
  BY <1>1 DEF Staged
<1> HIDE DEF st1, ps1, l
<1>6. ASSUME NEW i \in 1 .. l PROVE WithinFile(st1[i])
  <2>1. i + 1 \in 1 .. l + 1
    BY <1>1
  <2> QED
    BY <1>2, <1>5, <2>1
<1>7. ASSUME NEW i \in 1 .. l - 1 PROVE Leads(st1[i], ps1[i], st1[i + 1])
  <2>1. i \in 1 .. l /\ i + 1 \in 1 .. l
    BY <1>1
  <2> QED
    BY <1>2, <1>3, <1>5, <2>1
<1>8. ASSUME NEW i \in 1 .. l, NEW k \in 1 .. l PROVE Unbroken(st1, i, k)
  <2> SUFFICES ASSUME NEW f \in Files, OnWay(st1[i], f), OnWay(st1[k], f), NEW j \in i .. k
               PROVE  OnWay(st1[j], f)
    BY DEF Unbroken
  <2>1. /\ i + 1 \in 1 .. l + 1 /\ k + 1 \in 1 .. l + 1 /\ j + 1 \in i + 1 .. k + 1
        /\ j \in 1 .. l
    BY <1>1
  <2>2. OnWay(st[i + 1], f) /\ OnWay(st[k + 1], f) /\ st1[j] = st[j + 1]
    BY <1>2, <2>1
  <2> QED
    BY <1>5, <2>1, <2>2 DEF Unbroken
<1>9. Staged(st1, ps1)
  <2>1. Len(st1) = Len(ps1) + 1
    BY <1>1, <1>2, <1>3
  <2> QED
    BY <1>2, <1>3, <1>6, <1>7, <1>8, <2>1 DEF Staged
<1>10. Leads(st[1], Head(ps), st[2])
  <2>1. 1 \in 1 .. l /\ 1 + 1 = 2
    BY <1>1
  <2> QED
    BY <1>4, <1>5, <2>1
<1>11. Len(st) - 1 = l /\ l \in 1 .. l /\ 1 \in 1 .. Len(st) /\ 2 \in 1 .. Len(st)
       /\ Len(st) \in 2 .. Len(st)
  BY <1>1
<1> QED
  BY <1>2, <1>9, <1>10, <1>11 DEF st1, ps1

FileTypes ==
  /\ transmit \in [Files -> {"before", "on", "over"}] /\ rest \in [Files -> Cells]
  /\ received \in Seq(Files)

SenderAt(s) ==
  \A f \in Files :
    /\ transmit[f] = "on" <=> OnWay(s, f)
    /\ transmit[f] = "before" => rest[f] = f
    /\ transmit[f] = "on" => rest[f] = SubSeq(f, s.upto + 1, Len(f))

ReceiverAt(s) ==
  IF filling THEN s.on /\ expects = Len(s.of) /\ file = SubSeq(s.of, 1, s.upto)
             ELSE file = << >>

Pending(s) ==
  \A f \in Files : OnWay(s, f) =>
    transmit[f] # "before" /\ \A j \in 1 .. Len(received) : received[j] # f

Delivered ==
  \A j \in 1 .. Len(received) :
    /\ transmit[received[j]] = "over"
    /\ \A k \in 1 .. Len(received) : received[j] = received[k] => j = k

(* The stages a connection goes through that nobody shares.                *)
GoesThrough(st) ==
  /\ Staged(st, packets) /\ SenderAt(st[Len(st)]) /\ ReceiverAt(st[1])
  /\ \A i \in 1 .. Len(st) : Pending(st[i])

FileInv ==
  /\ mixed \in BOOLEAN
  /\ mixed \/ (FileTypes /\ Delivered /\ \E st : GoesThrough(st))

LEMMA FileCells == \A f \in Files : f \in Cells /\ Len(f) \in Nat
BY NetFileConstants, LenProperties DEF Cells

LEMMA FileInitInv == FileInit => FileInv
<1> SUFFICES ASSUME FileInit PROVE FileInv
  OBVIOUS
<1> DEFINE s  == [on |-> FALSE, of |-> << >>, upto |-> 0]
           st == <<s>>
<1>1. s \in Stages /\ ~s.on
  BY CellsEmpty DEF Stages
<1> HIDE DEF s
<1>2. st \in Seq(Stages) /\ Len(st) = 1 /\ st[1] = s
  BY <1>1
<1>3. packets = << >> /\ packets \in Seq(FilePackets) /\ Len(packets) = 0
  BY EmptySeq DEF FileInit
<1> HIDE DEF st
<1>4. Staged(st, packets)
  BY <1>1, <1>2, <1>3 DEF Staged, WithinFile, Unbroken, OnWay
<1>5. FileTypes
  BY FileCells, EmptySeq DEF FileInit, FileTypes
<1>6. SenderAt(s) /\ ReceiverAt(s) /\ Pending(s)
  BY <1>1 DEF FileInit, SenderAt, ReceiverAt, Pending, OnWay
<1>7. Delivered
  BY DEF FileInit, Delivered
<1>8. GoesThrough(st)
  BY <1>2, <1>4, <1>6 DEF GoesThrough
<1> QED
  BY <1>5, <1>7, <1>8 DEF FileInv, FileInit

(* A packet is sent: the last stage is one more.                           *)
LEMMA FileSent ==
  ASSUME FileTypes, FileTypes', Delivered, NEW st, GoesThrough(st),
         NEW p \in FilePackets, NEW t \in Stages,
         packets' = Append(packets, p), Leads(st[Len(st)], p, t), WithinFile(t),
         t.on => OnWay(st[Len(st)], t.of) \/ \A i \in 1 .. Len(st) : ~OnWay(st[i], t.of),
         SenderAt(t)', Pending(t)',
         \A f \in Files : transmit[f] # transmit'[f] => transmit[f] # "over" /\ transmit'[f] # "before",
         UNCHANGED <<filling, file, expects, received>>
  PROVE  Delivered' /\ \E u : GoesThrough(u)'
<1> DEFINE u == Append(st, t)
<1>1. Staged(st, packets)
  BY DEF GoesThrough
<1>2. /\ Staged(u, packets') /\ u[1] = st[1] /\ u[Len(u)] = t /\ Len(u) = Len(st) + 1
      /\ \A i \in 1 .. Len(st) : u[i] = st[i]
  BY <1>1, StageAdded
<1>3. Len(st) \in Nat /\ Len(u) \in 1 .. Len(u) /\ 1 \in 1 .. Len(u)
  BY <1>1, <1>2, StageTypes
<1> HIDE DEF u
<1>4. ReceiverAt(u[1])'
  <2>1. ReceiverAt(st[1])
    BY DEF GoesThrough
  <2> QED
    BY <1>2, <2>1 DEF ReceiverAt
<1>5. \A i \in 1 .. Len(u) : Pending(u[i])'
  <2> SUFFICES ASSUME NEW i \in 1 .. Len(u) PROVE Pending(u[i])'
    OBVIOUS
  <2>1. CASE i = Len(u)
    BY <1>2, <2>1
  <2>2. CASE i # Len(u)
    <3>1. i \in 1 .. Len(st)
      BY <1>2, <1>3, <2>2
    <3>2. Pending(st[i]) /\ u[i] = st[i]
      BY <1>2, <3>1 DEF GoesThrough
    <3> QED
      BY <3>2 DEF Pending
  <2> QED
    BY <2>1, <2>2
<1>6. Delivered'
  <2>1. received \in Seq(Files)
    BY DEF FileTypes
  <2>2. \A j \in 1 .. Len(received) : received[j] \in Files
    BY <2>1, ElementOfSeq
  <2> QED
    BY <2>2 DEF Delivered
<1>7. GoesThrough(u)'
  BY <1>2, <1>4, <1>5 DEF GoesThrough
<1> QED
  BY <1>6, <1>7

(* A packet is taken: the second stage is the first.                       *)
LEMMA FileTaken ==
  ASSUME NEW st, GoesThrough(st), packets # << >>, packets' = Tail(packets),
         ReceiverAt(st[2])', UNCHANGED <<transmit, rest>>,
         \A i \in 2 .. Len(st) : Pending(st[i])'
  PROVE  \E u : GoesThrough(u)'
<1> DEFINE u == Tail(st)
           l == Len(st)
<1>1. Staged(st, packets)
  BY DEF GoesThrough
<1>2. /\ Staged(u, packets') /\ Len(u) = l - 1 /\ l - 1 \in 1 .. l - 1
      /\ \A i \in 1 .. l - 1 : u[i] = st[i + 1]
  BY <1>1, StageTaken
<1>3. l \in Nat
  BY <1>1, StageTypes
<1>4. SenderAt(st[l])
  BY DEF GoesThrough
<1> HIDE DEF u, l
<1>5. u[1] = st[2] /\ u[Len(u)] = st[l]
  <2>1. 1 \in 1 .. l - 1 /\ 1 + 1 = 2 /\ (l - 1) + 1 = l
    BY <1>2, <1>3
  <2> QED
    BY <1>2, <2>1
<1>6. \A i \in 1 .. Len(u) : Pending(u[i])'
  <2> SUFFICES ASSUME NEW i \in 1 .. Len(u) PROVE Pending(u[i])'
    OBVIOUS
  <2>1. i \in 1 .. l - 1 /\ i + 1 \in 2 .. l
    BY <1>2, <1>3
  <2> QED
    BY <1>2, <2>1 DEF l
<1>7. SenderAt(u[Len(u)])'
  BY <1>4, <1>5 DEF SenderAt
<1> QED
  BY <1>2, <1>5, <1>6, <1>7 DEF GoesThrough

LEMMA FileSendStart ==
  ASSUME NEW f \in Files, SendStart(f), ~mixed', FileTypes, Delivered, NEW st, GoesThrough(st)
  PROVE  FileTypes' /\ Delivered' /\ \E u : GoesThrough(u)'
<1> DEFINE s == st[Len(st)]
           t == [on |-> TRUE, of |-> f, upto |-> 0]
           p == Packet("start", <<Len(f)>>)
<1>1. f \in Cells /\ Len(f) \in Nat
  BY FileCells
<1>2. /\ t \in Stages /\ t.on /\ t.of = f /\ t.upto = 0
      /\ p \in FilePackets /\ p.cmd = "start" /\ p.data = <<Len(f)>>
  BY <1>1, One DEF Stages, FilePackets, Packet
<1>3. packets' = Append(packets, p)
  BY DEF SendStart
<1> HIDE DEF t, p
<1>4. /\ transmit[f] = "before" /\ transmit' = [transmit EXCEPT ![f] = "on"]
      /\ UNCHANGED <<rest, filling, file, expects, received>>
      /\ \A g \in Files \ {f} : transmit[g] # "on"
  BY DEF SendStart, Transmits, Sending, receiverVars
<1>5. Staged(st, packets) /\ SenderAt(s) /\ \A i \in 1 .. Len(st) : Pending(st[i])
  BY DEF GoesThrough
<1>6. Len(st) \in 1 .. Len(st) /\ WithinFile(s)
  BY <1>5, StageTypes DEF Staged
<1>7. ~s.on
  BY <1>4, <1>5, <1>6 DEF SenderAt, WithinFile, OnWay
<1>8. Leads(s, p, t) /\ WithinFile(t)
  BY <1>1, <1>2, <1>7 DEF Leads, WithinFile
<1>9. \A i \in 1 .. Len(st) : ~OnWay(st[i], t.of)
  BY <1>2, <1>4, <1>5 DEF Pending
<1>10. FileTypes'
  BY <1>4 DEF FileTypes
<1>11. SenderAt(t)'
  <2>1. SubSeq(f, 0 + 1, Len(f)) = f
    BY <1>1, SubSeqFull, 0 + 1 = 1 DEF Cells
  <2>2. ASSUME NEW g \in Files
        PROVE  /\ transmit'[g] = "on" <=> OnWay(t, g)
               /\ transmit'[g] = "before" => rest'[g] = g
               /\ transmit'[g] = "on" => rest'[g] = SubSeq(g, t.upto + 1, Len(g))
    <3>1. CASE g = f
      BY <1>2, <1>4, <1>5, <2>1, <3>1 DEF SenderAt, FileTypes, OnWay
    <3>2. CASE g # f
      BY <1>2, <1>4, <1>5, <3>2 DEF SenderAt, FileTypes, OnWay
    <3> QED
      BY <3>1, <3>2
  <2> QED
    BY <2>2 DEF SenderAt
<1>12. Pending(t)'
  <2>1. \A j \in 1 .. Len(received) : received[j] # f
    BY <1>4 DEF Delivered
  <2> QED
    BY <1>2, <1>4, <2>1 DEF Pending, OnWay, FileTypes
<1>13. \A g \in Files : transmit[g] # transmit'[g] => transmit[g] # "over" /\ transmit'[g] # "before"
  BY <1>4 DEF FileTypes
<1> HIDE DEF s
<1> QED
  BY <1>2, <1>3, <1>4, <1>8, <1>9, <1>10, <1>11, <1>12, <1>13, FileSent DEF s

(* What is left of a file, taken apart after k units.                      *)
LEMMA LeftOf ==
  ASSUME NEW f \in Cells, NEW i \in Nat, i <= Len(f), NEW k \in Nat, k <= Len(f) - i,
         NEW r, r = SubSeq(f, i + 1, Len(f))
  PROVE  /\ SubSeq(r, 1, k) = SubSeq(f, i + 1, i + k)
         /\ SubSeq(r, k + 1, Len(r)) = SubSeq(f, (i + k) + 1, Len(f))
<1> DEFINE l == Len(f)
           c == SubSeq(r, 1, k)
           e == SubSeq(f, i + 1, i + k)
           d == l - i
           a == SubSeq(r, k + 1, d)
           b == SubSeq(f, (i + k) + 1, l)
<1>1. f \in Seq(Nat) /\ l \in Nat /\ l <= Len(f)
  BY LenProperties DEF Cells
<1> HIDE DEF l
<1>2. i + k \in Nat /\ i <= i + k /\ i + k <= l /\ i <= l
  BY <1>1 DEF l
<1>3. r \in Seq(Nat) /\ Len(r) = l - i /\ \A j \in 1 .. l - i : r[j] = f[i + j]
  <2>1. r = SubSeq(f, i + 1, l)
    BY DEF l
  <2> QED
    BY <1>1, <1>2, <2>1, PartOf
<1>4. d \in Nat /\ k <= d /\ d <= Len(r)
  <2>1. d \in Nat /\ k <= d
    BY <1>1, <1>2
  <2>2. d = Len(r)
    BY <1>3
  <2> QED
    BY <2>1, <2>2
<1> HIDE DEF d
<1>5. c \in Seq(Nat) /\ Len(c) = k /\ \A j \in 1 .. k : c[j] = r[j]
  BY <1>3, <1>4, FrontOf
<1>6. /\ e \in Seq(Nat) /\ Len(e) = (i + k) - i
      /\ \A j \in 1 .. (i + k) - i : e[j] = f[i + j]
  <2>1. i + k <= Len(f)
    BY <1>2 DEF l
  <2> QED
    BY <1>1, <1>2, <2>1, PartOf
<1>7. /\ a \in Seq(Nat) /\ Len(a) = d - k
      /\ \A j \in 1 .. d - k : a[j] = r[k + j]
  <2>1. r \in Seq(Nat)
    BY <1>3
  <2> QED
    BY <1>4, <2>1, PartOf
<1>8. /\ b \in Seq(Nat) /\ Len(b) = l - (i + k)
      /\ \A j \in 1 .. l - (i + k) : b[j] = f[(i + k) + j]
  BY <1>1, <1>2, PartOf
<1> HIDE DEF a, b, c, e
<1>9. c = e
  <2>1. ASSUME NEW j \in 1 .. k PROVE c[j] = e[j]
    <3>1. j \in 1 .. l - i /\ j \in 1 .. (i + k) - i
      BY <1>1, <1>2
    <3> QED
      BY <1>3, <1>5, <1>6, <3>1
  <2>2. c \in Cells /\ e \in Cells /\ Len(c) = Len(e)
    BY <1>5, <1>6 DEF Cells
  <2> QED
    BY <1>5, <2>1, <2>2, SameCells
<1>10. a = b
  <2>1. ASSUME NEW j \in 1 .. d - k PROVE a[j] = b[j]
    <3>1. j \in 1 .. l - (i + k) /\ k + j \in 1 .. l - i /\ i + (k + j) = (i + k) + j
      BY <1>1, <1>2 DEF d
    <3> QED
      BY <1>3, <1>7, <1>8, <3>1
  <2>2. a \in Cells /\ b \in Cells /\ Len(a) = Len(b)
    BY <1>1, <1>7, <1>8 DEF Cells, d
  <2> QED
    BY <1>7, <2>1, <2>2, SameCells
<1> QED
  BY <1>3, <1>9, <1>10 DEF a, b, c, e, d, l

LEMMA FileSendChunk ==
  ASSUME NEW f \in Files, SendChunk(f), ~mixed', FileTypes, Delivered, NEW st, GoesThrough(st)
  PROVE  FileTypes' /\ Delivered' /\ \E u : GoesThrough(u)'
<1> DEFINE s == st[Len(st)]
           m == s.upto
           r == rest[f]
           k == Least(Len(r), Chunk)
           c == SubSeq(r, 1, k)
           l == Len(f)
<1>1. f \in Cells /\ l \in Nat /\ Chunk \in Nat
  BY FileCells, NetFileConstants
<1>2. /\ transmit[f] = "on" /\ UNCHANGED <<transmit, filling, file, expects, received>>
      /\ rest' = [rest EXCEPT ![f] = SubSeq(r, k + 1, Len(r))]
      /\ packets' = Append(packets, Packet("data", SubSeq(Filled(c).data, 1, Filled(c).size)))
  BY DEF SendChunk, Sending, receiverVars, FileTypes
<1>3. Staged(st, packets) /\ SenderAt(s) /\ \A i \in 1 .. Len(st) : Pending(st[i])
  BY DEF GoesThrough
<1>4. Len(st) \in 1 .. Len(st) /\ WithinFile(s) /\ s \in Stages /\ Pending(s)
  BY <1>3, StageTypes DEF Staged
<1> HIDE DEF s
<1>5. OnWay(s, f) /\ s.on /\ s.of = f /\ m \in Nat /\ m <= l
  BY <1>2, <1>3, <1>4 DEF SenderAt, WithinFile, OnWay, Stages
<1>6. r = SubSeq(f, m + 1, l)
  BY <1>2, <1>3 DEF SenderAt
<1>7. r \in Seq(Nat) /\ Len(r) = l - m
  <2>1. f \in Seq(Nat) /\ l <= Len(f)
    BY <1>1 DEF Cells
  <2> HIDE DEF l, m, r
  <2> QED
    BY <1>1, <1>5, <1>6, <2>1, PartOf
<1>8. k \in Nat /\ k <= l - m /\ k <= Len(r) /\ k <= Chunk
  <2> HIDE DEF l, m, r
  <2>1. Len(r) \in Nat
    BY <1>1, <1>5, <1>7
  <2> HIDE DEF k
  <2>2. k = IF Len(r) < Chunk THEN Len(r) ELSE Chunk
    BY DEF k, Least
  <2> QED
    BY <1>1, <1>7, <2>1, <2>2
<1> HIDE DEF k
<1>9. c \in Cells /\ Len(c) = k
  BY <1>7, <1>8, FrontOf DEF Cells
<1>10. /\ c = SubSeq(f, m + 1, m + k)
       /\ SubSeq(r, k + 1, Len(r)) = SubSeq(f, (m + k) + 1, l)
  <2>1. m <= Len(f) /\ k <= Len(f) - m /\ r = SubSeq(f, m + 1, Len(f))
    BY <1>5, <1>6, <1>8
  <2> HIDE DEF m, r, l
  <2> QED
    BY <1>1, <1>5, <1>8, <2>1, LeftOf DEF l
<1> HIDE DEF r, c
<1>11. packets' = Append(packets, Packet("data", <<k>> \o c))
  <2>1. SubSeq(Filled(c).data, 1, Filled(c).size) = <<k>> \o c
    BY <1>8, <1>9, ChunkFilled
  <2> QED
    BY <1>2, <2>1
<1>12. m + k \in Nat /\ <<k>> \o c \in Cells
  <2> HIDE DEF m
  <2> QED
    BY <1>5, <1>8, <1>9, Numbered
<1>t. PICK t \in Stages : t.on /\ t.of = f /\ t.upto = m + k
  <2> DEFINE u == [on |-> TRUE, of |-> f, upto |-> m + k]
  <2> HIDE DEF m
  <2>1. u \in Stages /\ u.on /\ u.of = f /\ u.upto = m + k
    BY <1>1, <1>12 DEF Stages
  <2> QED
    BY <2>1
<1>p. PICK p \in FilePackets : /\ p = Packet("data", <<k>> \o c)
                              /\ p.cmd = "data" /\ p.data = <<k>> \o c
  <2> DEFINE w == Packet("data", <<k>> \o c)
  <2>1. w \in FilePackets /\ w.cmd = "data" /\ w.data = <<k>> \o c
    BY <1>12 DEF FilePackets, Packet
  <2> QED
    BY <2>1
<1>13. Leads(s, p, t) /\ WithinFile(t)
  <2> HIDE DEF m, l
  <2>1. t.upto - m = k /\ m <= t.upto /\ t.upto <= l
    BY <1>1, <1>5, <1>8, <1>t
  <2>2. p.data = <<t.upto - s.upto>> \o SubSeq(s.of, s.upto + 1, t.upto)
    BY <1>5, <1>10, <1>t, <1>p, <2>1 DEF m
  <2> QED
    BY <1>5, <1>t, <1>p, <2>1, <2>2 DEF Leads, WithinFile, m, l
<1>14. FileTypes' /\ rest'[f] = SubSeq(f, t.upto + 1, Len(f))
  <2>1. SubSeq(r, k + 1, Len(r)) = SubSeq(f, t.upto + 1, Len(f))
    BY <1>10, <1>t
  <2>2. t.upto \in Nat
    BY <1>t DEF Stages
  <2>3. SubSeq(f, t.upto + 1, Len(f)) \in Cells
    BY <1>1, <2>2, CellsPart
  <2> QED
    BY <1>2, <2>1, <2>3 DEF FileTypes
<1>15. SenderAt(t)'
  <2>1. ASSUME NEW g \in Files
        PROVE  /\ transmit'[g] = "on" <=> OnWay(t, g)
               /\ transmit'[g] = "before" => rest'[g] = g
               /\ transmit'[g] = "on" => rest'[g] = SubSeq(g, t.upto + 1, Len(g))
    <3>1. CASE g = f
      BY <1>2, <1>t, <1>14, <3>1 DEF OnWay
    <3>2. CASE g # f
      <4>1. ~OnWay(t, g) /\ ~OnWay(s, g)
        BY <1>5, <1>t, <3>2 DEF OnWay
      <4>2. transmit'[g] = transmit[g] /\ rest'[g] = rest[g]
        BY <1>2, <3>2 DEF FileTypes
      <4> QED
        BY <1>3, <4>1, <4>2 DEF SenderAt
    <3> QED
      BY <3>1, <3>2
  <2> QED
    BY <2>1 DEF SenderAt
<1>16. Pending(t)'
  <2>1. \A g \in Files : OnWay(t, g) => OnWay(s, g)
    BY <1>5, <1>t DEF OnWay
  <2> QED
    BY <1>2, <1>4, <2>1 DEF Pending
<1>17. t.on => OnWay(s, t.of)
  BY <1>5, <1>t
<1>18. \A g \in Files : transmit[g] # transmit'[g] => transmit[g] # "over" /\ transmit'[g] # "before"
  BY <1>2
<1> QED
  BY <1>2, <1>11, <1>p, <1>t, <1>13, <1>14, <1>15, <1>16, <1>17, <1>18, FileSent DEF s

LEMMA FileSendEnd ==
  ASSUME NEW f \in Files, SendEnd(f), ~mixed', FileTypes, Delivered, NEW st, GoesThrough(st)
  PROVE  FileTypes' /\ Delivered' /\ \E u : GoesThrough(u)'
<1> DEFINE s == st[Len(st)]
           t == [on |-> FALSE, of |-> << >>, upto |-> 0]
           p == Packet("end", << >>)
<1>1. f \in Cells /\ Len(f) \in Nat
  BY FileCells
<1>2. t \in Stages /\ ~t.on /\ p \in FilePackets /\ p.cmd = "end"
  BY CellsEmpty DEF Stages, FilePackets, Packet
<1>3. packets' = Append(packets, p)
  BY DEF SendEnd
<1> HIDE DEF t, p
<1>4. /\ transmit[f] = "on" /\ transmit' = [transmit EXCEPT ![f] = "over"] /\ rest[f] = << >>
      /\ UNCHANGED <<rest, filling, file, expects, received>>
      /\ \A g \in Files \ {f} : transmit[g] # "on"
  BY DEF SendEnd, Transmits, Sending, receiverVars
<1>5. Staged(st, packets) /\ SenderAt(s)
  BY DEF GoesThrough
<1>6. Len(st) \in 1 .. Len(st) /\ WithinFile(s) /\ s \in Stages
  BY <1>5, StageTypes DEF Staged
<1>7. /\ s.on /\ s.of = f /\ s.upto \in Nat /\ s.upto <= Len(f)
      /\ rest[f] = SubSeq(f, s.upto + 1, Len(f))
  BY <1>4, <1>5, <1>6 DEF SenderAt, WithinFile, OnWay, Stages
<1>8. s.upto = Len(f)
  <2>1. Len(SubSeq(f, s.upto + 1, Len(f))) = Len(f) - s.upto
    BY <1>1, <1>7, PartOf DEF Cells
  <2>2. Len(<< >>) = 0
    OBVIOUS
  <2> QED
    BY <1>1, <1>4, <1>7, <2>1, <2>2
<1>9. Leads(s, p, t) /\ WithinFile(t)
  BY <1>2, <1>7, <1>8 DEF Leads, WithinFile
<1>10. FileTypes'
  BY <1>4 DEF FileTypes
<1>11. SenderAt(t)'
  BY <1>2, <1>4, <1>5 DEF SenderAt, OnWay, FileTypes
<1>12. Pending(t)'
  BY <1>2 DEF Pending, OnWay
<1>13. \A g \in Files : transmit[g] # transmit'[g] => transmit[g] # "over" /\ transmit'[g] # "before"
  BY <1>4 DEF FileTypes
<1> HIDE DEF s
<1> QED
  BY <1>2, <1>3, <1>4, <1>9, <1>10, <1>11, <1>12, <1>13, FileSent DEF s

LEMMA FileSendStray ==
  ASSUME SendStray, FileTypes, Delivered, NEW st, GoesThrough(st)
  PROVE  FileTypes' /\ Delivered' /\ \E u : GoesThrough(u)'
<1> DEFINE s == st[Len(st)]
           p == Packet("other", << >>)
<1>1. p \in FilePackets /\ p.cmd = "other"
  BY CellsEmpty DEF FilePackets, Packet
<1>2. packets' = Append(packets, p) /\ UNCHANGED <<transmit, rest, filling, file, expects, received>>
  BY DEF SendStray, receiverVars
<1> HIDE DEF p
<1>3. Staged(st, packets) /\ SenderAt(s)
  BY DEF GoesThrough
<1>4. Len(st) \in 1 .. Len(st) /\ WithinFile(s) /\ s \in Stages /\ Pending(s)
  BY <1>3, StageTypes DEF Staged, GoesThrough
<1>5. Leads(s, p, s)
  BY <1>1 DEF Leads
<1>6. FileTypes' /\ SenderAt(s)' /\ Pending(s)'
  BY <1>2, <1>3, <1>4 DEF FileTypes, SenderAt, Pending
<1>7. s.on => OnWay(s, s.of)
  BY DEF OnWay
<1> HIDE DEF s
<1> QED
  BY <1>1, <1>2, <1>4, <1>5, <1>6, <1>7, FileSent DEF s

(* What a receiver knows of the packet it takes.                           *)
LEMMA FileFirst ==
  ASSUME NEW st, GoesThrough(st), Arrives
  PROVE  /\ Leads(st[1], Head(packets), st[2]) /\ Head(packets) \in FilePackets
         /\ st[1] \in Stages /\ WithinFile(st[1]) /\ Pending(st[1]) /\ ReceiverAt(st[1])
         /\ st[2] \in Stages /\ WithinFile(st[2])
         /\ 1 \in 1 .. Len(st) /\ 2 \in 1 .. Len(st) /\ Len(st) \in 2 .. Len(st)
         /\ Len(st) \in 1 .. Len(st) /\ Len(st) \in Nat
         /\ \A i \in 2 .. Len(st) : Pending(st[i])
<1>1. Staged(st, packets) /\ packets # << >> /\ packets \in Seq(FilePackets)
  BY DEF GoesThrough, Arrives, Staged
<1>2. /\ Leads(st[1], Head(packets), st[2])
      /\ 1 \in 1 .. Len(st) /\ 2 \in 1 .. Len(st) /\ Len(st) \in 2 .. Len(st)
  BY <1>1, StageTaken
<1>3. Len(st) \in 1 .. Len(st) /\ Len(st) \in Nat /\ \A i \in 1 .. Len(st) : st[i] \in Stages
  BY <1>1, StageTypes
<1>4. Head(packets) \in FilePackets
  BY <1>1, HeadTailProperties
<1>5. \A i \in 1 .. Len(st) : WithinFile(st[i])
  BY <1>1 DEF Staged
<1>6. ReceiverAt(st[1]) /\ \A i \in 1 .. Len(st) : Pending(st[i])
  BY DEF GoesThrough
<1>7. \A i \in 2 .. Len(st) : i \in 1 .. Len(st)
  BY <1>3
<1> QED
  BY <1>2, <1>3, <1>4, <1>5, <1>6, <1>7

LEMMA FileStarts ==
  ASSUME Starts, NEW st, GoesThrough(st)
  PROVE  \E u : GoesThrough(u)'
<1> DEFINE s == st[1]
           t == st[2]
<1>1. /\ ~filling /\ Arrives /\ Head(packets).cmd = "start" /\ filling' = TRUE
      /\ expects' = Take(First, 1)[1] /\ packets' = Tail(packets)
      /\ UNCHANGED <<transmit, rest, file, received>>
  BY DEF Starts, senderVars
<1>2. /\ Leads(s, Head(packets), t) /\ t \in Stages /\ WithinFile(t) /\ ReceiverAt(s)
      /\ \A i \in 2 .. Len(st) : Pending(st[i])
  BY <1>1, FileFirst
<1> HIDE DEF s, t
<1>3. t.on /\ t.upto = 0 /\ Head(packets).data = <<Len(t.of)>> /\ Len(t.of) \in Nat /\ t.of \in Cells
  BY <1>1, <1>2, FileCells DEF Leads, WithinFile
<1>4. expects' = Len(t.of)
  <2>1. <<Len(t.of)>> \in Cells /\ Len(<<Len(t.of)>>) > 0 /\ <<Len(t.of)>>[1] = Len(t.of)
    BY <1>3, One
  <2> QED
    BY <1>1, <1>3, <2>1, FirstTaken DEF First
<1>5. file' = SubSeq(t.of, 1, 0)
  <2>1. SubSeq(t.of, 1, 0) \in Seq(Nat) /\ Len(SubSeq(t.of, 1, 0)) = 0
    BY <1>3, FrontOf DEF Cells
  <2>2. SubSeq(t.of, 1, 0) = << >>
    BY <2>1, EmptySeq
  <2> QED
    BY <1>1, <1>2, <2>2 DEF ReceiverAt
<1>6. ReceiverAt(t)'
  BY <1>1, <1>3, <1>4, <1>5 DEF ReceiverAt
<1>7. \A i \in 2 .. Len(st) : Pending(st[i])'
  BY <1>1, <1>2 DEF Pending
<1> QED
  BY <1>1, <1>6, <1>7, FileTaken DEF Arrives, t

LEMMA FileRejects ==
  ASSUME Rejects, NEW st, GoesThrough(st)
  PROVE  \E u : GoesThrough(u)'
<1>1. /\ Arrives /\ ~filling' /\ file' = << >> /\ packets' = Tail(packets)
      /\ UNCHANGED <<transmit, rest, received>>
  BY DEF Rejects, senderVars
<1>2. \A i \in 2 .. Len(st) : Pending(st[i])
  BY <1>1, FileFirst
<1>3. ReceiverAt(st[2])' /\ \A i \in 2 .. Len(st) : Pending(st[i])'
  BY <1>1, <1>2 DEF ReceiverAt, Pending
<1> QED
  BY <1>1, <1>3, FileTaken DEF Arrives

LEMMA FileReceivesData ==
  ASSUME ReceivesData, NEW st, GoesThrough(st)
  PROVE  \E u : GoesThrough(u)'
<1> DEFINE s == st[1]
           t == st[2]
           f == s.of
           k == t.upto - s.upto
           v == SubSeq(f, s.upto + 1, t.upto)
<1>1. /\ filling /\ Arrives /\ Head(packets).cmd = "data" /\ packets' = Tail(packets)
      /\ file' = file \o Take(Skip(First, 1), Take(First, 1)[1])
      /\ UNCHANGED <<transmit, rest, filling, expects, received>>
  BY DEF ReceivesData, senderVars
<1>2. /\ Leads(s, Head(packets), t) /\ ReceiverAt(s)
      /\ s \in Stages /\ WithinFile(s) /\ t \in Stages /\ WithinFile(t)
      /\ \A i \in 2 .. Len(st) : Pending(st[i])
  BY <1>1, FileFirst
<1> HIDE DEF s, t
<1>3. /\ s.on /\ t.on /\ t.of = f /\ s.upto <= t.upto /\ s.upto \in Nat /\ t.upto \in Nat
      /\ f \in Cells /\ t.upto <= Len(f) /\ Head(packets).data = <<k>> \o v
  BY <1>1, <1>2 DEF Leads, WithinFile, Stages
<1>4. expects = Len(f) /\ file = SubSeq(f, 1, s.upto)
  BY <1>1, <1>2 DEF ReceiverAt
<1> HIDE DEF f
<1>5. k \in Nat /\ v \in Cells /\ Len(v) = k
  <2>1. k \in Nat
    BY <1>3
  <2> QED
    BY <1>3, <2>1, CellsLen
<1> HIDE DEF k, v
<1>6. Take(First, 1)[1] = k
  <2>1. <<k>> \o v \in Cells /\ Len(<<k>> \o v) > 0 /\ (<<k>> \o v)[1] = k
    <3>1. Len(<<k>> \o v) = k + 1
      BY <1>5, Numbered
    <3> QED
      BY <1>5, <3>1, Numbered
  <2> QED
    BY <1>3, <2>1, FirstTaken DEF First
<1>7. Take(Skip(First, 1), k) = v
  BY <1>3, <1>5, RestTaken DEF First
<1>8. file' = SubSeq(t.of, 1, t.upto)
  <2>1. SubSeq(f, 1, t.upto) = SubSeq(f, 1, s.upto) \o v
    BY <1>3, CellsCut DEF v
  <2> QED
    BY <1>1, <1>3, <1>4, <1>6, <1>7, <2>1
<1>9. ReceiverAt(t)'
  BY <1>1, <1>3, <1>4, <1>8 DEF ReceiverAt
<1>10. \A i \in 2 .. Len(st) : Pending(st[i])'
  BY <1>1, <1>2 DEF Pending
<1> QED
  BY <1>1, <1>9, <1>10, FileTaken DEF Arrives, t

LEMMA FileReturns ==
  ASSUME Returns, FileTypes, Delivered, NEW st, GoesThrough(st)
  PROVE  FileTypes' /\ Delivered' /\ \E u : GoesThrough(u)'
<1> DEFINE s == st[1]
           t == st[2]
           f == s.of
           l == Len(st)
           m == Len(received)
<1>1. /\ filling /\ Arrives /\ Head(packets).cmd = "end" /\ packets' = Tail(packets)
      /\ received' = Append(received, file) /\ ~filling' /\ file' = << >>
      /\ UNCHANGED <<transmit, rest>>
  BY DEF Returns, InSequence, senderVars
<1>2. /\ Leads(s, Head(packets), t) /\ ReceiverAt(s) /\ WithinFile(s) /\ Pending(s)
      /\ 1 \in 1 .. l /\ 2 \in 1 .. l /\ l \in 2 .. l /\ l \in 1 .. l /\ l \in Nat
      /\ \A i \in 2 .. l : Pending(st[i])
  BY <1>1, FileFirst
<1>3. /\ SenderAt(st[l]) /\ \A i, k \in 1 .. l : Unbroken(st, i, k)
  BY DEF GoesThrough, Staged
<1>4. s.on /\ s.upto = Len(f) /\ ~t.on /\ f \in Files /\ file = SubSeq(f, 1, Len(f)) /\ OnWay(s, f)
  BY <1>1, <1>2 DEF Leads, WithinFile, ReceiverAt, OnWay
<1> HIDE DEF f, l
<1>5. file = f
  BY <1>4, FileCells, SubSeqFull DEF Cells
<1>6. \A i \in 2 .. l : ~OnWay(st[i], f)
  <2> SUFFICES ASSUME NEW i \in 2 .. l, OnWay(st[i], f) PROVE FALSE
    OBVIOUS
  <2>1. i \in 1 .. l /\ 2 \in 1 .. i
    BY <1>2
  <2>2. OnWay(t, f)
    BY <1>2, <1>3, <1>4, <2>1 DEF Unbroken
  <2> QED
    BY <1>4, <2>2 DEF OnWay
<1> HIDE DEF s, t
<1>7. transmit[f] = "over"
  <2>1. transmit[f] # "before"
    BY <1>2, <1>4 DEF Pending
  <2>2. transmit[f] # "on"
    BY <1>2, <1>3, <1>4, <1>6 DEF SenderAt
  <2> QED
    BY <1>4, <2>1, <2>2 DEF FileTypes
<1>8. \A j \in 1 .. m : received[j] # f
  BY <1>2, <1>4 DEF Pending
<1>9. /\ received' \in Seq(Files) /\ Len(received') = m + 1 /\ received'[m + 1] = f /\ m \in Nat
      /\ \A j \in 1 .. m : received'[j] = received[j]
  <2>1. received \in Seq(Files) /\ received' = Append(received, f)
    BY <1>1, <1>5 DEF FileTypes
  <2>2. m \in Nat
    BY <2>1, LenProperties
  <2> QED
    BY <1>4, <2>1, <2>2, AppendProperties
<1>10. \A j \in 1 .. m + 1 : j \in 1 .. m \/ j = m + 1
  BY <1>9
<1>11. FileTypes'
  BY <1>1, <1>9 DEF FileTypes
<1> HIDE DEF m
<1>12. Delivered'
  <2>1. /\ \A j \in 1 .. m : transmit[received[j]] = "over"
        /\ \A j, k \in 1 .. m : received[j] = received[k] => j = k
    BY DEF Delivered, m
  <2>2. ASSUME NEW j \in 1 .. m + 1 PROVE transmit'[received'[j]] = "over"
    BY <1>1, <1>7, <1>9, <1>10, <2>1
  <2>3. ASSUME NEW j \in 1 .. m + 1, NEW k \in 1 .. m + 1, received'[j] = received'[k]
        PROVE  j = k
    <3>1. CASE j \in 1 .. m /\ k \in 1 .. m
      BY <1>9, <2>1, <2>3, <3>1
    <3>2. CASE j = m + 1 \/ k = m + 1
      BY <1>8, <1>9, <1>10, <2>3, <3>2 DEF m
    <3> QED
      BY <1>10, <3>1, <3>2
  <2> QED
    BY <1>9, <2>2, <2>3 DEF Delivered
<1>13. \A i \in 2 .. l : Pending(st[i])'
  <2> SUFFICES ASSUME NEW i \in 2 .. l PROVE Pending(st[i])'
    OBVIOUS
  <2>1. ASSUME NEW g \in Files, OnWay(st[i], g)
        PROVE  transmit'[g] # "before" /\ \A j \in 1 .. m + 1 : received'[j] # g
    <3>1. g # f
      BY <1>6, <2>1
    <3>2. transmit[g] # "before" /\ \A j \in 1 .. m : received[j] # g
      BY <1>2, <2>1 DEF Pending, m
    <3> QED
      BY <1>1, <1>9, <1>10, <3>1, <3>2
  <2> QED
    BY <1>9, <2>1 DEF Pending
<1>14. ReceiverAt(t)'
  BY <1>1 DEF ReceiverAt
<1> QED
  BY <1>1, <1>11, <1>12, <1>13, <1>14, FileTaken DEF Arrives, t, l

LEMMA FileStepInv == FileInv /\ FileNext => FileInv'
<1> SUFFICES ASSUME FileInv, FileNext PROVE FileInv'
  OBVIOUS
<1>1. mixed' \in BOOLEAN /\ (~mixed' => ~mixed)
  BY DEF FileInv, FileNext, SendStart, SendChunk, SendEnd, Transmits, SendStray, Starts, Rejects,
         ReceivesData, Returns, senderVars
<1>2. CASE mixed'
  BY <1>1, <1>2 DEF FileInv
<1>3. CASE ~mixed'
  <2>1. FileTypes /\ Delivered
    BY <1>1, <1>3 DEF FileInv
  <2>2. PICK st : GoesThrough(st)
    BY <1>1, <1>3 DEF FileInv
  <2>3. CASE Starts \/ Rejects \/ ReceivesData
    <3>1. UNCHANGED <<transmit, rest, received>>
      BY <2>3 DEF Starts, Rejects, ReceivesData, senderVars
    <3>2. FileTypes' /\ Delivered'
      BY <2>1, <3>1 DEF FileTypes, Delivered
    <3>3. \E u : GoesThrough(u)'
      BY <2>2, <2>3, FileStarts, FileRejects, FileReceivesData
    <3> QED
      BY <1>1, <3>2, <3>3 DEF FileInv
  <2>4. FileTypes' /\ Delivered' /\ \E u : GoesThrough(u)'
    <3>1. CASE \E f \in Files : SendStart(f) \/ SendChunk(f) \/ SendEnd(f)
      BY <1>3, <2>1, <2>2, <3>1, FileSendStart, FileSendChunk, FileSendEnd
    <3>2. CASE SendStray
      BY <2>1, <2>2, <3>2, FileSendStray
    <3>3. CASE Returns
      BY <2>1, <2>2, <3>3, FileReturns
    <3>4. CASE Starts \/ Rejects \/ ReceivesData
      BY <1>3, <2>3, <3>4 DEF FileInv
    <3> QED
      BY <3>1, <3>2, <3>3, <3>4 DEF FileNext
  <2> QED
    BY <1>1, <2>4 DEF FileInv
<1> QED
  BY <1>2, <1>3

LEMMA FilesAreWhole == FileInv => FilesWhole
<1> SUFFICES ASSUME FileInv, ~mixed PROVE FilesWhole
  BY DEF FilesWhole
<1>1. FileTypes /\ Delivered
  BY DEF FileInv
<1>2. received \in Seq(Files)
  BY <1>1 DEF FileTypes
<1>3. DOMAIN received = 1 .. Len(received) /\ \A j \in 1 .. Len(received) : received[j] \in Files
  BY <1>2, LenProperties, ElementOfSeq
<1> QED
  BY <1>1, <1>3 DEF FilesWhole, Delivered

(* The other codecs leave the connection alone.                            *)
LEMMA FilesApart ==
  PacketStep \/ LineStep \/ FrameStep \/ StrStep \/ UNCHANGED vars => UNCHANGED netVars
BY DEF PacketStep, LineStep, FrameStep, StrStep, vars

LEMMA FileInvStays == FileInv /\ UNCHANGED netVars => FileInv'
<1> SUFFICES ASSUME FileInv, UNCHANGED netVars PROVE FileInv'
  OBVIOUS
<1>1. UNCHANGED <<transmit, rest, packets, mixed, filling, file, expects, received>>
  BY DEF netVars
<1>2. FileTypes => FileTypes'
  BY <1>1 DEF FileTypes
<1>3. Delivered => Delivered'
  BY <1>1 DEF Delivered
<1>4. ASSUME NEW st, GoesThrough(st) PROVE GoesThrough(st)'
  BY <1>1, <1>4 DEF GoesThrough, SenderAt, ReceiverAt, Pending
<1> QED
  BY <1>1, <1>2, <1>3, <1>4 DEF FileInv

(* However many files are sent over a connection, in whatever chunks, with *)
(* whatever other packets in between and whatever receive()s break off, no *)
(* receive() returns a file that was put together from parts of two, and   *)
(* none returns a file twice, as long as one transmit() is over before the *)
(* next begins.                                                            *)
THEOREM FilesNeverTorn == Spec => []FilesWhole
<1>1. Init => FileInv
  BY FileInitInv DEF Init
<1>2. FileInv /\ [Next]_vars => FileInv'
  <2> SUFFICES ASSUME FileInv, [Next]_vars PROVE FileInv'
    OBVIOUS
  <2>1. CASE FileStep
    BY <2>1, FileStepInv DEF FileStep
  <2>2. CASE PacketStep \/ LineStep \/ FrameStep \/ StrStep \/ UNCHANGED vars
    BY <2>2, FilesApart, FileInvStays
  <2> QED
    BY <2>1, <2>2 DEF Next
<1>3. FileInv => FilesWhole
  BY FilesAreWhole
<1> QED
  BY <1>1, <1>2, <1>3, PTL DEF Spec

-----------------------------------------------------------------------------
(* Frames.                                                                 *)

FrameKind == [len : Nat, masked : BOOLEAN]
FrameSeq == Seq(FrameKind)
ByteKind == Nat \X Nat
ByteSeq == Seq(ByteKind)

LEMMA FrameSize ==
  ASSUME NEW f \in FrameKind
  PROVE  /\ f.len \in Nat /\ Header(f.len) \in {2, 4} /\ Behind(f) \in Nat /\ Behind(f) >= 2
         /\ Total(f) \in Nat /\ Total(f) = Behind(f) + f.len /\ Total(f) >= 2
BY DEF FrameKind, Header, Behind, Total

LEMMA BytesOf ==
  ASSUME NEW i \in Nat, NEW f \in FrameKind
  PROVE  /\ Bytes(i, f) \in ByteSeq /\ Len(Bytes(i, f)) = Total(f)
         /\ \A j \in 1 .. Total(f) : Bytes(i, f)[j] = <<i, j>>
<1> DEFINE k == Total(f)
           s == [j \in 1 .. k |-> <<i, j>>]
<1>1. k \in Nat
  BY FrameSize
<1>2. s = Bytes(i, f)
  BY DEF Bytes
<1> HIDE DEF k
<1>3. \A j \in 1 .. k : <<i, j>> \in ByteKind
  BY <1>1 DEF ByteKind
<1>4. s \in [1 .. k -> ByteKind]
  BY <1>3
<1> HIDE DEF s
<1>5. s \in Seq(ByteKind)
  BY <1>1, <1>4
<1>6. Len(s) = k
  BY <1>1, <1>4, <1>5, LenProperties
<1>7. \A j \in 1 .. k : s[j] = <<i, j>>
  BY DEF s
<1> QED
  BY <1>2, <1>5, <1>6, <1>7 DEF k, ByteSeq

LEMMA ByteConcat ==
  ASSUME NEW s \in ByteSeq, NEW t \in ByteSeq
  PROVE  /\ s \o t \in ByteSeq /\ Len(s \o t) = Len(s) + Len(t)
         /\ Len(s) \in Nat /\ Len(t) \in Nat
         /\ \A p \in 1 .. Len(s) : (s \o t)[p] = s[p]
         /\ \A p \in 1 .. Len(t) : (s \o t)[Len(s) + p] = t[p]
<1>1. /\ s \o t \in ByteSeq /\ Len(s \o t) = Len(s) + Len(t)
      /\ \A p \in 1 .. Len(s) + Len(t) :
           (s \o t)[p] = IF p <= Len(s) THEN s[p] ELSE t[p - Len(s)]
  BY ConcatProperties DEF ByteSeq
<1>2. Len(s) \in Nat /\ Len(t) \in Nat
  BY LenProperties DEF ByteSeq
<1> DEFINE m == Len(s)
           k == Len(t)
           u == s \o t
<1>3. /\ m \in Nat /\ k \in Nat
      /\ \A p \in 1 .. m + k : u[p] = IF p <= m THEN s[p] ELSE t[p - m]
  BY <1>1, <1>2
<1> HIDE DEF m, k, u
<1>4. \A p \in 1 .. m : u[p] = s[p]
  BY <1>3
<1>5. \A p \in 1 .. k : u[m + p] = t[p]
  <2> SUFFICES ASSUME NEW p \in 1 .. k PROVE u[m + p] = t[p]
    OBVIOUS
  <2>1. m + p \in 1 .. m + k /\ ~(m + p <= m) /\ m + p - m = p
    BY <1>3
  <2> QED
    BY <1>3, <2>1
<1> QED
  BY <1>1, <1>2, <1>4, <1>5 DEF m, k, u

LEMMA ByteAssociative ==
  ASSUME NEW s \in ByteSeq, NEW t \in ByteSeq, NEW u \in ByteSeq
  PROVE  (s \o t) \o u = s \o (t \o u)
BY ConcatAssociative DEF ByteSeq

(* A sequence of bytes without its first k.                                *)
LEMMA ByteDrop ==
  ASSUME NEW s \in ByteSeq, NEW k \in Nat, k <= Len(s)
  PROVE  /\ SubSeq(s, k + 1, Len(s)) \in ByteSeq
         /\ Len(SubSeq(s, k + 1, Len(s))) = Len(s) - k
         /\ \A p \in 1 .. Len(s) - k : SubSeq(s, k + 1, Len(s))[p] = s[k + p]
         /\ SubSeq(s, 1, k) \in ByteSeq /\ Len(SubSeq(s, 1, k)) = k
         /\ \A p \in 1 .. k : SubSeq(s, 1, k)[p] = s[p]
         /\ s = SubSeq(s, 1, k) \o SubSeq(s, k + 1, Len(s))
<1> DEFINE e == Len(s)
<1>1. e \in Nat /\ SubSeq(s, 1, e) = s
  BY LenProperties, SubSeqFull DEF ByteSeq
<1>2. \A x \in 1 .. e : s[x] \in ByteKind
  BY ElementOfSeq DEF ByteSeq
<1>3. k <= e
  OBVIOUS
<1> HIDE DEF e
<1>4. /\ SubSeq(s, k + 1, e) \in Seq(ByteKind) /\ Len(SubSeq(s, k + 1, e)) = e - k
      /\ \A p \in 1 .. e - k : SubSeq(s, k + 1, e)[p] = s[k + p]
  <2>1. s \in Seq(ByteKind) /\ k <= e /\ e <= Len(s) /\ e \in Nat
    BY <1>1, <1>3 DEF ByteSeq, e
  <2> QED
    BY <2>1, PartOf
<1>5. /\ SubSeq(s, 1, k) \in Seq(ByteKind) /\ Len(SubSeq(s, 1, k)) = k
      /\ \A p \in 1 .. k : SubSeq(s, 1, k)[p] = s[p]
  <2>1. s \in Seq(ByteKind) /\ k <= Len(s)
    BY DEF ByteSeq
  <2> QED
    BY <2>1, FrontOf
<1>6. SubSeq(s, 1, k) \o SubSeq(s, k + 1, e) = SubSeq(s, 1, e)
  <2>1. 1 \in 1 .. Len(s) + 1 /\ k \in 1 - 1 .. Len(s) /\ e \in k .. Len(s)
    BY <1>1, <1>3 DEF e
  <2> QED
    BY <2>1, ConcatAdjacentSubSeq DEF ByteSeq
<1> QED
  BY <1>1, <1>4, <1>5, <1>6 DEF e, ByteSeq

-----------------------------------------------------------------------------
(* Where a byte stands in a sequence of whole frames.                      *)
Placed(s, first, fs, p, i, j) ==
  LET end == p - j + Total(fs[i])
  IN /\ i \in first .. Len(fs) /\ j \in 1 .. Total(fs[i])
     /\ j <= p /\ end <= Len(s)
     /\ \A q \in 1 .. Total(fs[i]) : s[p - j + q] = <<i, q>>
     /\ IF end = Len(s) THEN i = Len(fs) ELSE s[end + 1] = <<i + 1, 1>>

LEMMA BytePlaced ==
  ASSUME NEW s \in ByteSeq, NEW first \in Nat \ {0}, NEW fs \in FrameSeq,
         FromFrame(s, first, fs), NEW p \in 1 .. Len(s), NEW i, NEW j, s[p] = <<i, j>>
  PROVE  /\ Placed(s, first, fs, p, i, j)
         /\ i \in Nat /\ j \in Nat /\ i >= first /\ i <= Len(fs) /\ fs[i] \in FrameKind
<1>1. DOMAIN s = 1 .. Len(s)
  BY LenProperties DEF ByteSeq
<1>2. Placed(s, first, fs, p, s[p][1], s[p][2])
  BY <1>1 DEF FromFrame, Placed
<1>3. Placed(s, first, fs, p, i, j)
  BY <1>2
<1>4. s[p] \in ByteKind
  BY ElementOfSeq DEF ByteSeq
<1>5. i \in Nat /\ j \in Nat
  BY <1>4 DEF ByteKind
<1>6. i \in first .. Len(fs) /\ Len(fs) \in Nat
  BY <1>3, LenProperties DEF Placed, FrameSeq
<1>7. fs[i] \in FrameKind
  BY <1>5, <1>6, ElementOfSeq DEF FrameSeq
<1> QED
  BY <1>3, <1>5, <1>6, <1>7

LEMMA Places ==
  ASSUME NEW s \in ByteSeq, NEW first \in Nat \ {0}, NEW fs \in FrameSeq,
         IF s = << >> THEN first = Len(fs) + 1 ELSE s[1] = <<first, 1>>,
         \A p \in 1 .. Len(s) : \A i, j \in Nat : s[p] = <<i, j>> => Placed(s, first, fs, p, i, j)
  PROVE  FromFrame(s, first, fs)
<1>1. DOMAIN s = 1 .. Len(s)
  BY LenProperties DEF ByteSeq
<1>2. ASSUME NEW p \in DOMAIN s PROVE Placed(s, first, fs, p, s[p][1], s[p][2])
  <2>1. s[p] \in ByteKind
    BY <1>1, ElementOfSeq DEF ByteSeq
  <2>2. s[p][1] \in Nat /\ s[p][2] \in Nat /\ s[p] = <<s[p][1], s[p][2]>>
    BY <2>1 DEF ByteKind
  <2> QED
    BY <1>1, <2>2
<1> QED
  BY <1>2 DEF FromFrame, Placed

LEMMA FirstFrame ==
  ASSUME NEW s \in ByteSeq, NEW first \in Nat \ {0}, NEW fs \in FrameSeq, FromFrame(s, first, fs)
  PROVE  /\ first <= Len(fs) + 1 /\ Len(fs) \in Nat
         /\ s # << >> => /\ first <= Len(fs) /\ Len(s) \in Nat \ {0} /\ s[1] = <<first, 1>>
                         /\ Placed(s, first, fs, 1, first, 1)
<1>1. Len(fs) \in Nat
  BY LenProperties DEF FrameSeq
<1>2. CASE s = << >>
  BY <1>1, <1>2 DEF FromFrame
<1>3. CASE s # << >>
  <2>1. Len(s) \in Nat \ {0}
    BY <1>3, EmptySeq DEF ByteSeq
  <2>2. 1 \in 1 .. Len(s) /\ s[1] = <<first, 1>>
    <3>1. s[1] = <<first, 1>>
      BY <1>3 DEF FromFrame
    <3> QED
      BY <2>1, <3>1
  <2>3. Placed(s, first, fs, 1, first, 1) /\ first <= Len(fs)
    BY <2>2, BytePlaced
  <2> QED
    BY <1>1, <1>3, <2>1, <2>2, <2>3
<1> QED
  BY <1>2, <1>3

(* A frame more, behind the others.                                        *)
LEMMA AddFrame ==
  ASSUME NEW s \in ByteSeq, NEW first \in Nat \ {0}, NEW fs \in FrameSeq, FromFrame(s, first, fs),
         NEW f \in FrameKind
  PROVE  FromFrame(s \o Bytes(Len(fs) + 1, f), first, Append(fs, f))
<1> DEFINE k == Len(fs)
           b == Bytes(k + 1, f)
           t == s \o b
           gs == Append(fs, f)
           m == Len(s)
           T == Total(f)
<1>1. k \in Nat /\ first <= k + 1
  BY FirstFrame
<1>2. b \in ByteSeq /\ Len(b) = T /\ \A j \in 1 .. T : b[j] = <<k + 1, j>>
  BY <1>1, BytesOf
<1>3. T \in Nat /\ T >= 2
  BY FrameSize
<1>4. /\ t \in ByteSeq /\ Len(t) = m + T /\ m \in Nat
      /\ \A p \in 1 .. m : t[p] = s[p]
      /\ \A p \in 1 .. T : t[m + p] = <<k + 1, p>>
  <2> HIDE DEF b
  <2>1. /\ t \in ByteSeq /\ Len(t) = m + Len(b) /\ m \in Nat
        /\ \A p \in 1 .. m : t[p] = s[p]
        /\ \A p \in 1 .. Len(b) : t[m + p] = b[p]
    BY <1>2, ByteConcat
  <2> QED
    BY <1>2, <2>1
<1>5. gs \in FrameSeq /\ Len(gs) = k + 1 /\ gs[k + 1] = f /\ \A i \in 1 .. k : gs[i] = fs[i]
  BY <1>1, AppendProperties DEF FrameSeq
<1>6. ASSUME NEW p \in 1 .. m + T, NEW i \in Nat, NEW j \in Nat, t[p] = <<i, j>>
      PROVE  Placed(t, first, gs, p, i, j)
  <2> HIDE DEF k, t, gs, m, T
  <2>1. CASE p \in 1 .. m
    <3>1. s[p] = <<i, j>>
      BY <1>4, <1>6, <2>1
    <3>2. /\ Placed(s, first, fs, p, i, j)
          /\ i \in Nat /\ j \in Nat /\ i >= first /\ i <= k /\ fs[i] \in FrameKind
      BY <2>1, <3>1, BytePlaced DEF k, m
    <3> DEFINE u == Total(fs[i])
               end == p - j + u
    <3>3. /\ j \in 1 .. u /\ j <= p /\ end <= m
          /\ \A q \in 1 .. u : s[p - j + q] = <<i, q>>
          /\ IF end = m THEN i = k ELSE s[end + 1] = <<i + 1, 1>>
      BY <3>2 DEF Placed, k, m
    <3>4. u \in Nat /\ i \in 1 .. k /\ gs[i] = fs[i]
      BY <3>2, <1>5, FrameSize
    <3>5. \A q \in 1 .. u : p - j + q \in 1 .. m
      BY <1>3, <1>4, <2>1, <3>2, <3>3, <3>4
    <3>6. \A q \in 1 .. u : t[p - j + q] = <<i, q>>
      BY <1>4, <3>3, <3>5
    <3>7. end <= m + T /\ end # m + T /\ end \in Nat
      BY <1>3, <1>4, <2>1, <3>2, <3>3, <3>4
    <3>8. t[end + 1] = <<i + 1, 1>>
      <4>1. CASE end = m
        <5>1. i = k /\ 1 \in 1 .. T /\ end + 1 = m + 1
          BY <1>3, <3>3, <4>1
        <5> QED
          BY <1>4, <5>1
      <4>2. CASE end # m
        <5>1. end + 1 \in 1 .. m
          BY <1>4, <3>3, <3>7, <4>2
        <5> QED
          BY <1>4, <3>3, <4>2, <5>1
      <4> QED
        BY <4>1, <4>2
    <3>9. Total(gs[i]) = u
      BY <3>4
    <3>10. i \in first .. Len(gs)
      BY <1>1, <1>5, <3>2
    <3> HIDE DEF u
    <3> QED
      BY <1>4, <3>3, <3>6, <3>7, <3>8, <3>9, <3>10 DEF Placed
  <2>2. CASE p \notin 1 .. m
    <3>1. p - m \in 1 .. T /\ p = m + (p - m)
      BY <1>3, <1>4, <2>2
    <3>2. i = k + 1 /\ j = p - m
      BY <1>4, <1>6, <3>1
    <3>3. Total(gs[i]) = T /\ p - j = m /\ m + T = Len(t) /\ j <= p /\ p - j + T = Len(t)
      BY <1>3, <1>4, <1>5, <3>1, <3>2 DEF T
    <3>4. i \in first .. Len(gs) /\ i = Len(gs)
      BY <1>1, <1>5, <3>2
    <3>5. \A q \in 1 .. T : t[p - j + q] = <<i, q>>
      BY <1>4, <3>2, <3>3
    <3>6. j \in 1 .. T /\ Len(t) <= Len(t)
      BY <1>3, <1>4, <3>1, <3>2
    <3> QED
      BY <3>3, <3>4, <3>5, <3>6 DEF Placed
  <2> QED
    BY <2>1, <2>2
<1>7. IF t = << >> THEN first = Len(gs) + 1 ELSE t[1] = <<first, 1>>
  <2>1. t # << >>
    BY <1>3, <1>4, EmptySeq
  <2>2. CASE s = << >>
    <3>1. m = 0 /\ first = k + 1
      BY <2>2, EmptySeq DEF FromFrame
    <3>2. 1 \in 1 .. T /\ m + 1 = 1
      BY <1>3, <3>1
    <3> HIDE DEF m, t, T, k
    <3>3. t[m + 1] = <<k + 1, 1>>
      BY <1>4, <3>2
    <3> QED
      BY <2>1, <3>1, <3>2, <3>3
  <2>3. CASE s # << >>
    <3>1. 1 \in 1 .. m /\ s[1] = <<first, 1>>
      BY <2>3, FirstFrame
    <3> HIDE DEF m, t
    <3> QED
      BY <1>4, <2>1, <3>1
  <2> QED
    BY <2>2, <2>3
<1> HIDE DEF t, gs
<1>8. \A p \in 1 .. Len(t) : \A i, j \in Nat : t[p] = <<i, j>> => Placed(t, first, gs, p, i, j)
  BY <1>4, <1>6
<1>9. FromFrame(t, first, gs)
  BY <1>4, <1>5, <1>7, <1>8, Places
<1> QED
  BY <1>9 DEF t, gs

(* The first frame taken off the front.                                    *)
LEMMA DropFrame ==
  ASSUME NEW s \in ByteSeq, NEW first \in Nat \ {0}, NEW fs \in FrameSeq,
         FromFrame(s, first, fs), s # << >>
  PROVE  /\ fs[first] \in FrameKind /\ Total(fs[first]) <= Len(s)
         /\ \A q \in 1 .. Total(fs[first]) : s[q] = <<first, q>>
         /\ FromFrame(SubSeq(s, Total(fs[first]) + 1, Len(s)), first + 1, fs)
<1> DEFINE T == Total(fs[first])
           m == Len(s)
           k == Len(fs)
           t == SubSeq(s, T + 1, m)
<1>1. /\ k \in Nat /\ first \in 1 .. k /\ m \in Nat \ {0} /\ s[1] = <<first, 1>>
      /\ Placed(s, first, fs, 1, first, 1)
  BY FirstFrame
<1>2. fs[first] \in FrameKind
  BY <1>1, ElementOfSeq DEF FrameSeq
<1>3. T \in Nat /\ T >= 2
  BY <1>2, FrameSize
<1>4. /\ T <= m /\ \A q \in 1 .. T : s[q] = <<first, q>>
      /\ IF T = m THEN first = k ELSE s[T + 1] = <<first + 1, 1>>
  <2>1. /\ 1 - 1 + T <= m /\ \A q \in 1 .. T : s[1 - 1 + q] = <<first, q>>
        /\ IF 1 - 1 + T = m THEN first = k ELSE s[1 - 1 + T + 1] = <<first + 1, 1>>
    BY <1>1 DEF Placed
  <2> HIDE DEF T, m, k
  <2>2. 1 - 1 + T = T /\ \A q \in 1 .. T : 1 - 1 + q = q
    BY <1>3
  <2> QED
    BY <2>1, <2>2
<1>5. t \in ByteSeq /\ Len(t) = m - T /\ \A p \in 1 .. m - T : t[p] = s[T + p]
  <2> HIDE DEF T
  <2> QED
    BY <1>3, <1>4, ByteDrop
<1>6. ASSUME NEW p \in 1 .. m - T, NEW i \in Nat, NEW j \in Nat, t[p] = <<i, j>>
      PROVE  Placed(t, first + 1, fs, p, i, j)
  <2> HIDE DEF T, m, k, t
  <2>1. T + p \in 1 .. m /\ s[T + p] = <<i, j>>
    BY <1>1, <1>3, <1>4, <1>5, <1>6
  <2>2. Placed(s, first, fs, T + p, i, j) /\ i >= first /\ i <= k /\ fs[i] \in FrameKind
    BY <2>1, BytePlaced DEF m, k
  <2> DEFINE u == Total(fs[i])
             start == T + p - j
  <2>3. /\ j \in 1 .. u /\ j <= T + p /\ start + u <= m
        /\ \A q \in 1 .. u : s[start + q] = <<i, q>>
        /\ IF start + u = m THEN i = k ELSE s[start + u + 1] = <<i + 1, 1>>
    <3> DEFINE x == T + p
    <3>1. Placed(s, first, fs, x, i, j)
      BY <2>2
    <3> HIDE DEF x
    <3>2. /\ j \in 1 .. u /\ j <= x /\ x - j + u <= m
          /\ \A q \in 1 .. u : s[x - j + q] = <<i, q>>
          /\ IF x - j + u = m THEN i = k ELSE s[x - j + u + 1] = <<i + 1, 1>>
      BY <3>1 DEF Placed, m, k
    <3>3. start = x - j /\ x = T + p
      BY <1>1, <1>3 DEF x
    <3> HIDE DEF u, start
    <3> QED
      BY <3>2, <3>3
  <2>4. u \in Nat /\ start \in Nat
    BY <1>3, <2>2, <2>3, FrameSize
  <2> HIDE DEF u
  <2>5. start >= T
    <3> SUFFICES ASSUME start < T PROVE FALSE
      BY <1>3, <2>4
    <3>1. T - start \in 1 .. u /\ start + (T - start) = T
      BY <1>3, <2>3, <2>4
    <3>2. s[T] = <<i, T - start>>
      <4> HIDE DEF start
      <4> QED
        BY <2>3, <3>1
    <3>3. s[T] = <<first, T>>
      BY <1>3, <1>4
    <3>4. i = first /\ start = 0
      BY <1>3, <2>4, <3>2, <3>3
    <3>5. j = T + p /\ u = T
      BY <1>3, <2>4, <3>4 DEF u, T
    <3> QED
      BY <1>3, <2>3, <3>5
  <2>6. i # first
    <3> SUFFICES ASSUME i = first PROVE FALSE
      OBVIOUS
    <3>1. start \in 1 .. m /\ 1 \in 1 .. u /\ s[start + 1] = <<first, 1>>
      BY <1>3, <1>1, <2>1, <2>3, <2>4, <2>5
    <3>2. s[start] \in ByteKind
      BY <3>1, ElementOfSeq DEF ByteSeq, m
    <3>3. PICK a \in Nat, b \in Nat : s[start] = <<a, b>>
      BY <3>2 DEF ByteKind
    <3>4. Placed(s, first, fs, start, a, b) /\ a >= first /\ fs[a] \in FrameKind
      <4> HIDE DEF start
      <4> QED
        BY <3>1, <3>3, BytePlaced DEF m
    <3> DEFINE v == Total(fs[a])
    <3>5. /\ b \in 1 .. v /\ \A q \in 1 .. v : s[start - b + q] = <<a, q>>
          /\ IF start - b + v = m THEN a = k ELSE s[start - b + v + 1] = <<a + 1, 1>>
          /\ start - b + v <= m
      BY <3>4 DEF Placed, m, k
    <3>6. v \in Nat
      BY <3>4, FrameSize
    <3> HIDE DEF v
    <3>7. CASE b < v
      <4>1. b + 1 \in 1 .. v /\ start - b + (b + 1) = start + 1
        BY <2>4, <3>5, <3>6, <3>7
      <4>2. s[start - b + (b + 1)] = <<a, b + 1>>
        BY <3>5, <4>1
      <4>3. b + 1 = 1
        <5> HIDE DEF start
        <5> QED
          BY <3>1, <4>1, <4>2
      <4> QED
        BY <3>5, <3>6, <4>3
    <3>8. CASE ~(b < v)
      <4>1. b = v /\ start - b + v = start
        BY <2>4, <3>5, <3>6, <3>8
      <4>2. start # m
        BY <1>1, <2>3, <2>4
      <4>3. s[start + 1] = <<a + 1, 1>>
        <5> HIDE DEF start
        <5> QED
          BY <3>5, <4>1, <4>2
      <4>4. a + 1 = first
        <5> HIDE DEF start
        <5> QED
          BY <3>1, <4>3
      <4> QED
        BY <3>4, <4>4
    <3> QED
      BY <3>7, <3>8
  <2>7. j <= p /\ p - j \in Nat /\ start = T + (p - j)
    BY <1>3, <2>4, <2>5
  <2> DEFINE end == p - j + u
  <2>8. end <= m - T /\ end \in Nat /\ T + end = start + u
    BY <1>3, <1>1, <2>3, <2>4, <2>7
  <2>9. \A q \in 1 .. u : t[p - j + q] = <<i, q>>
    <3> SUFFICES ASSUME NEW q \in 1 .. u PROVE t[p - j + q] = <<i, q>>
      OBVIOUS
    <3>1. p - j + q \in 1 .. m - T /\ T + (p - j + q) = start + q
      BY <1>1, <1>3, <2>4, <2>7, <2>8
    <3> QED
      BY <1>5, <2>3, <3>1
  <2>10. IF end = m - T THEN i = k ELSE t[end + 1] = <<i + 1, 1>>
    <3>1. CASE end = m - T
      <4>1. start + u = m
        BY <1>1, <1>3, <2>8, <3>1
      <4> QED
        BY <2>3, <3>1, <4>1
    <3>2. CASE end # m - T
      <4>1. start + u # m /\ end + 1 \in 1 .. m - T /\ T + (end + 1) = start + u + 1
        BY <1>1, <1>3, <2>4, <2>8, <3>2
      <4> QED
        BY <1>5, <2>3, <3>2, <4>1
    <3> QED
      BY <3>1, <3>2
  <2>11. i \in first + 1 .. Len(fs)
    BY <1>1, <2>2, <2>6 DEF k
  <2> QED
    BY <1>5, <2>3, <2>7, <2>8, <2>9, <2>10, <2>11 DEF Placed, u, k
<1>7. IF t = << >> THEN first + 1 = Len(fs) + 1 ELSE t[1] = <<first + 1, 1>>
  <2>1. CASE T = m
    <3>1. Len(t) = 0
      BY <1>1, <1>5, <2>1
    <3>2. t = << >>
      BY <1>5, <3>1, EmptySeq DEF ByteSeq
    <3> QED
      BY <1>4, <2>1, <3>2
  <2>2. CASE T # m
    <3> HIDE DEF T, m, k, t
    <3>1. 1 \in 1 .. m - T /\ Len(t) # 0
      BY <1>1, <1>3, <1>4, <1>5, <2>2
    <3>2. t # << >> /\ t[1] = s[T + 1]
      BY <1>5, <3>1, EmptySeq
    <3> QED
      BY <1>4, <2>2, <3>2
  <2> QED
    BY <2>1, <2>2
<1> HIDE DEF t
<1>8. \A p \in 1 .. Len(t) : \A i, j \in Nat :
        t[p] = <<i, j>> => Placed(t, first + 1, fs, p, i, j)
  BY <1>5, <1>6
<1>9. first + 1 \in Nat \ {0}
  BY <1>1
<1>10. FromFrame(t, first + 1, fs)
  BY <1>5, <1>7, <1>8, <1>9, Places
<1> QED
  BY <1>2, <1>4, <1>10 DEF t

-----------------------------------------------------------------------------
SentAs(ls) == [i \in DOMAIN ls |-> Frame(ls[i], FALSE)]

StringsInv ==
  /\ strings \in Seq(Nat) /\ heard \in ByteSeq /\ outBuf \in ByteSeq
  /\ FromFrame(heard \o outBuf, 1, SentAs(strings))

FramesInv ==
  ~wrapped =>
    /\ frames \in FrameSeq /\ inBuf \in ByteSeq /\ inAir \in ByteSeq /\ handed \in Seq(ByteSeq)
    /\ \A i \in 1 .. Len(handed) :
         /\ Len(handed[i]) = frames[i].len
         /\ frames[i].masked =>
              handed[i] = SubSeq(Bytes(i, frames[i]), Behind(frames[i]) + 1, Total(frames[i]))
    /\ FromFrame(inBuf \o inAir, Len(handed) + 1, frames)

FrameInv == StringsInv /\ FramesInv

LEMMA NoFrame ==
  ASSUME NEW first \in Nat \ {0}, NEW fs \in FrameSeq, Len(fs) = first - 1
  PROVE  FromFrame(<< >>, first, fs)
<1>1. << >> \in ByteSeq /\ Len(<< >>) = 0 /\ first = Len(fs) + 1
  BY EmptySeq DEF ByteSeq
<1>2. \A p \in 1 .. Len(<< >>) : FALSE
  BY <1>1
<1> QED
  BY <1>1, <1>2, Places

LEMMA SentAsFrames ==
  ASSUME NEW ls \in Seq(Nat)
  PROVE  SentAs(ls) \in FrameSeq /\ Len(SentAs(ls)) = Len(ls)
<1> DEFINE k == Len(ls)
           fs == [i \in 1 .. k |-> Frame(ls[i], FALSE)]
<1>1. k \in Nat /\ DOMAIN ls = 1 .. k /\ \A i \in 1 .. k : ls[i] \in Nat
  BY LenProperties, ElementOfSeq
<1>2. SentAs(ls) = fs
  BY <1>1 DEF SentAs
<1> HIDE DEF k
<1>3. \A i \in 1 .. k : Frame(ls[i], FALSE) \in FrameKind
  BY <1>1 DEF Frame, FrameKind
<1>4. fs \in [1 .. k -> FrameKind]
  BY <1>3
<1> HIDE DEF fs
<1>5. fs \in Seq(FrameKind)
  BY <1>1, <1>4
<1>6. Len(fs) = k
  BY <1>1, <1>4, <1>5, LenProperties
<1> QED
  BY <1>2, <1>5, <1>6 DEF k, FrameSeq

LEMMA SentAsAppend ==
  ASSUME NEW ls \in Seq(Nat), NEW l \in Nat
  PROVE  /\ Append(ls, l) \in Seq(Nat) /\ Len(Append(ls, l)) = Len(ls) + 1
         /\ Append(ls, l)[Len(ls) + 1] = l
         /\ SentAs(Append(ls, l)) = Append(SentAs(ls), Frame(l, FALSE))
<1> DEFINE k == Len(ls)
           ms == Append(ls, l)
           f == Frame(l, FALSE)
           fs == Append(SentAs(ls), f)
<1>1. /\ k \in Nat /\ DOMAIN ls = 1 .. k
      /\ ms \in Seq(Nat) /\ Len(ms) = k + 1 /\ ms[k + 1] = l
      /\ \A i \in 1 .. k : ms[i] = ls[i]
  BY LenProperties, AppendProperties
<1>2. SentAs(ls) \in FrameSeq /\ Len(SentAs(ls)) = k /\ SentAs(ms) \in FrameSeq /\ Len(SentAs(ms)) = k + 1
  BY <1>1, SentAsFrames
<1>3. f \in FrameKind
  BY DEF Frame, FrameKind
<1>4. /\ fs \in FrameSeq /\ Len(fs) = k + 1 /\ fs[k + 1] = f
      /\ \A i \in 1 .. k : fs[i] = SentAs(ls)[i]
  <2> DEFINE gs == SentAs(ls)
  <2>1. gs \in Seq(FrameKind) /\ Len(gs) = k /\ f \in FrameKind /\ k \in Nat
    BY <1>1, <1>2, <1>3 DEF FrameSeq
  <2> HIDE DEF gs, f, k
  <2>2. /\ Append(gs, f) \in Seq(FrameKind) /\ Len(Append(gs, f)) = Len(gs) + 1
        /\ \A i \in 1 .. Len(gs) : Append(gs, f)[i] = gs[i]
        /\ Append(gs, f)[Len(gs) + 1] = f
    BY <2>1, AppendProperties
  <2> QED
    BY <2>1, <2>2 DEF gs, FrameSeq
<1>5. DOMAIN ms = 1 .. k + 1
  BY <1>1, LenProperties
<1> HIDE DEF k, ms, f
<1>6. ASSUME NEW i \in 1 .. k + 1 PROVE SentAs(ms)[i] = fs[i]
  <2>1. SentAs(ms)[i] = Frame(ms[i], FALSE)
    BY <1>5 DEF SentAs
  <2>2. CASE i \in 1 .. k
    <3>1. SentAs(ls)[i] = Frame(ls[i], FALSE)
      BY <1>1, <2>2 DEF SentAs
    <3> QED
      BY <1>1, <1>4, <2>1, <2>2, <3>1
  <2>3. CASE i \notin 1 .. k
    <3>1. i = k + 1
      BY <1>1, <2>3
    <3> QED
      BY <1>1, <1>4, <2>1, <3>1 DEF f
  <2> QED
    BY <2>2, <2>3
<1> DEFINE gs == SentAs(ms)
<1> HIDE DEF gs, fs
<1>7. gs = fs
  BY <1>2, <1>4, <1>6, SeqEqual DEF FrameSeq, gs
<1> QED
  BY <1>1, <1>7 DEF k, ms, f, fs, gs

LEMMA FrameInitInv == FrameInit => FrameInv
<1> SUFFICES ASSUME FrameInit PROVE FrameInv
  OBVIOUS
<1>1. /\ << >> \in ByteSeq /\ << >> \in FrameSeq /\ << >> \in Seq(Nat) /\ << >> \in Seq(ByteSeq)
      /\ Len(<< >>) = 0
  BY EmptySeq DEF ByteSeq, FrameSeq
<1>2. << >> \o << >> = << >>
  BY <1>1, ConcatEmptySeq DEF ByteSeq
<1>3. SentAs(<< >>) \in FrameSeq /\ Len(SentAs(<< >>)) = 0
  BY <1>1, SentAsFrames
<1>4. FromFrame(<< >>, 1, SentAs(<< >>)) /\ FromFrame(<< >>, 1, << >>)
  BY <1>1, <1>3, NoFrame
<1>5. 0 + 1 = 1 /\ \A i \in 1 .. 0 : FALSE
  OBVIOUS
<1> QED
  BY <1>1, <1>2, <1>4, <1>5 DEF FrameInit, FrameInv, StringsInv, FramesInv

(* addPacketBuffer() puts a frame behind what is buffered.                 *)
LEMMA AddedFrame ==
  ASSUME StringsInv, NEW l \in Nat, strings' = Append(strings, l)
  PROVE  /\ Added \in ByteSeq /\ Len(Added) = Total(Frame(l, FALSE))
         /\ strings' \in Seq(Nat)
         /\ FromFrame(heard \o (outBuf \o Added), 1, SentAs(strings'))
<1> DEFINE f == Frame(l, FALSE)
           b == Bytes(Len(strings) + 1, f)
<1>1. f \in FrameKind
  BY DEF Frame, FrameKind
<1>2. Len(strings) \in Nat
  BY LenProperties DEF StringsInv
<1>3. Added = b
  BY SentAsAppend DEF Added, StringsInv
<1>4. b \in ByteSeq /\ Len(b) = Total(f)
  <2>1. Len(strings) + 1 \in Nat
    BY <1>2
  <2> QED
    BY <1>1, <2>1, BytesOf
<1>5. SentAs(strings) \in FrameSeq /\ Len(SentAs(strings)) = Len(strings)
  BY SentAsFrames DEF StringsInv
<1>6. /\ strings' \in Seq(Nat) /\ SentAs(strings') = Append(SentAs(strings), f)
  BY SentAsAppend DEF StringsInv
<1>7. heard \o outBuf \in ByteSeq
  BY ByteConcat DEF StringsInv
<1>8. FromFrame((heard \o outBuf) \o Bytes(Len(SentAs(strings)) + 1, f), 1, Append(SentAs(strings), f))
  <2> DEFINE s == heard \o outBuf
             fs == SentAs(strings)
  <2>1. s \in ByteSeq /\ fs \in FrameSeq /\ 1 \in Nat \ {0} /\ FromFrame(s, 1, fs)
    BY <1>5, <1>7 DEF StringsInv
  <2> HIDE DEF s, fs
  <2>2. FromFrame(s \o Bytes(Len(fs) + 1, f), 1, Append(fs, f))
    BY <1>1, <2>1, AddFrame
  <2> QED
    BY <2>2 DEF s, fs
<1>9. (heard \o outBuf) \o b = heard \o (outBuf \o b)
  <2> HIDE DEF b
  <2> QED
    BY <1>4, ByteAssociative DEF StringsInv
<1>10. FromFrame(heard \o (outBuf \o b), 1, SentAs(strings'))
  BY <1>5, <1>6, <1>8, <1>9
<1> QED
  BY <1>3, <1>4, <1>6, <1>10

(* sendBuffer() leaves what send() did not take.                           *)
LEMMA SentPart ==
  ASSUME NEW h \in ByteSeq, NEW o \in ByteSeq, NEW k \in 0 .. Len(o)
  PROVE  /\ h \o SubSeq(o, 1, k) \in ByteSeq /\ SubSeq(o, k + 1, Len(o)) \in ByteSeq
         /\ (h \o SubSeq(o, 1, k)) \o SubSeq(o, k + 1, Len(o)) = h \o o
<1> DEFINE a == SubSeq(o, 1, k)
           b == SubSeq(o, k + 1, Len(o))
<1>1. Len(o) \in Nat
  BY LenProperties DEF ByteSeq
<1>2. a \in ByteSeq /\ b \in ByteSeq /\ o = a \o b
  <2>1. k \in Nat /\ k <= Len(o)
    BY <1>1
  <2> QED
    BY <2>1, ByteDrop
<1> HIDE DEF a, b
<1>3. h \o a \in ByteSeq
  BY <1>2, ByteConcat
<1>4. (h \o a) \o b = h \o (a \o b)
  BY <1>2, ByteAssociative
<1> QED
  BY <1>2, <1>3, <1>4 DEF a, b

LEMMA StringStepInv ==
  ASSUME StringsInv, StringNext
  PROVE  StringsInv'
<1>0. strings \in Seq(Nat) /\ heard \in ByteSeq /\ outBuf \in ByteSeq /\ Len(outBuf) \in Nat
  BY LenProperties DEF StringsInv, ByteSeq
<1>1. ASSUME NEW l \in Lengths, AddPacketBuffer(l) PROVE StringsInv'
  <2>1. l \in Nat /\ strings' = Append(strings, l) /\ outBuf' = outBuf \o Added /\ heard' = heard
    BY <1>1, WebSocketConstants DEF AddPacketBuffer
  <2>2. /\ Added \in ByteSeq /\ strings' \in Seq(Nat)
        /\ FromFrame(heard \o (outBuf \o Added), 1, SentAs(strings'))
    BY <2>1, AddedFrame
  <2>3. outBuf' \in ByteSeq
    BY <1>0, <2>1, <2>2, ByteConcat
  <2> QED
    BY <1>0, <2>1, <2>2, <2>3 DEF StringsInv
<1>2. CASE SendBuffer
  <2>1. PICK k \in 0 .. Len(outBuf) : /\ heard' = heard \o SubSeq(outBuf, 1, k)
                                      /\ outBuf' = SubSeq(outBuf, k + 1, Len(outBuf))
    BY <1>2 DEF SendBuffer
  <2>2. heard' \in ByteSeq /\ outBuf' \in ByteSeq /\ heard' \o outBuf' = heard \o outBuf
    BY <1>0, <2>1, SentPart
  <2>3. strings' = strings
    BY <1>2 DEF SendBuffer
  <2> QED
    BY <1>0, <2>2, <2>3 DEF StringsInv
<1>3. CASE ControlFrame
  <2>1. strings' = Append(strings, 0)
    BY <1>3 DEF ControlFrame
  <2>2. /\ Added \in ByteSeq /\ strings' \in Seq(Nat) /\ Len(Added) = Total(Frame(0, FALSE))
        /\ FromFrame(heard \o (outBuf \o Added), 1, SentAs(strings'))
    BY <2>1, AddedFrame
  <2>3. Total(Frame(0, FALSE)) = 2
    BY WebSocketConstants DEF Frame, Total, Behind, Header
  <2> DEFINE o == outBuf \o Added
  <2>4. o \in ByteSeq /\ Len(o) = Len(outBuf) + 2
    <3> DEFINE a == Added
    <3>1. a \in ByteSeq /\ Len(a) = 2
      BY <2>2, <2>3
    <3> HIDE DEF a
    <3>2. outBuf \o a \in ByteSeq /\ Len(outBuf \o a) = Len(outBuf) + Len(a)
      BY <1>0, <3>1, ByteConcat
    <3> QED
      BY <3>1, <3>2 DEF a
  <2>5. PICK k \in 0 .. Len(outBuf) + 2 :
          heard' = heard \o SubSeq(o, 1, k) /\ outBuf' = SubSeq(o, k + 1, Len(outBuf) + 2)
    BY <1>3 DEF ControlFrame
  <2> HIDE DEF o
  <2>6. heard' \in ByteSeq /\ outBuf' \in ByteSeq /\ heard' \o outBuf' = heard \o o
    <3>1. /\ k \in 0 .. Len(o)
          /\ heard' = heard \o SubSeq(o, 1, k) /\ outBuf' = SubSeq(o, k + 1, Len(o))
      BY <2>4, <2>5
    <3> QED
      BY <1>0, <2>4, <3>1, SentPart
  <2> QED
    BY <2>2, <2>6 DEF StringsInv, o
<1> QED
  BY <1>1, <1>2, <1>3 DEF StringNext

(* The frame that is first in the buffer when its size does not wrap.      *)
LEMMA ExtractsFrame ==
  ASSUME FramesInv, Extract, ~wrapped'
  PROVE  FramesInv'
<1>1. /\ ~wrapped /\ InStep /\ Len(inBuf) >= ExpectedBytesIn(This)
      /\ handed' = Append(handed, Payload(This))
      /\ inBuf' = SubSeq(inBuf, ExpectedBytesIn(This) + 1, Len(inBuf))
      /\ wrapped' = (Total(This) >= Unsigned)
      /\ frames' = frames /\ inAir' = inAir
  BY DEF Extract
<1> DEFINE i == Len(handed) + 1
           s == inBuf \o inAir
           f == frames[i]
           T == Total(f)
<1>2. /\ frames \in FrameSeq /\ inBuf \in ByteSeq /\ inAir \in ByteSeq /\ handed \in Seq(ByteSeq)
      /\ FromFrame(s, i, frames)
      /\ \A x \in 1 .. Len(handed) :
           /\ Len(handed[x]) = frames[x].len
           /\ frames[x].masked =>
                handed[x] = SubSeq(Bytes(x, frames[x]), Behind(frames[x]) + 1, Total(frames[x]))
  BY <1>1 DEF FramesInv
<1>3. Len(handed) \in Nat /\ i \in Nat \ {0}
  BY <1>2, LenProperties
<1>4. inBuf # << >> /\ Len(inBuf) \in Nat \ {0}
  BY <1>1, <1>2, EmptySeq DEF InStep, ByteSeq
<1>5. /\ s \in ByteSeq /\ Len(s) = Len(inBuf) + Len(inAir) /\ Len(inAir) \in Nat
      /\ \A p \in 1 .. Len(inBuf) : s[p] = inBuf[p]
  BY <1>2, ByteConcat
<1> HIDE DEF i, s, f, T
<1>6. s # << >>
  BY <1>4, <1>5, EmptySeq
<1>7. /\ f \in FrameKind /\ T <= Len(s) /\ \A q \in 1 .. T : s[q] = <<i, q>>
      /\ FromFrame(SubSeq(s, T + 1, Len(s)), i + 1, frames)
  BY <1>2, <1>3, <1>5, <1>6, DropFrame DEF f, T
<1>8. s[1] = <<i, 1>>
  BY <1>2, <1>3, <1>5, <1>6, FirstFrame
<1>9. This = f
  <2>1. inBuf[1] = <<i, 1>>
    BY <1>4, <1>5, <1>8
  <2> QED
    BY <2>1 DEF This, f
<1>10. T \in Nat /\ T = Behind(f) + f.len /\ Behind(f) \in Nat /\ f.len \in Nat
  BY <1>7, FrameSize DEF T
<1>11. ExpectedBytesIn(This) = T
  <2>1. T < Unsigned /\ Unsigned \in Nat
    <3>1. ~(Total(This) >= Unsigned)
      BY <1>1
    <3>2. Total(This) = T
      BY <1>9 DEF T
    <3> QED
      BY <1>10, <3>1, <3>2, WebSocketConstants
  <2>2. T % Unsigned = T
    BY <1>10, <2>1
  <2> QED
    BY <1>9, <2>2 DEF ExpectedBytesIn, T
<1>12. T <= Len(inBuf)
  BY <1>1, <1>4, <1>10, <1>11
<1> DEFINE behind == SubSeq(inBuf, T + 1, Len(inBuf))
<1>13. inBuf' = behind
  BY <1>1, <1>11
<1>14. behind \in ByteSeq /\ behind \o inAir = SubSeq(s, T + 1, Len(s))
  <2> DEFINE m == Len(inBuf)
             k == Len(inAir)
             u == behind \o inAir
             v == SubSeq(s, T + 1, Len(s))
  <2>1. m \in Nat /\ k \in Nat /\ T <= m /\ Len(s) = m + k
    BY <1>4, <1>5, <1>12
  <2>2. behind \in ByteSeq /\ Len(behind) = m - T /\ \A p \in 1 .. m - T : behind[p] = inBuf[T + p]
    BY <1>2, <1>10, <1>12, ByteDrop
  <2> HIDE DEF behind
  <2>3. /\ u \in ByteSeq /\ Len(u) = m - T + k
        /\ \A p \in 1 .. m - T : u[p] = behind[p]
        /\ \A p \in 1 .. k : u[m - T + p] = inAir[p]
    <3>1. /\ u \in ByteSeq /\ Len(u) = Len(behind) + k
          /\ \A p \in 1 .. Len(behind) : u[p] = behind[p]
          /\ \A p \in 1 .. k : u[Len(behind) + p] = inAir[p]
      BY <1>2, <2>2, ByteConcat
    <3> QED
      BY <2>2, <3>1
  <2>4. v \in ByteSeq /\ Len(v) = Len(s) - T /\ \A p \in 1 .. Len(s) - T : v[p] = s[T + p]
    BY <1>5, <1>7, <1>10, ByteDrop
  <2>5. \A p \in 1 .. k : s[m + p] = inAir[p]
    BY <1>2, ByteConcat DEF s
  <2>0. T \in Nat /\ m \in Nat /\ k \in Nat /\ T <= m
    BY <1>10, <2>1
  <2> HIDE DEF m, k, u, v
  <2>6. ASSUME NEW p \in 1 .. m - T + k PROVE u[p] = v[p]
    <3>1. v[p] = s[T + p]
      BY <1>10, <2>1, <2>4
    <3>2. CASE p \in 1 .. m - T
      <4>1. T + p \in 1 .. m
        BY <2>0, <3>2
      <4>2. s[T + p] = inBuf[T + p]
        BY <1>5, <4>1 DEF m
      <4> QED
        BY <2>2, <2>3, <3>1, <3>2, <4>2
    <3>3. CASE p \notin 1 .. m - T
      <4> DEFINE q == p - (m - T)
      <4>1. q \in 1 .. k /\ p = m - T + q /\ T + p = m + q
        BY <2>0, <3>3
      <4> HIDE DEF q
      <4>2. u[p] = inAir[q] /\ s[T + p] = inAir[q]
        BY <2>3, <2>5, <4>1
      <4> QED
        BY <3>1, <4>2
    <3> QED
      BY <3>2, <3>3
  <2>7. Len(v) = Len(u)
    BY <1>10, <2>1, <2>3, <2>4
  <2>8. u = v
    BY <2>3, <2>4, <2>6, <2>7, SeqEqual DEF ByteSeq
  <2> QED
    BY <2>2, <2>8 DEF u, v
<1> DEFINE pay == Payload(f)
<1>15. pay \in ByteSeq /\ Len(pay) = f.len
  <2> DEFINE l == f.len
             g == [j \in 1 .. l |-> IF f.masked /\ Behind(f) + j <= Len(inBuf)
                                      THEN inBuf[Behind(f) + j] ELSE Unknown]
  <2>1. pay = g
    BY DEF Payload
  <2>2. l \in Nat /\ Behind(f) \in Nat
    BY <1>10
  <2>3. \A x \in 1 .. Len(inBuf) : inBuf[x] \in ByteKind
    BY <1>2, ElementOfSeq DEF ByteSeq
  <2>4. Unknown \in ByteKind
    BY DEF Unknown, ByteKind
  <2> HIDE DEF l
  <2>5. \A j \in 1 .. l : g[j] \in ByteKind
    <3> SUFFICES ASSUME NEW j \in 1 .. l PROVE g[j] \in ByteKind
      OBVIOUS
    <3>1. Behind(f) + j <= Len(inBuf) => Behind(f) + j \in 1 .. Len(inBuf)
      BY <1>4, <2>2
    <3> QED
      BY <2>3, <2>4, <3>1
  <2>6. g \in [1 .. l -> ByteKind]
    BY <2>5
  <2> HIDE DEF g
  <2>7. g \in Seq(ByteKind)
    BY <2>2, <2>6
  <2>8. Len(g) = l
    BY <2>2, <2>6, <2>7, LenProperties
  <2> QED
    BY <2>1, <2>7, <2>8 DEF l, ByteSeq
<1>16. f.masked => pay = SubSeq(Bytes(i, f), Behind(f) + 1, T)
  <2> SUFFICES ASSUME f.masked PROVE pay = SubSeq(Bytes(i, f), Behind(f) + 1, T)
    OBVIOUS
  <2> DEFINE b == Bytes(i, f)
             h == Behind(f)
             l == f.len
             v == SubSeq(b, h + 1, T)
  <2>1. b \in ByteSeq /\ Len(b) = T /\ \A j \in 1 .. T : b[j] = <<i, j>>
    BY <1>3, <1>7, BytesOf DEF T
  <2>2. h \in Nat /\ l \in Nat /\ T = h + l /\ h <= T
    BY <1>10
  <2> HIDE DEF b, h
  <2>3. v \in ByteSeq /\ Len(v) = T - h /\ \A p \in 1 .. T - h : v[p] = b[h + p]
    <3>1. h <= Len(b)
      BY <2>1, <2>2
    <3>2. /\ SubSeq(b, h + 1, Len(b)) \in ByteSeq /\ Len(SubSeq(b, h + 1, Len(b))) = Len(b) - h
          /\ \A p \in 1 .. Len(b) - h : SubSeq(b, h + 1, Len(b))[p] = b[h + p]
      BY <2>1, <2>2, <3>1, ByteDrop
    <3> QED
      BY <2>1, <3>2
  <2> HIDE DEF v, l
  <2>4. ASSUME NEW p \in 1 .. l PROVE pay[p] = v[p]
    <3>1. h + p \in 1 .. T /\ h + p \in 1 .. Len(inBuf) /\ p \in 1 .. T - h
      BY <1>4, <1>12, <2>2
    <3>2. pay[p] = inBuf[h + p]
      <4>1. h + p <= Len(inBuf)
        BY <3>1
      <4> QED
        BY <4>1 DEF Payload, h, l
    <3>3. s[h + p] = inBuf[h + p] /\ s[h + p] = <<i, h + p>> /\ b[h + p] = <<i, h + p>>
      BY <1>5, <1>7, <2>1, <3>1
    <3> QED
      BY <2>3, <3>1, <3>2, <3>3
  <2> HIDE DEF pay
  <2>5. Len(pay) = l /\ Len(v) = l
    BY <1>15, <2>2, <2>3 DEF l
  <2>6. pay = v
    BY <1>15, <2>3, <2>4, <2>5, SeqEqual DEF ByteSeq
  <2> QED
    BY <2>6 DEF v, b, h
<1>17. /\ handed' \in Seq(ByteSeq) /\ Len(handed') = i /\ handed'[i] = pay
       /\ \A x \in 1 .. Len(handed) : handed'[x] = handed[x]
  <2> HIDE DEF pay
  <2>1. handed' = Append(handed, pay)
    BY <1>1, <1>9 DEF pay
  <2> QED
    BY <1>2, <1>3, <1>15, <2>1, AppendProperties DEF i
<1> HIDE DEF pay, behind
<1>18. ASSUME NEW x \in 1 .. Len(handed')
       PROVE  /\ Len(handed'[x]) = frames[x].len
              /\ frames[x].masked =>
                   handed'[x] = SubSeq(Bytes(x, frames[x]), Behind(frames[x]) + 1, Total(frames[x]))
  <2>1. CASE x = i
    BY <1>15, <1>16, <1>17, <2>1 DEF f, T
  <2>2. CASE x # i
    <3>1. x \in 1 .. Len(handed)
      BY <1>3, <1>17, <2>2 DEF i
    <3> QED
      BY <1>2, <1>17, <3>1
  <2> QED
    BY <2>1, <2>2
<1>19. FromFrame(inBuf' \o inAir', Len(handed') + 1, frames')
  BY <1>1, <1>7, <1>13, <1>14, <1>17
<1> QED
  BY <1>1, <1>2, <1>13, <1>14, <1>17, <1>18, <1>19 DEF FramesInv

LEMMA FrameStepInv ==
  ASSUME FramesInv, FrameNext
  PROVE  FramesInv'
<1> SUFFICES ASSUME ~wrapped' PROVE FramesInv'
  BY DEF FramesInv
<1>1. CASE Extract
  BY <1>1, ExtractsFrame
<1>2. ASSUME wrapped' = wrapped
      PROVE  /\ frames \in FrameSeq /\ inBuf \in ByteSeq /\ inAir \in ByteSeq
             /\ Len(handed) + 1 \in Nat \ {0} /\ Len(inAir) \in Nat
             /\ FromFrame(inBuf \o inAir, Len(handed) + 1, frames)
  <2>1. /\ frames \in FrameSeq /\ inBuf \in ByteSeq /\ inAir \in ByteSeq
        /\ handed \in Seq(ByteSeq) /\ FromFrame(inBuf \o inAir, Len(handed) + 1, frames)
    BY <1>2 DEF FramesInv
  <2>2. Len(handed) \in Nat /\ Len(inAir) \in Nat
    BY <2>1, LenProperties DEF ByteSeq
  <2> QED
    BY <2>1, <2>2
<1>3. ASSUME NEW f \in FrameKind, ClientSends(f) PROVE FramesInv'
  <2>1. /\ frames' = Append(frames, f) /\ inAir' = inAir \o Bytes(Len(frames) + 1, f)
        /\ inBuf' = inBuf /\ handed' = handed /\ wrapped' = wrapped
    BY <1>3 DEF ClientSends
  <2>2. Len(frames) \in Nat /\ Len(handed) <= Len(frames) /\ inBuf \o inAir \in ByteSeq
    <3>1. inBuf \o inAir \in ByteSeq
      BY <1>2, <2>1, ByteConcat
    <3>2. Len(frames) \in Nat /\ Len(handed) + 1 <= Len(frames) + 1
      BY <1>2, <2>1, <3>1, FirstFrame
    <3>3. Len(handed) \in Nat
      BY <2>1, LenProperties DEF FramesInv
    <3> QED
      BY <3>1, <3>2, <3>3
  <2> DEFINE b == Bytes(Len(frames) + 1, f)
  <2>3. b \in ByteSeq
    BY <2>2, BytesOf
  <2>4. FromFrame((inBuf \o inAir) \o b, Len(handed) + 1, Append(frames, f))
    BY <1>2, <2>1, <2>2, AddFrame
  <2> HIDE DEF b
  <2>5. inAir \o b \in ByteSeq /\ (inBuf \o inAir) \o b = inBuf \o (inAir \o b)
    BY <1>2, <2>1, <2>3, ByteConcat, ByteAssociative
  <2>6. FromFrame(inBuf' \o inAir', Len(handed') + 1, frames')
    BY <2>1, <2>4, <2>5 DEF b
  <2>7. frames' \in FrameSeq /\ \A x \in 1 .. Len(frames) : frames'[x] = frames[x]
    BY <1>2, <2>1, AppendProperties DEF FrameSeq
  <2>8. \A x \in 1 .. Len(handed) : x \in 1 .. Len(frames)
    BY <2>1, <2>2, LenProperties DEF FramesInv
  <2>9. inAir' \in ByteSeq
    BY <2>1, <2>5 DEF b
  <2> QED
    BY <2>1, <2>6, <2>7, <2>8, <2>9 DEF FramesInv
<1>4. CASE ReadData
  <2>1. frames' = frames /\ handed' = handed /\ wrapped' = wrapped
    BY <1>4 DEF ReadData
  <2>2. CASE Len(inBuf) = FrameBuf
    BY <1>4, <2>1, <2>2 DEF ReadData, FramesInv
  <2>3. CASE Len(inBuf) # FrameBuf
    <3>1. PICK k \in 1 .. Len(inAir) : /\ inBuf' = inBuf \o SubSeq(inAir, 1, k)
                                       /\ inAir' = SubSeq(inAir, k + 1, Len(inAir))
      BY <1>4, <2>3 DEF ReadData
    <3>2. k \in 0 .. Len(inAir)
      BY <1>2, <2>1
    <3>3. inBuf' \in ByteSeq /\ inAir' \in ByteSeq /\ inBuf' \o inAir' = inBuf \o inAir
      BY <1>2, <2>1, <3>1, <3>2, SentPart
    <3> QED
      BY <2>1, <3>3 DEF FramesInv
  <2> QED
    BY <2>2, <2>3
<1>5. CASE TooLong \/ Incomplete
  BY <1>5 DEF TooLong, Incomplete, FramesInv
<1>6. \A l \in Lengths \cup {Unsupported}, m \in BOOLEAN : Frame(l, m) \in FrameKind
  BY WebSocketConstants DEF Frame, FrameKind, Unsupported
<1> QED
  BY <1>1, <1>3, <1>4, <1>5, <1>6 DEF FrameNext

LEMMA FramesAreWhole == FrameInv => FramesWhole
<1> SUFFICES ASSUME FrameInv PROVE FramesWhole
  OBVIOUS
<1>1. ~wrapped => DOMAIN handed = 1 .. Len(handed)
  BY LenProperties DEF FrameInv, FramesInv
<1> QED
  BY <1>1 DEF FrameInv, FramesInv, StringsInv, FramesWhole, SentAs

(* The two directions share nothing.                                       *)
LEMMA DirectionsApart ==
  /\ FrameNext => UNCHANGED <<outBuf, strings, heard>>
  /\ StringNext => UNCHANGED <<frames, inAir, inBuf, reading, handed, wrapped>>
BY DEF FrameNext, StringNext, ClientSends, ReadData, TooLong, Extract, Incomplete,
  AddPacketBuffer, SendBuffer, ControlFrame

(* Whatever pieces frames come in and however many fit into the buffer,    *)
(* packets have the payloads of the frames, whole and in turn, until one's *)
(* size wraps; and a client is sent whole frames.                          *)
THEOREM FramesNeverTorn == Spec => []FramesWhole
<1>1. Init => FrameInv
  BY FrameInitInv DEF Init
<1>2. FrameInv /\ [Next]_vars => FrameInv'
  <2> SUFFICES ASSUME FrameInv, [Next]_vars PROVE FrameInv'
    OBVIOUS
  <2>1. CASE FrameNext
    <3>1. FramesInv'
      BY <2>1, FrameStepInv DEF FrameInv
    <3>2. StringsInv'
      BY <2>1, DirectionsApart DEF FrameInv, StringsInv
    <3> QED
      BY <3>1, <3>2 DEF FrameInv
  <2>2. CASE StringNext
    <3>1. StringsInv'
      BY <2>2, StringStepInv DEF FrameInv
    <3>2. FramesInv'
      BY <2>2, DirectionsApart DEF FrameInv, FramesInv
    <3> QED
      BY <3>1, <3>2 DEF FrameInv
  <2>3. CASE UNCHANGED frameVars
    BY <2>3 DEF FrameInv, FramesInv, StringsInv, frameVars
  <2> QED
    BY <2>1, <2>2, <2>3 DEF Next, vars, PacketStep, FileStep, LineStep, FrameStep, StrStep
<1>3. FrameInv => FramesWhole
  BY FramesAreWhole
<1> QED
  BY <1>1, <1>2, <1>3, PTL DEF Spec

-----------------------------------------------------------------------------
(* Strings.                                                                *)
Chars == Nat \ {NUL}
MemSeq == Seq(Nat)
CharSeq == Seq(Chars)

(* Memory that holds a string: its characters and a NUL behind them, which *)
(* an empty string that was left by empty(FALSE) has not got.              *)
Holds(m, v) ==
  /\ m \in MemSeq /\ v \in CharSeq
  /\ IF m = << >> THEN v = << >>
     ELSE /\ Len(v) < Len(m)
          /\ \A i \in 1 .. Len(v) : m[i] = v[i]
          /\ v # << >> => m[Len(v) + 1] = NUL

StrInv == odd = {} => len = Len(value) /\ Holds(mem, value)

LEMMA CharsAreCells ==
  ASSUME NEW s \in CharSeq
  PROVE  /\ s \in MemSeq /\ Len(s) \in Nat /\ DOMAIN s = 1 .. Len(s)
         /\ \A i \in 1 .. Len(s) : s[i] \in Nat /\ s[i] # NUL
         /\ s = << >> <=> Len(s) = 0
<1>1. Chars \subseteq Nat
  BY DEF Chars
<1>2. s \in MemSeq
  BY <1>1, SeqMonotonic DEF CharSeq, MemSeq
<1>3. Len(s) \in Nat /\ DOMAIN s = 1 .. Len(s) /\ \A i \in 1 .. Len(s) : s[i] \in Chars
  BY LenProperties, ElementOfSeq DEF CharSeq
<1>4. s = << >> <=> Len(s) = 0
  BY EmptySeq DEF CharSeq
<1> QED
  BY <1>2, <1>3, <1>4 DEF Chars

LEMMA OverCells ==
  ASSUME NEW m \in MemSeq, NEW s \in MemSeq, NEW i \in Nat
  PROVE  /\ Over(m, i, s) \in MemSeq /\ Len(Over(m, i, s)) = Len(m)
         /\ \A j \in 1 .. Len(m) : j <= i => Over(m, i, s)[j] = m[j]
         /\ \A j \in 1 .. Len(s) : i + j <= Len(m) => Over(m, i, s)[i + j] = s[j]
<1> DEFINE k == Len(m)
           l == Len(s)
           o == [j \in 1 .. k |-> IF j \in i + 1 .. i + l THEN s[j - i] ELSE m[j]]
<1>1. /\ k \in Nat /\ l \in Nat /\ DOMAIN m = 1 .. k
      /\ \A j \in 1 .. k : m[j] \in Nat
      /\ \A j \in 1 .. l : s[j] \in Nat
  BY LenProperties, ElementOfSeq DEF MemSeq
<1>2. Over(m, i, s) = o
  BY <1>1 DEF Over
<1> HIDE DEF k, l
<1>3. \A j \in i + 1 .. i + l : j - i \in 1 .. l
  BY <1>1
<1>4. o \in [1 .. k -> Nat]
  BY <1>1, <1>3
<1>5. \A j \in 1 .. k : j <= i => o[j] = m[j]
  BY <1>1
<1>6. \A j \in 1 .. l : i + j <= k => o[i + j] = s[j]
  <2> SUFFICES ASSUME NEW j \in 1 .. l, i + j <= k PROVE o[i + j] = s[j]
    OBVIOUS
  <2>1. i + j \in 1 .. k /\ i + j \in i + 1 .. i + l /\ i + j - i = j
    BY <1>1
  <2> QED
    BY <2>1
<1> HIDE DEF o
<1>7. o \in Seq(Nat)
  BY <1>1, <1>4
<1>8. Len(o) = k
  BY <1>1, <1>4, <1>7, LenProperties
<1> QED
  BY <1>2, <1>5, <1>6, <1>7, <1>8 DEF k, l, MemSeq

LEMMA ConcatChars ==
  ASSUME NEW v \in CharSeq, NEW s \in CharSeq
  PROVE  /\ v \o s \in CharSeq /\ Len(v \o s) = Len(v) + Len(s)
         /\ \A i \in 1 .. Len(v) : (v \o s)[i] = v[i]
         /\ \A i \in 1 .. Len(s) : (v \o s)[Len(v) + i] = s[i]
<1> DEFINE k == Len(v)
           l == Len(s)
           u == v \o s
<1>1. /\ u \in Seq(Chars) /\ Len(u) = k + l
      /\ \A i \in 1 .. k + l : u[i] = IF i <= k THEN v[i] ELSE s[i - k]
  BY ConcatProperties DEF CharSeq
<1>2. k \in Nat /\ l \in Nat
  BY CharsAreCells
<1> HIDE DEF k, l, u
<1>3. \A i \in 1 .. k : u[i] = v[i]
  BY <1>1, <1>2
<1>4. \A i \in 1 .. l : u[k + i] = s[i]
  <2> SUFFICES ASSUME NEW i \in 1 .. l PROVE u[k + i] = s[i]
    OBVIOUS
  <2> DEFINE x == k + i
  <2>1. x \in 1 .. k + l /\ ~(x <= k) /\ x - k = i
    BY <1>2
  <2> HIDE DEF x
  <2>2. u[x] = s[x - k]
    BY <1>1, <2>1
  <2> QED
    BY <2>1, <2>2 DEF x
<1> QED
  BY <1>1, <1>3, <1>4 DEF k, l, u, CharSeq

(* A string with a NUL behind it.                                          *)
LEMMA WithNUL ==
  ASSUME NEW s \in CharSeq
  PROVE  /\ s \o <<NUL>> \in MemSeq /\ Len(s \o <<NUL>>) = Len(s) + 1
         /\ \A i \in 1 .. Len(s) : (s \o <<NUL>>)[i] = s[i]
         /\ (s \o <<NUL>>)[Len(s) + 1] = NUL
<1>1. s \in Seq(Nat) /\ Len(s) \in Nat
  BY CharsAreCells DEF MemSeq
<1>2. <<NUL>> \in Seq(Nat) /\ Len(<<NUL>>) = 1 /\ <<NUL>>[1] = NUL
  BY DEF NUL
<1> DEFINE e == <<NUL>>
           u == s \o e
           k == Len(s)
<1> HIDE DEF e
<1>3. /\ u \in Seq(Nat) /\ Len(u) = k + Len(e)
      /\ \A i \in 1 .. k + Len(e) : u[i] = IF i <= k THEN s[i] ELSE e[i - k]
  BY <1>1, <1>2, ConcatProperties DEF e
<1> HIDE DEF u, k
<1>4. k \in Nat /\ Len(e) = 1 /\ e[1] = NUL
  BY <1>1, <1>2 DEF k, e
<1>5. \A i \in 1 .. k : u[i] = s[i]
  BY <1>3, <1>4
<1>6. u[k + 1] = NUL
  <2>1. k + 1 \in 1 .. k + 1 /\ ~(k + 1 <= k) /\ k + 1 - k = 1
    BY <1>4
  <2> QED
    BY <1>3, <1>4, <2>1
<1> QED
  BY <1>3, <1>4, <1>5, <1>6 DEF u, k, e, MemSeq

LEMMA ExactHolds ==
  ASSUME NEW s \in CharSeq
  PROVE  Holds(Exact(s), s)
<1>1. CASE s = << >>
  BY <1>1, EmptySeq DEF Holds, Exact, MemSeq, CharSeq
<1>2. CASE s # << >>
  <2> DEFINE u == s \o <<NUL>>
  <2>1. Exact(s) = u
    BY <1>2 DEF Exact
  <2>2. /\ u \in MemSeq /\ Len(u) = Len(s) + 1
        /\ (\A i \in 1 .. Len(s) : u[i] = s[i]) /\ u[Len(s) + 1] = NUL
    BY WithNUL
  <2>3. Len(s) \in Nat
    BY CharsAreCells
  <2> HIDE DEF u
  <2>4. u # << >> /\ Len(s) < Len(u)
    BY <2>2, <2>3, EmptySeq DEF MemSeq
  <2> QED
    BY <2>1, <2>2, <2>4 DEF Holds
<1> QED
  BY <1>1, <1>2

(* A string written, with its NUL, behind another one.                     *)
LEMMA OverHolds ==
  ASSUME NEW m \in MemSeq, NEW v \in CharSeq, NEW s \in CharSeq,
         Len(v) + Len(s) < Len(m), \A i \in 1 .. Len(v) : m[i] = v[i]
  PROVE  Holds(Over(m, Len(v), s \o <<NUL>>), v \o s)
<1> DEFINE k == Len(v)
           l == Len(s)
           e == s \o <<NUL>>
           o == Over(m, k, e)
           u == v \o s
<1>1. k \in Nat /\ l \in Nat /\ Len(m) \in Nat
  BY CharsAreCells, LenProperties DEF MemSeq
<1>2. /\ e \in MemSeq /\ Len(e) = l + 1 /\ (\A i \in 1 .. l : e[i] = s[i]) /\ e[l + 1] = NUL
  BY WithNUL
<1>3. /\ u \in CharSeq /\ Len(u) = k + l
      /\ \A i \in 1 .. k : u[i] = v[i]
      /\ \A i \in 1 .. l : u[k + i] = s[i]
  BY ConcatChars
<1> HIDE DEF e, u
<1>4. /\ o \in MemSeq /\ Len(o) = Len(m)
      /\ \A j \in 1 .. Len(m) : j <= k => o[j] = m[j]
      /\ \A j \in 1 .. Len(e) : k + j <= Len(m) => o[k + j] = e[j]
  BY <1>1, <1>2, OverCells
<1>5. k + l < Len(m) /\ \A i \in 1 .. k : m[i] = v[i]
  OBVIOUS
<1> HIDE DEF k, l, o
<1>6. ASSUME NEW i \in 1 .. k + l PROVE o[i] = u[i]
  <2>1. CASE i <= k
    <3>1. i \in 1 .. k /\ i \in 1 .. Len(m)
      BY <1>1, <1>5, <2>1
    <3> QED
      BY <1>3, <1>4, <1>5, <2>1, <3>1
  <2>2. CASE ~(i <= k)
    <3> DEFINE j == i - k
    <3>1. j \in 1 .. l /\ j \in 1 .. Len(e) /\ k + j = i /\ k + j <= Len(m)
      BY <1>1, <1>2, <1>5, <2>2
    <3> HIDE DEF j
    <3>2. o[k + j] = e[j] /\ e[j] = s[j] /\ u[k + j] = s[j]
      BY <1>2, <1>3, <1>4, <3>1
    <3> QED
      BY <3>1, <3>2
  <2> QED
    BY <2>1, <2>2
<1>7. o[k + l + 1] = NUL
  <2>1. l + 1 \in 1 .. Len(e) /\ k + (l + 1) <= Len(m) /\ k + (l + 1) = k + l + 1
    BY <1>1, <1>2, <1>5
  <2>2. o[k + (l + 1)] = e[l + 1]
    BY <1>4, <2>1
  <2> QED
    BY <1>2, <2>1, <2>2
<1>8. o # << >> /\ Len(u) < Len(o)
  BY <1>1, <1>3, <1>4, <1>5, EmptySeq DEF MemSeq
<1>9. Holds(o, u)
  BY <1>3, <1>4, <1>6, <1>7, <1>8 DEF Holds
<1> QED
  BY <1>9 DEF o, u, e, k, l

LEMMA ZeroCells ==
  ASSUME NEW k \in Nat
  PROVE  Zeros(k) \in MemSeq /\ Len(Zeros(k)) = k /\ \A i \in 1 .. k : Zeros(k)[i] = NUL
<1>1. Zeros(k) \in [1 .. k -> Nat] /\ \A i \in 1 .. k : Zeros(k)[i] = NUL
  BY DEF Zeros, NUL
<1>2. Zeros(k) \in Seq(Nat)
  BY <1>1
<1>3. Len(Zeros(k)) = k
  BY <1>1, <1>2, LenProperties
<1> QED
  BY <1>1, <1>2, <1>3 DEF MemSeq

LEMMA QuotientOf ==
  ASSUME NEW k \in Nat, NEW b \in Nat \ {0}
  PROVE  k % b \in 0 .. b - 1 /\ k \div b \in Nat /\ k = b * (k \div b) + (k % b)
BY SMT

LEMMA NextMultiple ==
  ASSUME NEW k \in Nat, NEW b \in Nat \ {0}
  PROVE  ((k \div b) + 1) * b \in Nat /\ ((k \div b) + 1) * b > k
<1> DEFINE q == k \div b
           r == k % b
<1>1. q \in Nat /\ r \in 0 .. b - 1 /\ k = b * q + r
  BY QuotientOf
<1> HIDE DEF q, r
<1>2. (q + 1) * b = b * q + b /\ b * q \in Nat
  BY <1>1
<1> QED
  BY <1>1, <1>2 DEF q

LEMMA QuotientOne ==
  ASSUME NEW k \in Nat, NEW b \in Nat \ {0}, b <= k, k < b + b
  PROVE  k \div b = 1
<1> DEFINE q == k \div b
           r == k % b
<1>1. q \in Nat /\ r \in 0 .. b - 1 /\ k = b * q + r
  BY QuotientOf
<1> HIDE DEF q, r
<1>2. q # 0
  BY <1>1
<1>3. ASSUME q >= 2 PROVE FALSE
  <2>1. PICK x \in Nat : q = x + 2
    <3>1. q - 2 \in Nat /\ q = q - 2 + 2
      BY <1>1, <1>3
    <3> QED
      BY <3>1
  <2>2. b * q = b * x + b + b /\ b * x \in Nat
    BY <2>1
  <2> QED
    BY <1>1, <2>2
<1> QED
  BY <1>1, <1>2, <1>3 DEF q

(* append() makes room for what is appended and its NUL.                   *)
LEMMA GrownRoom ==
  ASSUME mem \in MemSeq, len \in Nat, len <= Len(mem), NEW k \in Nat
  PROVE  /\ Grown(k) \in MemSeq /\ len + k < Len(Grown(k))
         /\ \A i \in 1 .. len : Grown(k)[i] = mem[i]
<1>0. Len(mem) \in Nat
  BY LenProperties DEF MemSeq
<1>1. CASE Fits(k)
  <2>1. Grown(k) = mem /\ k + 1 <= Len(mem) - len
    BY <1>1 DEF Grown, Fits, Alloc
  <2> QED
    BY <1>0, <2>1
<1>2. CASE ~Fits(k)
  <2> DEFINE z == (((k + 1) \div Granularity) + 1) * Granularity
             g == mem \o Zeros(z)
  <2>1. Grown(k) = g
    BY <1>2 DEF Grown
  <2>2. z \in Nat /\ z > k + 1
    <3>1. k + 1 \in Nat /\ Granularity \in Nat \ {0}
      BY CStrConstants
    <3> QED
      BY <3>1, NextMultiple
  <2> HIDE DEF z
  <2>3. Zeros(z) \in MemSeq /\ Len(Zeros(z)) = z
    BY <2>2, ZeroCells
  <2>4. /\ g \in MemSeq /\ Len(g) = Len(mem) + z
        /\ \A i \in 1 .. Len(mem) + z : g[i] = IF i <= Len(mem) THEN mem[i] ELSE Zeros(z)[i - Len(mem)]
    BY <2>3, ConcatProperties DEF MemSeq
  <2> HIDE DEF g
  <2>5. \A i \in 1 .. len : i \in 1 .. Len(mem) + z /\ i <= Len(mem)
    BY <1>0, <2>2
  <2>6. len + k < Len(g)
    BY <1>0, <2>2, <2>4
  <2> QED
    BY <2>1, <2>4, <2>5, <2>6
<1> QED
  BY <1>1, <1>2

LEMMA StringFacts ==
  ASSUME StrInv, odd = {}
  PROVE  /\ mem \in MemSeq /\ value \in CharSeq /\ len = Len(value)
         /\ len \in Nat /\ Len(mem) \in Nat /\ len <= Len(mem)
         /\ \A i \in 1 .. len : mem[i] = value[i] /\ value[i] # NUL
         /\ mem # << >> => len < Len(mem)
         /\ len > 0 => mem # << >> /\ mem[len + 1] = NUL
<1>1. Holds(mem, value) /\ len = Len(value)
  BY DEF StrInv
<1>2. mem \in MemSeq /\ value \in CharSeq /\ Len(mem) \in Nat
  BY <1>1, LenProperties DEF Holds, MemSeq
<1>3. /\ len \in Nat /\ \A i \in 1 .. len : value[i] # NUL
      /\ value = << >> <=> len = 0
  BY <1>1, <1>2, CharsAreCells
<1>4. CASE mem = << >>
  <2>1. value = << >> /\ Len(mem) = 0
    BY <1>1, <1>4, EmptySeq DEF Holds
  <2> QED
    BY <1>1, <1>2, <1>3, <1>4, <2>1
<1>5. CASE mem # << >>
  <2>1. /\ len < Len(mem) /\ \A i \in 1 .. len : mem[i] = value[i]
        /\ value # << >> => mem[len + 1] = NUL
    BY <1>1, <1>5 DEF Holds
  <2> QED
    BY <1>1, <1>2, <1>3, <1>5, <2>1
<1> QED
  BY <1>4, <1>5

(* Who uses the string as a char*, or a part of it, gets that part.        *)
LEMMA CStringOf ==
  ASSUME StrInv, odd = {}, mem # << >>, ~Forgotten, NEW x \in Nat, x <= len
  PROVE  /\ NULs(x + 1) # {} /\ CString(x + 1) = SubSeq(value, x + 1, len)
         /\ CString(x + 1) \in CharSeq /\ Len(CString(x + 1)) = len - x
<1>1. /\ mem \in MemSeq /\ value \in CharSeq /\ len = Len(value)
      /\ len \in Nat /\ Len(mem) \in Nat /\ len < Len(mem)
      /\ \A i \in 1 .. len : mem[i] = value[i] /\ value[i] # NUL
      /\ len > 0 => mem[len + 1] = NUL
  BY StringFacts
<1>2. mem[len + 1] = NUL
  <2>1. len = 0 => mem[1] = NUL
    BY DEF Forgotten
  <2> QED
    BY <1>1, <2>1
<1>3. DOMAIN mem = 1 .. Len(mem)
  BY <1>1, LenProperties DEF MemSeq
<1> DEFINE N == NULs(x + 1)
           y == Min(N)
<1>4. \A j \in N : j \in 1 .. Len(mem) /\ j >= x + 1 /\ mem[j] = NUL
  BY <1>3 DEF NULs
<1>5. len + 1 \in N
  BY <1>1, <1>2, <1>3 DEF NULs
<1> HIDE DEF N
<1>6. N \subseteq Nat /\ N # {}
  BY <1>4, <1>5
<1>7. y \in N /\ y <= len + 1
  BY <1>5, <1>6, LeastNatural
<1> HIDE DEF y
<1>8. y = len + 1
  <2>1. y \in 1 .. Len(mem) /\ mem[y] = NUL
    BY <1>4, <1>7
  <2>2. ~(y \in 1 .. len)
    BY <1>1, <2>1
  <2> QED
    BY <1>1, <1>7, <2>1, <2>2
<1> DEFINE a == SubSeq(mem, x + 1, len)
           b == SubSeq(value, x + 1, len)
<1>9. CString(x + 1) = a
  BY <1>1, <1>8 DEF CString, y, N
<1>10. a \in Seq(Nat) /\ Len(a) = len - x /\ \A p \in 1 .. len - x : a[p] = mem[x + p]
  <2>1. mem \in Seq(Nat) /\ len <= Len(mem)
    BY <1>1 DEF MemSeq
  <2> QED
    BY <1>1, <2>1, PartOf
<1>11. b \in Seq(Chars) /\ Len(b) = len - x /\ \A p \in 1 .. len - x : b[p] = value[x + p]
  <2>1. value \in Seq(Chars) /\ len <= Len(value)
    BY <1>1 DEF CharSeq
  <2> QED
    BY <1>1, <2>1, PartOf
<1> HIDE DEF a, b
<1>12. b \in Seq(Nat)
  BY <1>11, CharsAreCells DEF CharSeq, MemSeq
<1>13. \A p \in 1 .. len - x : x + p \in 1 .. len
  BY <1>1
<1>14. a = b
  <2>1. \A p \in 1 .. len - x : a[p] = b[p]
    BY <1>1, <1>10, <1>11, <1>13
  <2> QED
    BY <1>10, <1>11, <1>12, <2>1, SeqEqual
<1> QED
  BY <1>6, <1>9, <1>11, <1>14 DEF b, N, CharSeq

LEMMA TextIsValue ==
  ASSUME StrInv, odd = {}
  PROVE  Text = value
<1>1. /\ mem \in MemSeq /\ value \in CharSeq /\ len = Len(value)
      /\ len \in Nat /\ len <= Len(mem)
      /\ \A i \in 1 .. len : mem[i] = value[i]
  BY StringFacts
<1> DEFINE a == SubSeq(mem, 1, len)
<1>2. a \in Seq(Nat) /\ Len(a) = len /\ \A p \in 1 .. len : a[p] = mem[p]
  <2>1. mem \in Seq(Nat)
    BY <1>1 DEF MemSeq
  <2> QED
    BY <1>1, <2>1, FrontOf
<1> HIDE DEF a
<1>3. value \in Seq(Nat)
  BY <1>1, CharsAreCells DEF MemSeq
<1>4. a = value
  BY <1>1, <1>2, <1>3, SeqEqual
<1> QED
  BY <1>4 DEF Text, a

LEMMA StringInit == StrInit => StrInv
<1>1. << >> \in MemSeq /\ << >> \in CharSeq /\ Len(<< >>) = 0
  BY EmptySeq DEF MemSeq, CharSeq
<1> QED
  BY <1>1 DEF StrInit, StrInv, Holds

LEMMA MemoryHolds ==
  ASSUME NEW m, NEW k, NEW v, Becomes(m, k, v), Holds(m, v), k = Len(v)
  PROVE  StrInv'
BY DEF Becomes, StrInv, Holds, MemSeq, CharSeq, Chars, NUL

LEMMA EmptyHolds ==
  /\ << >> \in CharSeq /\ Len(<< >>) = 0
  /\ \A m \in MemSeq : Holds(m, << >>)
<1>1. << >> \in CharSeq /\ Len(<< >>) = 0
  BY EmptySeq DEF CharSeq
<1>2. ASSUME NEW m \in MemSeq PROVE Holds(m, << >>)
  <2>1. m # << >> => 0 < Len(m)
    BY EmptySeq DEF MemSeq
  <2> QED
    BY <1>1, <2>1 DEF Holds
<1> QED
  BY <1>1, <1>2

LEMMA AppendedHolds ==
  ASSUME StrInv, odd = {}, NEW s \in CharSeq
  PROVE  /\ Holds(Appended(s), value \o s) /\ len + Len(s) = Len(value \o s)
<1>1. /\ mem \in MemSeq /\ value \in CharSeq /\ len = Len(value)
      /\ len \in Nat /\ len <= Len(mem)
      /\ \A i \in 1 .. len : mem[i] = value[i]
  BY StringFacts
<1> DEFINE k == Len(s)
           g == Grown(k)
<1>2. k \in Nat
  BY CharsAreCells
<1> HIDE DEF k
<1>3. /\ g \in MemSeq /\ len + k < Len(g) /\ \A i \in 1 .. len : g[i] = mem[i]
  BY <1>1, <1>2, GrownRoom
<1> HIDE DEF g
<1>4. Holds(Over(g, Len(value), s \o <<NUL>>), value \o s)
  BY <1>1, <1>3, OverHolds DEF k
<1>5. Appended(s) = Over(g, Len(value), s \o <<NUL>>)
  BY <1>1 DEF Appended, g, k
<1>6. len + Len(s) = Len(value \o s)
  BY <1>1, ConcatChars
<1> QED
  BY <1>4, <1>5, <1>6

(* A part of the string itself, unless empty(FALSE) left an older one.     *)
LEMMA OwnPart ==
  ASSUME StrInv, odd = {}, NEW i \in Nat, Inside(i), ~Forgotten
  PROVE  CString(i) \in CharSeq /\ CString(i) = SubSeq(value, i, Len(value))
<1>1. len \in Nat /\ len = Len(value)
  BY StringFacts
<1>2. mem # << >> /\ i \in 1 .. len + 1
  BY DEF Inside
<1> DEFINE x == i - 1
<1>3. x \in Nat /\ x <= len /\ x + 1 = i
  BY <1>1, <1>2
<1> HIDE DEF x
<1>4. CString(x + 1) = SubSeq(value, x + 1, len) /\ CString(x + 1) \in CharSeq
  BY <1>2, <1>3, CStringOf
<1> QED
  BY <1>1, <1>3, <1>4

LEMMA OddStays ==
  ASSUME NEW c, NEW w, Unless(c, w), odd' = {}
  PROVE  ~c /\ odd = {}
BY DEF Unless

LEMMA RemovedHolds ==
  ASSUME StrInv, odd = {}, NEW first \in Nat, NEW k \in Nat \ {0},
         first + k <= len, k < len, NEW m,
         \/ m = Down(first, k)
         \/ m = Mixed(first, k) /\ ~(len - (first + k) > k)
  PROVE  LET v == SubSeq(value, 1, first) \o SubSeq(value, first + k + 1, len)
         IN Holds(m, v) /\ len - k = Len(v)
<1>1. /\ mem \in MemSeq /\ value \in CharSeq /\ len = Len(value)
      /\ len \in Nat /\ Len(mem) \in Nat /\ len < Len(mem)
      /\ \A i \in 1 .. len : mem[i] = value[i]
  BY StringFacts
<1>2. DOMAIN mem = 1 .. Len(mem) /\ \A j \in 1 .. Len(mem) : mem[j] \in Nat
  BY <1>1, LenProperties, ElementOfSeq DEF MemSeq
<1> DEFINE d == [j \in 1 .. Len(mem) |-> IF j > len - k /\ j <= len THEN NUL
                        ELSE IF j > first /\ j <= len - k THEN mem[j + k] ELSE mem[j]]
<1>3. m = d
  <2>1. CASE m = Down(first, k)
    BY <1>2, <2>1 DEF Down
  <2>2. CASE m = Mixed(first, k) /\ ~(len - (first + k) > k)
    <3>1. ASSUME NEW j \in 1 .. Len(mem), j > first, j <= len - k
          PROVE  j + k * ((len - j) \div k) = j + k
      <4>1. len - j \in Nat /\ k <= len - j /\ len - j < k + k
        BY <1>1, <2>2, <3>1
      <4>2. (len - j) \div k = 1
        BY <4>1, QuotientOne
      <4> QED
        BY <4>2
    <3> DEFINE e == [j \in 1 .. Len(mem) |-> IF j > len - k /\ j <= len THEN NUL
                       ELSE IF j > first /\ j <= len - k
                         THEN mem[j + k * ((len - j) \div k)] ELSE mem[j]]
    <3>2. m = e
      BY <1>2, <2>2 DEF Mixed
    <3>3. \A j \in 1 .. Len(mem) : e[j] = d[j]
      BY <3>1
    <3>4. e = d
      BY <3>3
    <3> QED
      BY <3>2, <3>4
  <2> QED
    BY <2>1, <2>2
<1>4. /\ d \in MemSeq /\ Len(d) = Len(mem)
      /\ \A j \in 1 .. len - k : d[j] = IF j > first THEN value[j + k] ELSE value[j]
      /\ d[len - k + 1] = NUL
  <2>1. \A j \in 1 .. Len(mem) : j > first /\ j <= len - k => j + k \in 1 .. len /\ j + k \in 1 .. Len(mem)
    BY <1>1
  <2>2. d \in [1 .. Len(mem) -> Nat]
    BY <1>1, <1>2, <2>1 DEF NUL
  <2>3. ASSUME NEW j \in 1 .. len - k
        PROVE  d[j] = IF j > first THEN value[j + k] ELSE value[j]
    <3>1. j \in 1 .. Len(mem) /\ ~(j > len - k) /\ j <= len - k /\ j \in 1 .. len
      BY <1>1
    <3>2. d[j] = IF j > first THEN mem[j + k] ELSE mem[j]
      BY <3>1
    <3> QED
      BY <1>1, <2>1, <3>1, <3>2
  <2>4. d[len - k + 1] = NUL
    <3>1. len - k + 1 \in 1 .. Len(mem) /\ len - k + 1 > len - k /\ len - k + 1 <= len
      BY <1>1
    <3> QED
      BY <3>1
  <2> HIDE DEF d
  <2>5. d \in Seq(Nat)
    BY <1>1, <2>2
  <2>6. Len(d) = Len(mem)
    BY <1>1, <2>2, <2>5, LenProperties
  <2> QED
    BY <2>3, <2>4, <2>5, <2>6 DEF MemSeq
<1> DEFINE a == SubSeq(value, 1, first)
           x == first + k
           b == SubSeq(value, x + 1, len)
           v == a \o b
<1>5. a \in CharSeq /\ Len(a) = first /\ \A p \in 1 .. first : a[p] = value[p]
  <2>1. value \in Seq(Chars) /\ first <= Len(value)
    BY <1>1 DEF CharSeq
  <2> QED
    BY <2>1, FrontOf DEF CharSeq
<1>6. b \in CharSeq /\ Len(b) = len - x /\ \A p \in 1 .. len - x : b[p] = value[x + p]
  <2>1. value \in Seq(Chars) /\ len <= Len(value) /\ x \in Nat /\ x <= len
    BY <1>1 DEF CharSeq
  <2> HIDE DEF x
  <2> QED
    BY <1>1, <2>1, PartOf DEF CharSeq
<1> HIDE DEF a, b
<1>7. /\ v \in CharSeq /\ Len(v) = Len(a) + Len(b)
      /\ \A p \in 1 .. Len(a) : v[p] = a[p]
      /\ \A p \in 1 .. Len(b) : v[Len(a) + p] = b[p]
  BY <1>5, <1>6, ConcatChars
<1> HIDE DEF v, d
<1>8. Len(v) = len - k
  BY <1>1, <1>5, <1>6, <1>7
<1>9. ASSUME NEW p \in 1 .. len - k PROVE d[p] = v[p]
  <2>1. CASE p > first
    <3> DEFINE q == p - first
    <3>1. q \in 1 .. len - x /\ first + q = p /\ x + q = p + k
      BY <1>1, <2>1
    <3> HIDE DEF q, x
    <3>2. v[first + q] = b[q] /\ b[q] = value[x + q]
      BY <1>5, <1>6, <1>7, <3>1
    <3> QED
      BY <1>4, <2>1, <3>1, <3>2
  <2>2. CASE ~(p > first)
    <3>1. p \in 1 .. first
      BY <2>2
    <3> QED
      BY <1>4, <1>5, <1>7, <2>2, <3>1
  <2> QED
    BY <2>1, <2>2
<1>10. d # << >> /\ len - k < Len(d)
  BY <1>1, <1>4, EmptySeq DEF MemSeq
<1>11. Holds(d, v)
  BY <1>4, <1>7, <1>8, <1>9, <1>10 DEF Holds
<1> QED
  BY <1>3, <1>8, <1>11 DEF v, a, b, x

(* How far the spaces at the start of a string go.                         *)
LEMMA SpacesBound ==
  ASSUME NEW s, NEW k \in Nat, Len(s) = k
  PROVE  Max(Spaces(s)) \in 0 .. k
<1> DEFINE S == Spaces(s)
           T == {k - i : i \in S}
<1>1. S \subseteq 0 .. k /\ 0 \in S
  BY DEF Spaces
<1> HIDE DEF S
<1>2. T \subseteq Nat /\ T # {}
  <2>1. \A i \in S : i \in 0 .. k
    BY <1>1
  <2>2. \A i \in S : k - i \in Nat
    BY <2>1
  <2> QED
    BY <1>1, <2>2
<1>3. Min(T) \in T /\ \A y \in T : Min(T) <= y
  BY <1>2, LeastNatural
<1>4. PICK i \in S : Min(T) = k - i
  BY <1>3
<1>5. \A j \in S : i >= j
  <2> SUFFICES ASSUME NEW j \in S PROVE i >= j
    OBVIOUS
  <2>1. k - i <= k - j
    BY <1>3, <1>4
  <2> QED
    BY <1>1, <2>1
<1>6. Max(S) \in S
  BY <1>5 DEF Max
<1> QED
  BY <1>1, <1>6 DEF S

LEMMA Trimmed ==
  ASSUME NEW s \in CharSeq
  PROVE  /\ TrimmedLeft(s) \in CharSeq
         /\ \E k \in Nat : k <= Len(s) /\ TrimmedRight(s) = SubSeq(s, 1, k)
<1>1. Len(s) \in Nat
  BY CharsAreCells
<1>2. TrimmedLeft(s) \in CharSeq
  <2> DEFINE x == Max(Spaces(s))
  <2>1. x \in Nat /\ x <= Len(s)
    BY <1>1, SpacesBound
  <2> HIDE DEF x
  <2>2. SubSeq(s, x + 1, Len(s)) \in Seq(Chars)
    BY <1>1, <2>1, PartOf DEF CharSeq
  <2> QED
    BY <2>2 DEF TrimmedLeft, CharSeq, x
<1>3. Len(Reverse(s)) = Len(s)
  <2> DEFINE k == Len(s)
             r == [i \in 1 .. k |-> s[k - i + 1]]
  <2>1. k \in Nat /\ \A i \in 1 .. k : s[i] \in Nat
    BY CharsAreCells
  <2>2. Reverse(s) = r
    BY DEF Reverse
  <2> HIDE DEF k
  <2>3. \A i \in 1 .. k : k - i + 1 \in 1 .. k
    BY <2>1
  <2>4. r \in [1 .. k -> Nat]
    BY <2>1, <2>3
  <2> HIDE DEF r
  <2>5. r \in Seq(Nat)
    BY <2>1, <2>4
  <2>6. Len(r) = k
    BY <2>1, <2>4, <2>5, LenProperties
  <2> QED
    BY <2>2, <2>6 DEF k
<1>4. Max(Spaces(Reverse(s))) \in 0 .. Len(s)
  BY <1>1, <1>3, SpacesBound
<1>5. Len(s) - Max(Spaces(Reverse(s))) \in Nat /\ Len(s) - Max(Spaces(Reverse(s))) <= Len(s)
  BY <1>1, <1>4
<1> QED
  BY <1>2, <1>5 DEF TrimmedRight

(* The string cut off after k characters.                                  *)
LEMMA CutHolds ==
  ASSUME StrInv, odd = {}, mem # << >>, NEW k \in Nat, k <= len, NEW v, v = SubSeq(value, 1, k)
  PROVE  v \in CharSeq /\ Len(v) = k /\ Holds(Over(mem, k, <<NUL>>), v)
<1>1. /\ mem \in MemSeq /\ value \in CharSeq /\ len = Len(value)
      /\ len \in Nat /\ Len(mem) \in Nat /\ len < Len(mem)
      /\ \A i \in 1 .. len : mem[i] = value[i]
  BY StringFacts
<1>2. v \in CharSeq /\ Len(v) = k /\ \A p \in 1 .. k : v[p] = value[p]
  BY <1>1, FrontOf DEF CharSeq
<1> DEFINE e == <<NUL>>
           o == Over(mem, k, e)
<1>3. e \in MemSeq /\ Len(e) = 1 /\ e[1] = NUL
  BY DEF NUL, MemSeq
<1> HIDE DEF e
<1>4. /\ o \in MemSeq /\ Len(o) = Len(mem)
      /\ \A j \in 1 .. Len(mem) : j <= k => o[j] = mem[j]
      /\ \A j \in 1 .. Len(e) : k + j <= Len(mem) => o[k + j] = e[j]
  BY <1>1, <1>3, OverCells
<1> HIDE DEF o
<1>5. \A i \in 1 .. k : i \in 1 .. Len(mem) /\ i <= k /\ i \in 1 .. len
  BY <1>1
<1>6. \A i \in 1 .. k : o[i] = v[i]
  BY <1>1, <1>2, <1>4, <1>5
<1>7. o[k + 1] = NUL /\ k < Len(o) /\ o # << >>
  <2>1. 1 \in 1 .. Len(e) /\ k + 1 <= Len(mem)
    BY <1>1, <1>3
  <2> QED
    BY <1>1, <1>3, <1>4, <2>1, EmptySeq DEF MemSeq
<1>8. Holds(o, v)
  BY <1>2, <1>4, <1>6, <1>7 DEF Holds
<1> QED
  BY <1>2, <1>8 DEF o, e

LEMMA StringStep ==
  ASSUME StrInv, [StrNext]_strVars
  PROVE  StrInv'
<1>1. CASE UNCHANGED strVars
  BY <1>1 DEF StrInv, Holds, strVars
<1> SUFFICES ASSUME StrNext, odd' = {} PROVE StrInv'
  BY <1>1 DEF StrInv
<1>0. odd = {}
  BY DEF StrNext
<1>2. /\ mem \in MemSeq /\ value \in CharSeq /\ len = Len(value)
      /\ len \in Nat /\ Len(mem) \in Nat /\ len <= Len(mem)
      /\ \A i \in 1 .. len : mem[i] = value[i] /\ value[i] # NUL
      /\ mem # << >> => len < Len(mem)
      /\ len > 0 => mem # << >> /\ mem[len + 1] = NUL
  BY <1>0, StringFacts
<1>3. Strings \subseteq CharSeq
  BY CStrConstants DEF CharSeq, Chars, NUL
<1>4. ASSUME NEW s \in CharSeq, AppendStr(s) PROVE StrInv'
  BY <1>0, <1>4, AppendedHolds, MemoryHolds DEF AppendStr
<1>5. ASSUME NEW s \in Strings, SetString(s) PROVE StrInv'
  BY <1>3, <1>5, ExactHolds, MemoryHolds DEF SetString
<1>6. ASSUME NEW s \in Strings, UpdateLength(s) PROVE StrInv'
  <2>1. s \in CharSeq /\ Len(s) \in Nat /\ Len(s) < Len(mem)
    BY <1>3, <1>6, CharsAreCells DEF UpdateLength, Alloc
  <2>2. << >> \in CharSeq /\ Len(<< >>) = 0 /\ << >> \o s = s
    BY <2>1, EmptyHolds, ConcatEmptySeq DEF CharSeq
  <2>3. Len(<< >>) + Len(s) < Len(mem) /\ \A i \in 1 .. Len(<< >>) : mem[i] = << >>[i]
    BY <2>1, <2>2
  <2>4. Holds(Over(mem, Len(<< >>), s \o <<NUL>>), << >> \o s)
    BY <1>2, <2>1, <2>2, <2>3, OverHolds
  <2> QED
    BY <1>6, <2>2, <2>4, MemoryHolds DEF UpdateLength
<1>7. ASSUME NEW k \in 1 .. MaxLength, Allocate(k) PROVE StrInv'
  BY <1>7, ZeroCells, EmptyHolds, MemoryHolds DEF Allocate
<1>8. ASSUME NEW i \in 1 .. MaxLength + 1, SetOwn(i) \/ AppendOwn(i) PROVE StrInv'
  <2>1. i \in Nat /\ Inside(i) /\ ~Forgotten
    BY <1>8, CStrConstants, OddStays DEF SetOwn, AppendOwn
  <2>2. CString(i) \in CharSeq /\ CString(i) = SubSeq(value, i, Len(value))
    BY <1>0, <2>1, OwnPart
  <2> DEFINE s == CString(i)
  <2>3. CASE SetOwn(i)
    <3>1. Becomes(Exact(s), Len(s), s)
      BY <2>2, <2>3 DEF SetOwn
    <3> QED
      BY <2>2, <3>1, ExactHolds, MemoryHolds
  <2>4. CASE AppendOwn(i)
    <3>1. Becomes(Appended(s), len + Len(s), value \o s)
      BY <2>2, <2>4 DEF AppendOwn
    <3> QED
      BY <1>0, <2>2, <3>1, AppendedHolds, MemoryHolds
  <2> QED
    BY <1>8, <2>3, <2>4
<1>9. ASSUME NEW i \in 1 .. MaxLength + 1, EndAt(i) PROVE StrInv'
  BY <1>9 DEF EndAt
<1>10. CASE Empty
  BY <1>10, EmptyHolds, EmptySeq, MemoryHolds DEF Empty, MemSeq
<1>11. CASE EmptyKeep
  BY <1>2, <1>11, EmptyHolds, MemoryHolds DEF EmptyKeep
<1>12. ASSUME NEW first \in 0 .. MaxLength, NEW count \in 1 .. MaxLength,
              RemoveSection(first, count)
       PROVE  StrInv'
  <2> DEFINE S == {count, len - first}
             k == Min(S)
             v == SubSeq(value, 1, first) \o SubSeq(value, first + k + 1, len)
  <2>1. /\ first < len /\ k > 0
        /\ IF k = len THEN Empty
           ELSE /\ \E m \in {Down(first, k), Mixed(first, k)} : Becomes(m, len - k, v)
                /\ Unless(len - (first + k) > k, "overlap")
    BY <1>12 DEF RemoveSection
  <2>2. first \in Nat /\ S \subseteq Nat /\ S # {}
    BY <1>2, <2>1, CStrConstants
  <2>3. k \in S /\ k <= len - first
    <3> HIDE DEF S
    <3>1. k \in S /\ \A y \in S : k <= y
      BY <2>2, LeastNatural
    <3> QED
      BY <3>1 DEF S
  <2>4. k \in Nat \ {0} /\ first + k <= len
    BY <1>2, <2>1, <2>2, <2>3
  <2> HIDE DEF k
  <2>5. CASE k = len
    BY <1>10, <2>1, <2>5
  <2>6. CASE k # len
    <3>1. PICK m \in {Down(first, k), Mixed(first, k)} : Becomes(m, len - k, v)
      BY <2>1, <2>6
    <3>2. ~(len - (first + k) > k)
      BY <2>1, <2>6, OddStays
    <3>3. k < len
      BY <1>2, <2>2, <2>4, <2>6
    <3>4. Holds(m, v) /\ len - k = Len(v)
      BY <1>0, <2>2, <2>4, <3>1, <3>2, <3>3, RemovedHolds
    <3> HIDE DEF v
    <3> QED
      BY <3>1, <3>4, MemoryHolds
  <2> QED
    BY <2>5, <2>6
<1>13. CASE EndWith(Space)
  <2>1. <<Space>> \in CharSeq
    BY DEF CharSeq, Chars, Space, NUL
  <2> QED
    BY <1>4, <1>13, <2>1 DEF EndWith
<1>14. ASSUME NEW c, ReplaceCharacters(c, Space) PROVE StrInv'
  <2> DEFINE a == [i \in DOMAIN mem |-> IF i <= len /\ mem[i] = c THEN Space ELSE mem[i]]
             b == [i \in DOMAIN value |-> IF i <= len /\ value[i] = c THEN Space ELSE value[i]]
  <2>1. Becomes(a, len, b) /\ len > 0
    BY <1>14 DEF ReplaceCharacters
  <2>2. /\ DOMAIN mem = 1 .. Len(mem) /\ (\A i \in 1 .. Len(mem) : mem[i] \in Nat)
        /\ DOMAIN value = 1 .. len /\ (\A i \in 1 .. len : value[i] \in Chars)
    BY <1>2, LenProperties, ElementOfSeq DEF MemSeq, CharSeq
  <2>3. Space \in Nat /\ Space \in Chars
    BY DEF Space, Chars, NUL
  <2>4. a \in [1 .. Len(mem) -> Nat] /\ b \in [1 .. len -> Chars]
    BY <2>2, <2>3
  <2>5. \A i \in 1 .. len : a[i] = b[i]
    <3>1. \A i \in 1 .. len : i \in 1 .. Len(mem)
      BY <1>2
    <3> QED
      BY <1>2, <2>2, <3>1
  <2>6. a[len + 1] = NUL
    <3>1. len + 1 \in 1 .. Len(mem) /\ ~(len + 1 <= len)
      BY <1>2, <2>1
    <3> QED
      BY <1>2, <2>1, <2>2, <3>1
  <2> HIDE DEF a, b
  <2>7. a \in Seq(Nat) /\ b \in Seq(Chars)
    BY <1>2, <2>4
  <2>8. Len(a) = Len(mem) /\ Len(b) = len
    BY <1>2, <2>4, <2>7, LenProperties
  <2>9. a # << >>
    BY <1>2, <2>1, <2>7, <2>8, EmptySeq
  <2>10. Holds(a, b)
    BY <1>2, <2>1, <2>5, <2>6, <2>7, <2>8, <2>9 DEF Holds, MemSeq, CharSeq
  <2> QED
    BY <2>1, <2>8, <2>10, MemoryHolds
<1>15. CASE TrimLeft
  <2>1. /\ len > 0 /\ Becomes(Exact(TrimmedLeft(CString(1))), Len(TrimmedLeft(CString(1))), TrimmedLeft(value))
    BY <1>15 DEF TrimLeft
  <2>2. CString(1) = value
    <3>1. mem # << >> /\ ~Forgotten /\ 0 <= len
      BY <1>2, <2>1 DEF Forgotten
    <3>2. CString(0 + 1) = SubSeq(value, 0 + 1, len)
      BY <1>0, <3>1, CStringOf
    <3>3. 0 + 1 = 1 /\ SubSeq(value, 1, len) = value
      BY <1>2, SubSeqFull DEF CharSeq
    <3> QED
      BY <3>2, <3>3
  <2>3. TrimmedLeft(value) \in CharSeq
    BY <1>2, Trimmed
  <2> QED
    BY <2>1, <2>2, <2>3, ExactHolds, MemoryHolds
<1>16. CASE TrimRight
  <2> DEFINE s == TrimmedRight(Text)
  <2>1. /\ len > 1 /\ mem # << >>
        /\ IF s = << >> THEN Empty
           ELSE Becomes(Over(mem, Len(s), <<NUL>>), Len(s), TrimmedRight(value))
    BY <1>2, <1>16 DEF TrimRight
  <2>2. s = TrimmedRight(value)
    BY <1>0, TextIsValue
  <2>3. PICK k \in Nat : k <= len /\ s = SubSeq(value, 1, k)
    BY <1>2, <2>2, Trimmed
  <2> HIDE DEF s
  <2>4. s \in CharSeq /\ Len(s) = k /\ Holds(Over(mem, k, <<NUL>>), s)
    BY <1>0, <2>1, <2>3, CutHolds
  <2>5. CASE s = << >>
    BY <1>10, <2>1, <2>5
  <2>6. CASE s # << >>
    <3>1. Becomes(Over(mem, k, <<NUL>>), Len(s), s)
      BY <2>1, <2>2, <2>4, <2>6
    <3> QED
      BY <2>4, <3>1, MemoryHolds
  <2> QED
    BY <2>5, <2>6
<1> QED
  BY <1>3, <1>4, <1>5, <1>6, <1>7, <1>8, <1>9, <1>10, <1>11, <1>12, <1>13, <1>14, <1>15, <1>16
    DEF StrNext

LEMMA StrInvKept == StrInv => StringKept
<1> SUFFICES ASSUME StrInv, odd = {}
             PROVE  /\ len = Len(value) /\ Text = value
                    /\ mem # << >> /\ ~Forgotten => NULs(1) # {} /\ CString(1) = value
  BY DEF StringKept
<1>1. len = Len(value) /\ value \in CharSeq /\ len \in Nat
  BY StringFacts
<1>2. Text = value
  BY TextIsValue
<1>3. ASSUME mem # << >>, ~Forgotten PROVE NULs(1) # {} /\ CString(1) = value
  <2>1. 0 <= len
    BY <1>1
  <2>2. NULs(0 + 1) # {} /\ CString(0 + 1) = SubSeq(value, 0 + 1, len)
    BY <1>3, <2>1, CStringOf
  <2>3. 0 + 1 = 1 /\ SubSeq(value, 1, len) = value
    BY <1>1, SubSeqFull DEF CharSeq
  <2> QED
    BY <2>2, <2>3
<1> QED
  BY <1>1, <1>2, <1>3

(* Through any sequence of calls, whatever is assigned, appended, cut off  *)
(* or replaced, a CStr keeps the string that was meant, its length, and a  *)
(* NUL behind it.                                                          *)
THEOREM StringNeverLost == Spec => []StringKept
<1>1. Init => StrInv
  BY StringInit DEF Init
<1>2. StrInv /\ [Next]_vars => StrInv'
  BY StringStep DEF Next, vars, PacketStep, FileStep, LineStep, FrameStep, StrStep
<1>3. StrInv => StringKept
  BY StrInvKept
<1> QED
  BY <1>1, <1>2, <1>3, PTL DEF Spec
=============================================================================
