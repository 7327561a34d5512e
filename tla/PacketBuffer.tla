---------------------------- MODULE PacketBuffer ----------------------------
(***************************************************************************)
(* A PacketBuffer (packetbuffer.cpp) as its owner uses it.  A packet is a  *)
(* record: the units its memory holds, how many the constructor was told,  *)
(* the index m_pPointer points at, m_nBufferSize and m_bNetworkReady.  The *)
(* operators << and append() differ in the number of units they write and  *)
(* the operators >> in the number they read; a number is one value.        *)
(***************************************************************************)
EXTENDS Naturals, Sequences

CONSTANTS
  Sizes,       \* how many units packets are constructed with or resized to
  Widths,      \* how many units an operator reads or writes
  HeaderSize   \* PacketBuffer::getHeaderSize()

ASSUME PacketBufferConstants ==
  Sizes \subseteq Nat /\ Widths \subseteq Nat \ {0} /\ HeaderSize \in Nat

VARIABLES
  pkt,       \* the packet
  outside,   \* whether memory outside of its buffer was read or written
  careless   \* which ways to do so its owner has taken

pktVars == <<pkt, outside, careless>>

Junk == 0
Big  == 100    \* a size in the other byte order; no size reaches it

ASSUME SizesSmall == \A n \in Sizes \cup {HeaderSize} : n < Big

(* htonl() and ntohl() of a size: zero stays, others become too large.     *)
Swap(n) == IF n < Big THEN n * Big ELSE n \div Big

New(n) == [data |-> [i \in 1 .. n |-> Junk], max |-> n, ptr |-> 0, size |-> 0,
           net |-> FALSE]

Cap(p) == Len(p.data)

Reset(p) == [p EXCEPT !.ptr = 0, !.size = 0, !.net = FALSE]

(* Slip: one too many.                                                     *)
RoomAndOne(p, n) == p.size + n <= p.max + 1

Room(p, n) == p.size + n <= p.max

(* Operator << and append(): what is behind the data is forgotten.         *)
Put(p, s) ==
  [p EXCEPT !.data = [i \in DOMAIN @ |-> IF i \in p.ptr + 1 .. p.ptr + Len(s)
                                           THEN s[i - p.ptr] ELSE @[i]],
            !.ptr = @ + Len(s), !.size = p.ptr + Len(s)]

Take(p, n) == SubSeq(p.data, p.ptr + 1, p.ptr + n)
Skip(p, n) == [p EXCEPT !.ptr = @ + n]

MakeNetworkReady(p) == IF p.net THEN p ELSE [p EXCEPT !.net = TRUE, !.size = Swap(@)]
HostSize(p) == IF p.net THEN Swap(p.size) ELSE p.size

(* BufferedSocket::recvPacket(): a new packet of just the size received.   *)
Received(s) == [New(Len(s)) EXCEPT !.data = s, !.size = Len(s)]

Least(m, n) == IF m < n THEN m ELSE n
Kept(p, n, k) == [i \in 1 .. n |-> IF i <= Least(k, Cap(p)) THEN p.data[i] ELSE Junk]

Resize(p, n) == [p EXCEPT !.data = Kept(p, n, Least(n, p.max)), !.ptr = HeaderSize]

(* The copy constructor's pointer is behind the data, and its header is in *)
(* host order; operator= keeps both.                                       *)
CopyOf(p) == [p EXCEPT !.data = Kept(p, p.max, p.size), !.ptr = p.size, !.net = FALSE]
Assigned(p) == [p EXCEPT !.data = Kept(p, p.max, p.size)]

-----------------------------------------------------------------------------
(* One action per operation.  An owner is careless who reads more than the *)
(* packet holds, resizes it, or uses a packet that was sent without        *)
(* calling reset(): its size is in network order.                          *)

Step(p, touches, ways) ==
  /\ pkt' = p
  /\ outside' = touches
  /\ careless' = careless \cup ways

Reuse == IF pkt.net THEN {"reused"} ELSE {}

PacketInit ==
  /\ \E n \in Sizes : pkt = New(n)
  /\ outside = FALSE /\ careless = {}

Construct == \E n \in Sizes : pkt' = New(n) /\ careless' = {} /\ UNCHANGED outside

InsertValue(w) ==
  /\ Room(pkt, w)
  /\ Step(Put(pkt, [i \in 1 .. w |-> Junk]), pkt.ptr + w > Cap(pkt), Reuse)

ExtractValue(w) ==
  Step(Skip(pkt, w), pkt.ptr + w > Cap(pkt),
       IF pkt.ptr + w > HostSize(pkt) THEN {"read past"} ELSE {})

Rewind == Step([pkt EXCEPT !.ptr = 0], FALSE, {})
ResetIt == Step(Reset(pkt), FALSE, {})

(* min(nNewSize, getBufferSizeMax()) units are copied from the old memory. *)
ResizeBuffer(n) ==
  /\ n > 0
  /\ Step(Resize(pkt, n), Least(n, pkt.max) > Cap(pkt), {"resized"})

Copy   == Step(CopyOf(pkt), pkt.size > Least(Cap(pkt), pkt.max), Reuse)
Assign == Step(Assigned(pkt), pkt.size > Least(Cap(pkt), pkt.max), Reuse)

(* BufferedSocket::sendPacket() reads the size before it swaps it.         *)
SendPacket == Step(MakeNetworkReady(pkt), pkt.size > Cap(pkt), Reuse)

RecvPacket ==
  \E n \in Sizes : Step(Received([i \in 1 .. n |-> Junk]), FALSE, {})

PacketNext ==
  /\ ~outside
  /\ \/ Construct \/ Rewind \/ ResetIt \/ Copy \/ Assign \/ SendPacket \/ RecvPacket
     \/ (\E w \in Widths : InsertValue(w) \/ ExtractValue(w))
     \/ (\E n \in Sizes : ResizeBuffer(n))

-----------------------------------------------------------------------------
(* Memory outside of the buffer is touched only after the owner was        *)
(* careless: what << writes, what a copy or a send reads, stays inside in  *)
(* every other sequence of calls, rewinding and reading back included.     *)
InBounds == outside => careless # {}
=============================================================================
