---------------------------- MODULE ServerSocket ----------------------------
(***************************************************************************)
(* The two byte buffers of a ServerSocket (serversocket.cpp): the input    *)
(* buffer readData() fills and extractPacket() cuts packets from, and the  *)
(* output buffer sendPacket() appends to and sendBuffer() drains.          *)
(*                                                                         *)
(* Of a packet only the payload size matters here; on the wire it is a     *)
(* header of HeaderSize bytes, which holds that size, and the payload.  So *)
(* the peer's packets are kept as the places where they end.               *)
(* The pointers m_pInPtr and m_pOutPtr are offsets into their buffers.     *)
(* Sizes are unsigned32: arithmetic on them wraps at Unsigned.             *)
(***************************************************************************)
EXTENDS Naturals, Sequences

CONSTANTS
  HeaderSize,   \* PacketBuffer::getHeaderSize(): 8 bytes
  BufferMax,    \* m_nBufferSizeMax: 8000 for the servers' clients
  Unsigned,     \* 2^32, the range of unsigned32
  PeerSizes,    \* payload sizes the peer's headers declare
  AppSizes,     \* payload sizes of the packets the application sends, which
                \* it has in memory: nowhere near 2^32
  MaxIn,        \* bound: packets the peer sends
  MaxOut        \* bound: packets the application sends

ASSUME SocketConstants ==
  /\ HeaderSize \in Nat \ {0} /\ BufferMax \in Nat /\ Unsigned \in Nat
  /\ BufferMax + HeaderSize < Unsigned
  /\ PeerSizes \subseteq 0 .. Unsigned - 1
  /\ AppSizes \subseteq 0 .. Unsigned - 1
  /\ \A n \in AppSizes : n + BufferMax + HeaderSize < Unsigned
  /\ MaxIn \in Nat /\ MaxOut \in Nat

VARIABLES
  pc,         \* "ready", "extract" (the loop around extractPacket), "closed"
  bytesIn,    \* m_nBytesIn
  inPtr,      \* m_pInPtr
  ends,       \* where each packet that the peer sent and no one extracted
              \* ends, counted in bytes from m_pInBuff
  inFlight,   \* bytes of these packets that the kernel holds
  fin,        \* the peer closed its end
  received,   \* packets handed out by extractPacket()
  bytesOut,   \* m_nBytesOut
  outPtr,     \* m_pOutPtr
  owed,       \* bytes of all the packets accepted for sending
  written,    \* bytes of them given to the kernel
  accepted    \* packets accepted for sending

inVars     == <<bytesIn, inPtr, ends, inFlight, fin, received>>
outVars    == <<bytesOut, outPtr, owed, written, accepted>>
socketVars == <<pc, inVars, outVars>>

PacketSize(n) == n + HeaderSize
RoomWhenEmpty == BufferMax   \* slip: the bytes held are not counted
Room == BufferMax - bytesIn
StreamEnd == IF ends = << >> THEN 0 ELSE ends[Len(ends)]

SocketInit ==
  /\ pc = "ready"
  /\ bytesIn = 0 /\ inPtr = 0
  /\ ends = << >> /\ inFlight = 0 /\ fin = FALSE /\ received = 0
  /\ bytesOut = 0 /\ outPtr = 0 /\ owed = 0 /\ written = 0 /\ accepted = 0

-----------------------------------------------------------------------------
(* The peer.                                                               *)

PeerSends(n) ==
  /\ ~fin /\ received + Len(ends) < MaxIn
  /\ ends' = Append(ends, StreamEnd + PacketSize(n))
  /\ inFlight' = inFlight + PacketSize(n)
  /\ UNCHANGED <<pc, bytesIn, inPtr, fin, received, outVars>>

PeerCloses ==
  /\ ~fin
  /\ fin' = TRUE
  /\ UNCHANGED <<pc, bytesIn, inPtr, ends, inFlight, received, outVars>>

-----------------------------------------------------------------------------
(* The server: readData(), then extractPacket() until it returns NULL.     *)

ReadData(k) ==
  /\ pc = "ready" /\ k \in 1 .. inFlight /\ k <= Room
  /\ bytesIn' = bytesIn + k
  /\ inPtr' = inPtr + k
  /\ inFlight' = inFlight - k
  /\ pc' = "extract"
  /\ UNCHANGED <<ends, fin, received, outVars>>

(* recv() of zero bytes, because the peer closed or because the buffer has *)
(* no room left, is the exception "Connection closed".                     *)
ReadFails ==
  /\ pc = "ready"
  /\ \/ inFlight = 0 /\ fin
     \/ inFlight > 0 /\ Room = 0
  /\ pc' = "closed"
  /\ UNCHANGED <<inVars, outVars>>

HeaderHere == bytesIn >= HeaderSize
HeadSize == ends[1] - HeaderSize      \* what the header at m_pInBuff says
SizeInvalid == HeadSize > BufferMax \/ HeadSize >= Unsigned - 1 - HeaderSize
(* Slip: a packet waits for the next byte.                                 *)
PacketPassed == bytesIn > PacketSize(HeadSize)
PacketHere == bytesIn >= PacketSize(HeadSize)

ExtractNone ==
  /\ pc = "extract"
  /\ HeaderHere => ~SizeInvalid /\ ~PacketHere
  /\ pc' = "ready"
  /\ UNCHANGED <<inVars, outVars>>

ExtractInvalid ==
  /\ pc = "extract" /\ HeaderHere /\ SizeInvalid
  /\ pc' = "closed"
  /\ UNCHANGED <<inVars, outVars>>

(* Slip: what follows the packet is not moved to the front but forgotten.  *)
ExtractAndForget ==
  /\ pc = "extract" /\ HeaderHere /\ ~SizeInvalid /\ PacketHere
  /\ bytesIn' = 0 /\ inPtr' = 0
  /\ ends' = [i \in 1 .. Len(ends) - 1 |-> ends[i + 1] - ends[1]]
  /\ received' = received + 1
  /\ UNCHANGED <<pc, inFlight, fin, outVars>>

(* One packet out; what follows it is moved to the front of the buffer.    *)
ExtractPacket ==
  /\ pc = "extract" /\ HeaderHere /\ ~SizeInvalid /\ PacketHere
  /\ bytesIn' = bytesIn - PacketSize(HeadSize)
  /\ inPtr' = bytesIn'
  /\ ends' = [i \in 1 .. Len(ends) - 1 |-> ends[i + 1] - ends[1]]
  /\ received' = received + 1
  /\ UNCHANGED <<pc, inFlight, fin, outVars>>

-----------------------------------------------------------------------------
(* sendPacket(): refused with an exception, and without a trace, if the    *)
(* payload -- the header is not counted -- does not fit.                   *)

FitsAlone(n) == n <= BufferMax   \* slip: what waits already is not counted
Fits(n) == (n + bytesOut) % Unsigned <= BufferMax

(* Slip: the buffer is not rotated after a partial send.                   *)
SendUnrotated(have, ptr) ==
  \/ /\ bytesOut' = 0 /\ outPtr' = 0
     /\ written' = written + have
     /\ UNCHANGED pc
  \/ \E k \in 1 .. have - 1 :
       /\ bytesOut' = have /\ outPtr' = ptr - k
       /\ written' = written + k
       /\ UNCHANGED pc

(* sendBuffer(): send() takes all of the first have bytes and the buffer   *)
(* is reset, or it takes some of them and the rest moves to the front.     *)
SendBuffer(have, ptr) ==
  \/ /\ bytesOut' = 0 /\ outPtr' = 0
     /\ written' = written + have
     /\ UNCHANGED pc
  \/ \E k \in 1 .. have - 1 :
       /\ bytesOut' = have - k /\ outPtr' = ptr - k
       /\ written' = written + k
       /\ UNCHANGED pc
  \/ /\ bytesOut' = have /\ outPtr' = ptr        \* send() throws
     /\ pc' = "closed"
     /\ UNCHANGED written

SendPacket(n) ==
  /\ pc = "ready" /\ accepted < MaxOut /\ Fits(n)
  /\ accepted' = accepted + 1
  /\ owed' = owed + PacketSize(n)
  /\ SendBuffer(bytesOut + PacketSize(n), outPtr + PacketSize(n))
  /\ UNCHANGED inVars

(* A packet without a buffer, such as one received without payload and     *)
(* passed on: addPacketBuffer() writes the header and moves m_pOutPtr, and *)
(* then getBuffer() throws.                                                *)
SendNoBuffer ==
  /\ pc = "ready" /\ accepted < MaxOut /\ Fits(0)
  /\ accepted' = accepted + 1
  /\ outPtr' = outPtr + HeaderSize
  /\ UNCHANGED <<pc, bytesOut, owed, written, inVars>>

(* sendBuffer() from the server's scan.                                    *)
Flush ==
  /\ pc = "ready" /\ bytesOut > 0
  /\ SendBuffer(bytesOut, outPtr)
  /\ UNCHANGED <<owed, accepted, inVars>>

Extract == ExtractNone \/ ExtractInvalid \/ ExtractPacket
Receive == (\E k \in 1 .. BufferMax : ReadData(k)) \/ ReadFails \/ Extract

SocketNext ==
  \/ \E n \in PeerSizes : PeerSends(n)
  \/ PeerCloses
  \/ Receive
  \/ \E n \in AppSizes : SendPacket(n)
  \/ SendNoBuffer
  \/ Flush

SocketSpec == SocketInit /\ [][SocketNext]_socketVars

(* A readable socket is read: SimpleServer!Served.                         *)
FairSocketSpec == SocketSpec /\ WF_socketVars(Receive)

-----------------------------------------------------------------------------
(* The type invariant.                                                     *)
TypeOK ==
  /\ pc \in {"ready", "extract", "closed"}
  /\ bytesIn \in Nat /\ inPtr \in Nat
  /\ ends \in Seq(Nat)
  /\ inFlight \in Nat /\ fin \in BOOLEAN /\ received \in Nat
  /\ bytesOut \in Nat /\ outPtr \in Nat
  /\ owed \in Nat /\ written \in Nat /\ accepted \in Nat

(* readData() never writes past the end of the input buffer, and writes at *)
(* the end of the bytes it holds.                                          *)
InBufferSafe == bytesIn <= BufferMax /\ inPtr = bytesIn

(* The input buffer always begins at a packet boundary: the bytes held     *)
(* here and in the kernel are exactly those of the packets not yet handed  *)
(* out, so no packet is ever read from the middle of another.              *)
FramingKept == bytesIn + inFlight = StreamEnd

(* The input buffer only fills up behind a packet that can never fit with  *)
(* its header; every other packet is extracted before that.                *)
FullOnlyBehindOversize ==
  pc = "ready" /\ Room = 0 =>
    BufferMax < HeaderSize \/ ends[1] > BufferMax

(* sendPacket() does not count the header, so the output buffer may be     *)
(* overrun, but by no more than that one header.                           *)
OverrunBounded == bytesOut <= BufferMax + HeaderSize

(* Every byte of every accepted packet is either written or still waiting. *)
OutputConserved == owed = written + bytesOut

(* m_pOutPtr, the "pointer to first free byte in outgoing buffer"          *)
(* (serversocket.h), is ahead of the end of the waiting bytes by whole     *)
(* headers, those of the packets that had no buffer, and never behind it.  *)
OutPtrDriftsByHeaders ==
  \E d \in 0 .. accepted : outPtr = bytesOut + d * HeaderSize

(* A packet that extractPacket() does not reject and that has arrived is   *)
(* handed out, or the connection is given up.                              *)
PacketsExtracted ==
  \A i \in 1 .. MaxIn :
    (received + Len(ends) >= i) ~> (received >= i \/ pc = "closed")
=============================================================================
