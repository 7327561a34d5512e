------------------------------ MODULE WebSocket ------------------------------
(***************************************************************************)
(* WebSocketInstance after the handshake (websocketinstance.cpp): frames   *)
(* of a client arrive in pieces and become packets, strings become frames. *)
(* A byte is a pair: the number of its frame and its place in that frame.  *)
(***************************************************************************)
EXTENDS Naturals, Sequences

CONSTANTS
  Lengths,     \* payloads
  MaxShort,    \* the longest that needs no length field of its own, 125
  Unsigned,    \* 2^16: what unsigned16 and a length field cannot hold
  FrameBuf,    \* m_nBufferSizeMax
  MaxFrames    \* bound: frames in each direction

ASSUME WebSocketConstants ==
  /\ Lengths \subseteq Nat /\ MaxShort \in Nat
  /\ Unsigned \in Nat \ {0} /\ FrameBuf \in Nat

VARIABLES
  frames,    \* what the client sent
  inAir,     \* the bytes of it that were not read
  inBuf,     \* m_pInBuff, m_nBytesIn of it
  reading,   \* "recv", "extract", or how the connection ended
  handed,    \* the payloads of the packets that were extracted
  wrapped,   \* whether one was extracted whose size does not fit unsigned16
  outBuf,    \* m_pOutBuff: frames as a client takes them apart
  strings,   \* the strings and control frames sent, as their lengths
  heard      \* those the client was sent

frameVars == <<frames, inAir, inBuf, reading, handed, wrapped, outBuf, strings, heard>>

Unsupported == Unsigned    \* a payload that needs eight bytes of length
Unknown == <<0, 0>>        \* memory that nothing was written to

Header(len) == IF len <= MaxShort THEN 2 ELSE 4
Behind(f) == Header(f.len) + IF f.masked THEN 4 ELSE 0
Total(f) == Behind(f) + f.len

FrameInit ==
  /\ frames = << >> /\ inAir = << >> /\ inBuf = << >> /\ reading = "recv"
  /\ handed = << >> /\ wrapped = FALSE
  /\ outBuf = << >> /\ strings = << >> /\ heard = << >>

Frame(len, masked) == [len |-> len, masked |-> masked]
Bytes(i, f) == [j \in 1 .. Total(f) |-> <<i, j>>]

ClientSends(f) ==
  /\ Len(frames) < MaxFrames
  /\ frames' = Append(frames, f)
  /\ inAir' = inAir \o Bytes(Len(frames) + 1, f)
  /\ UNCHANGED <<inBuf, reading, handed, wrapped, outBuf, strings, heard>>

(* readData(): with no room left recv() reads nothing, which it takes for  *)
(* the end of the connection.                                              *)
ReadData ==
  /\ reading = "recv"
  /\ IF Len(inBuf) = FrameBuf
       THEN reading' = "closed" /\ UNCHANGED <<inAir, inBuf>>
       ELSE \E k \in 1 .. Len(inAir) :
              /\ Len(inBuf) + k <= FrameBuf
              /\ inBuf' = inBuf \o SubSeq(inAir, 1, k)
              /\ inAir' = SubSeq(inAir, k + 1, Len(inAir))
              /\ reading' = "extract"
  /\ UNCHANGED <<frames, handed, wrapped, outBuf, strings, heard>>

(* The frame whose first byte is first in the buffer.                      *)
InStep == inBuf # << >> /\ inBuf[1][2] = 1
This == frames[inBuf[1][1]]

(* Slip: the mask is not counted.                                          *)
ExpectedNoMask(f) == (Header(f.len) + f.len) % Unsigned

ExpectedBytesIn(f) == Total(f) % Unsigned

HeaderRead == Len(inBuf) >= 2 /\ (This.len > MaxShort => Len(inBuf) >= 4)

(* The payload is copied only while it is unmasked.                        *)
Payload(f) == [j \in 1 .. f.len |->
                 IF f.masked /\ Behind(f) + j <= Len(inBuf) THEN inBuf[Behind(f) + j] ELSE Unknown]

TooLong ==
  /\ reading = "extract" /\ InStep /\ Len(inBuf) >= 2 /\ This.len = Unsupported
  /\ reading' = "unsupported"
  /\ UNCHANGED <<frames, inAir, inBuf, handed, wrapped, outBuf, strings, heard>>

(* What follows a frame whose size wrapped is not modelled.                *)
Extract ==
  /\ ~wrapped
  /\ reading = "extract" /\ InStep /\ HeaderRead /\ This.len # Unsupported
  /\ Len(inBuf) >= ExpectedBytesIn(This)
  /\ handed' = Append(handed, Payload(This))
  /\ inBuf' = SubSeq(inBuf, ExpectedBytesIn(This) + 1, Len(inBuf))
  /\ wrapped' = (Total(This) >= Unsigned)
  /\ UNCHANGED <<frames, inAir, reading, outBuf, strings, heard>>

(* Nothing to extract, or not all of it has come.                          *)
Incomplete ==
  /\ reading = "extract"
  /\ \/ inBuf = << >>
     \/ InStep /\ ~HeaderRead /\ (Len(inBuf) < 2 \/ This.len # Unsupported)
     \/ InStep /\ HeaderRead /\ This.len # Unsupported /\ Len(inBuf) < ExpectedBytesIn(This)
  /\ reading' = "recv"
  /\ UNCHANGED <<frames, inAir, inBuf, handed, wrapped, outBuf, strings, heard>>

-----------------------------------------------------------------------------
(* addPacketBuffer() refuses what needs eight bytes of length; it does not *)
(* look at the room left, which the caller has to know is there.           *)

Added == Bytes(Len(strings) + 1, Frame(strings'[Len(strings')], FALSE))

AddPacketBuffer(len) ==
  /\ len < Unsigned /\ Len(strings) < MaxFrames
  /\ Len(outBuf) + Total(Frame(len, FALSE)) <= FrameBuf
  /\ strings' = Append(strings, len)
  /\ outBuf' = outBuf \o Added
  /\ UNCHANGED <<frames, inAir, inBuf, reading, handed, wrapped, heard>>

(* sendBuffer(): what send() did not take is moved to the front.           *)
SendBuffer ==
  /\ outBuf # << >>
  /\ \E k \in 0 .. Len(outBuf) :
       /\ heard' = heard \o SubSeq(outBuf, 1, k)
       /\ outBuf' = SubSeq(outBuf, k + 1, Len(outBuf))
  /\ UNCHANGED <<frames, inAir, inBuf, reading, handed, wrapped, strings>>

(* closeFrame(), ping() and pong(): a header, and sendBuffer().            *)
ControlFrame ==
  /\ Len(strings) < MaxFrames /\ Len(outBuf) + 2 <= FrameBuf
  /\ strings' = Append(strings, 0)
  /\ \E k \in 0 .. Len(outBuf) + 2 :
       /\ heard' = heard \o SubSeq(outBuf \o Added, 1, k)
       /\ outBuf' = SubSeq(outBuf \o Added, k + 1, Len(outBuf) + 2)
  /\ UNCHANGED <<frames, inAir, inBuf, reading, handed, wrapped>>

(* The two directions share no state.                                      *)
FrameNext ==
  \/ (\E len \in Lengths \cup {Unsupported}, masked \in BOOLEAN : ClientSends(Frame(len, masked)))
  \/ ReadData \/ TooLong \/ Extract \/ Incomplete

StringNext ==
  \/ (\E len \in Lengths : AddPacketBuffer(len))
  \/ SendBuffer \/ ControlFrame

-----------------------------------------------------------------------------
(* The bytes s are those of the frames fs from number first on: each frame *)
(* whole and in one piece, the next one behind it, nothing else.           *)
FromFrame(s, first, fs) ==
  /\ IF s = << >> THEN first = Len(fs) + 1 ELSE s[1] = <<first, 1>>
  /\ \A p \in DOMAIN s :
       LET i   == s[p][1]
           j   == s[p][2]
           end == p - j + Total(fs[i])
       IN /\ i \in first .. Len(fs) /\ j \in 1 .. Total(fs[i])
          /\ j <= p /\ end <= Len(s)
          /\ \A q \in 1 .. Total(fs[i]) : s[p - j + q] = <<i, q>>
          /\ IF end = Len(s) THEN i = Len(fs) ELSE s[end + 1] = <<i + 1, 1>>

(* However frames are cut, each packet has the payload of the next frame,  *)
(* whole, and the buffer goes on where that frame ended, until one comes   *)
(* whose size does not fit expectedBytesIn; only the payloads of unmasked  *)
(* frames, which the protocol forbids clients to send, are lost.  What the *)
(* client is sent are the frames of the strings, none inside another.      *)
FramesWhole ==
  /\ ~wrapped =>
       /\ \A i \in DOMAIN handed :
            /\ Len(handed[i]) = frames[i].len
            /\ frames[i].masked =>
                 handed[i] = SubSeq(Bytes(i, frames[i]), Behind(frames[i]) + 1, Total(frames[i]))
       /\ FromFrame(inBuf \o inAir, Len(handed) + 1, frames)
  /\ FromFrame(heard \o outBuf, 1, [i \in DOMAIN strings |-> Frame(strings[i], FALSE)])
=============================================================================
