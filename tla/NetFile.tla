------------------------------- MODULE NetFile -------------------------------
(***************************************************************************)
(* NetFile: a file sent as a start packet, data packets of at most Chunk   *)
(* units behind their number, and an end packet, over a connection that    *)
(* other packets use too.  The packets are those of PacketBuffer.          *)
(***************************************************************************)
EXTENDS PacketBuffer

CONSTANTS
  Files,     \* the files that are sent: sequences of units
  Chunk,     \* nMaxSize, 128
  MaxStray   \* bound: other packets sent meanwhile

ASSUME NetFileConstants ==
  Files \subseteq Seq(Nat) /\ Chunk \in Nat \ {0} /\ MaxStray \in Nat

VARIABLES
  transmit,  \* of each file: "before", "on" or "over"
  rest,      \* what of each file has not been sent
  packets,   \* the connection: commands with their data
  stray,     \* other packets sent
  mixed,     \* whether a transmit() began or went on within another's
  filling,   \* whether a receive() has had its start packet
  file,      \* what it has of the file
  expects,   \* m_nFileSize of that file
  received   \* what each receive() that returned left

netVars == <<transmit, rest, packets, stray, mixed, filling, file, expects, received>>
senderVars == <<transmit, rest, stray, mixed>>
receiverVars == <<filling, file, expects, received>>

Packet(cmd, s) == [cmd |-> cmd, data |-> s]
Sending(f) == transmit[f] = "on"

FileInit ==
  /\ transmit = [f \in Files |-> "before"] /\ rest = [f \in Files |-> f]
  /\ packets = << >> /\ stray = 0 /\ mixed = FALSE
  /\ filling = FALSE /\ file = << >> /\ expects = 0 /\ received = << >>

Transmits(f) == mixed' = (mixed \/ \E g \in Files \ {f} : Sending(g))

SendStart(f) ==
  /\ transmit[f] = "before" /\ Transmits(f)
  /\ packets' = Append(packets, Packet("start", <<Len(f)>>))
  /\ transmit' = [transmit EXCEPT ![f] = "on"]
  /\ UNCHANGED <<rest, stray, receiverVars>>

(* packetData is filled again after every reset(): the number goes first.  *)
DataPacket == New(Chunk + 1)
Filled(s) == Put(Put(Reset(Put(DataPacket, <<Chunk>>)), <<Len(s)>>), s)

SendChunk(f) ==
  /\ Sending(f) /\ rest[f] # << >> /\ Transmits(f)
  /\ LET n == Least(Len(rest[f]), Chunk)
         p == Filled(SubSeq(rest[f], 1, n))
     IN /\ packets' = Append(packets, Packet("data", SubSeq(p.data, 1, p.size)))
        /\ rest' = [rest EXCEPT ![f] = SubSeq(@, n + 1, Len(@))]
  /\ UNCHANGED <<transmit, stray, receiverVars>>

SendEnd(f) ==
  /\ Sending(f) /\ rest[f] = << >> /\ Transmits(f)
  /\ packets' = Append(packets, Packet("end", << >>))
  /\ transmit' = [transmit EXCEPT ![f] = "over"]
  /\ UNCHANGED <<rest, stray, receiverVars>>

SendStray ==
  /\ stray < MaxStray
  /\ stray' = stray + 1
  /\ packets' = Append(packets, Packet("other", << >>))
  /\ UNCHANGED <<transmit, rest, mixed, receiverVars>>

Arrives == packets # << >>
First == Received(Head(packets).data)

Starts ==
  /\ ~filling /\ Arrives /\ Head(packets).cmd = "start"
  /\ filling' = TRUE /\ expects' = Take(First, 1)[1]
  /\ packets' = Tail(packets)
  /\ UNCHANGED <<senderVars, file, received>>

TooMuch == Len(file) + Take(First, 1)[1] > expects

(* Slip: any packet but the start of another file may be data.             *)
InSequenceButStart(cmd) == cmd \notin {"start"}
InSequence(cmd) == cmd \in {"data", "end"}

(* An exception: receive() ends, and the next one begins with what follows.*)
Rejects ==
  /\ Arrives
  /\ IF ~filling THEN Head(packets).cmd # "start"
     ELSE \/ ~InSequence(Head(packets).cmd)
          \/ Head(packets).cmd = "data" /\ TooMuch
  /\ filling' = FALSE /\ file' = << >> /\ expects' = 0
  /\ packets' = Tail(packets)
  /\ UNCHANGED <<senderVars, received>>

ReceivesData ==
  /\ filling /\ Arrives /\ Head(packets).cmd = "data" /\ ~TooMuch
  /\ file' = file \o Take(Skip(First, 1), Take(First, 1)[1])
  /\ packets' = Tail(packets)
  /\ UNCHANGED <<senderVars, filling, expects, received>>

(* Whether as much as expected came is not looked at.                      *)
Returns ==
  /\ filling /\ Arrives
  /\ InSequence(Head(packets).cmd) /\ Head(packets).cmd # "data"
  /\ received' = Append(received, file)
  /\ filling' = FALSE /\ file' = << >> /\ expects' = 0
  /\ packets' = Tail(packets)
  /\ UNCHANGED senderVars

FileNext ==
  \/ (\E f \in Files : SendStart(f) \/ SendChunk(f) \/ SendEnd(f))
  \/ SendStray \/ Starts \/ Rejects \/ ReceivesData \/ Returns

-----------------------------------------------------------------------------
(* A receive() that returns has one of the files that were sent, whole,    *)
(* none twice, also after receive()s that ended with an exception in the   *)
(* middle of a file, unless two transmit()s shared the connection.         *)
FilesWhole ==
  ~mixed => \A i \in DOMAIN received :
              /\ received[i] \in Files /\ transmit[received[i]] = "over"
              /\ \A j \in DOMAIN received : received[i] = received[j] => i = j
=============================================================================
