------------------------------- MODULE Codecs -------------------------------
(***************************************************************************)
(* The parts that turn bytes into values and back, each driven by its own  *)
(* callers: a packet, files over a connection, lines, WebSocket frames in  *)
(* each direction, a string.  They share no state; `part` names the one a  *)
(* behaviour is about.                                                     *)
(***************************************************************************)
EXTENDS NetFile, LineReader, WebSocket, CStr

VARIABLE part

vars == <<part, pktVars, netVars, lineVars, frameVars, strVars>>

Init ==
  /\ part \in {"packet", "file", "lines", "frames", "sent frames", "string"}
  /\ PacketInit /\ FileInit /\ LineInit /\ FrameInit /\ StrInit
  /\ part # "packet" => pkt = New(HeaderSize)
  /\ part # "lines" => kind = "http"

PacketStep == part = "packet" /\ PacketNext /\ UNCHANGED <<part, netVars, lineVars, frameVars, strVars>>
FileStep   == part = "file"   /\ FileNext   /\ UNCHANGED <<part, pktVars, lineVars, frameVars, strVars>>
LineStep   == part = "lines"  /\ LineNext   /\ UNCHANGED <<part, pktVars, netVars, frameVars, strVars>>
FrameStep  == /\ \/ part = "frames" /\ FrameNext
                 \/ part = "sent frames" /\ StringNext
              /\ UNCHANGED <<part, pktVars, netVars, lineVars, strVars>>
StrStep    == part = "string" /\ StrNext /\ UNCHANGED <<part, pktVars, netVars, lineVars, frameVars>>

Next == PacketStep \/ FileStep \/ LineStep \/ FrameStep \/ StrStep

Spec == Init /\ [][Next]_vars
=============================================================================
