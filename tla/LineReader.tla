----------------------------- MODULE LineReader -----------------------------
(***************************************************************************)
(* The three readers of lines: TelnetSocket::readLine(), HttpBlocking-     *)
(* Socket::readHttpHeaderLine() (socketinstance.cpp) and TelnetConnector:: *)
(* readLine() (telnetconnector.cpp).  Each keeps what it has received in a *)
(* buffer, of which the first n cells are in use; the others still hold    *)
(* what was there before.  The peer ends every line with CR and LF, and    *)
(* TCP may cut what it says anywhere.                                      *)
(***************************************************************************)
EXTENDS Naturals, Sequences, FiniteSetsExt

CONSTANTS
  Kinds,     \* subset of {"telnet", "http", "connector"}
  LineMax,   \* nSizeRecv, or the size of TelnetConnector::m_buffer
  Rooms,     \* the sizes callers pass
  MaxLines   \* bound: how often the peer says something

ASSUME LineReaderConstants ==
  Kinds \subseteq {"telnet", "http", "connector"} /\ LineMax \in Nat /\ Rooms \subseteq Nat \ {0}

VARIABLES
  kind,     \* the class
  at,       \* what the call in progress does next: "idle" when there is none
  room,     \* what its caller has room for
  buf, n,   \* the buffer, and m_nReadBuf or m_bytesRead
  air,      \* said by the peer and not received
  said,     \* everything said by the peer
  got,      \* everything returned, with the line ends that were taken off
  cut       \* whether a caller's room was too small for what it was given

lineVars == <<kind, at, room, buf, n, air, said, got, cut>>

CR == 100
LF == 101
EndOfLine == <<CR, LF>>
Stale == 102   \* memory outside of the buffer, or never written

LineInit ==
  /\ kind \in Kinds /\ at = "idle" /\ room = 0
  /\ buf = [i \in 1 .. LineMax |-> Stale] /\ n = 0
  /\ air = << >> /\ said = << >> /\ got = << >> /\ cut = FALSE

Held == SubSeq(buf, 1, n)

Say ==
  /\ Cardinality({i \in DOMAIN said : said[i] # CR}) < MaxLines
  /\ \E s \in {<<Len(said) + 1>>, EndOfLine} : air' = air \o s /\ said' = said \o s
  /\ UNCHANGED <<kind, at, room, buf, n, got, cut>>

(* Only TelnetConnector receives before it looks at what it has.           *)
CallReadLine(m) ==
  /\ at = "idle"
  /\ at' = IF kind = "connector" THEN "recv" ELSE "parse"
  /\ room' = m
  /\ UNCHANGED <<kind, buf, n, air, said, got, cut>>

Receive ==
  /\ at = "recv" /\ n < LineMax
  /\ \E k \in 1 .. Len(air) :
       /\ n + k <= LineMax
       /\ buf' = [i \in DOMAIN buf |-> IF i \in n + 1 .. n + k THEN air[i - n] ELSE buf[i]]
       /\ n' = n + k
       /\ air' = SubSeq(air, k + 1, Len(air))
  /\ at' = "parse"
  /\ UNCHANGED <<kind, room, said, got, cut>>

(* Timeout, peer closed, or a recv() of zero bytes since there is no room. *)
RecvThrows ==
  /\ at = "recv" /\ (n = LineMax \/ air = << >>)
  /\ at' = "idle"
  /\ UNCHANGED <<kind, room, buf, n, air, said, got, cut>>

(* Where the line to return ends, counting its LF, or nothing.             *)
LFs == {i \in 1 .. n : buf[i] = LF}
Watermark == IF room < n THEN room ELSE n
Blank == n >= 2 /\ SubSeq(buf, 1, 2) = EndOfLine
CRLFs == IF Blank THEN {2}
         ELSE {i \in 3 .. Watermark : SubSeq(buf, i - 1, i) = EndOfLine}
Ends == IF kind = "connector" THEN CRLFs ELSE LFs

NoLine ==
  /\ at = "parse" /\ Ends = {}
  /\ at' = "recv"
  /\ UNCHANGED <<kind, room, buf, n, air, said, got, cut>>

(* Slip: from the LF.                                                      *)
ShiftLF(i, k) == [j \in 1 .. LineMax |-> IF j > k THEN buf[j]
                                         ELSE IF i + j <= LineMax THEN buf[i + j - 1] ELSE Stale]

(* memmove() of k cells from behind cell i to the front.                   *)
Shift(i, k) == [j \in 1 .. LineMax |-> IF j > k THEN buf[j]
                                       ELSE IF i + j <= LineMax THEN buf[i + j] ELSE Stale]

AfterCR(i) == i > 1 /\ buf[i - 1] = CR

(* assert() that a CR precedes the LF; TelnetConnector looked for both.    *)
Asserts ==
  /\ at = "parse" /\ Ends # {} /\ ~AfterCR(Min(Ends))
  /\ at' = "abort"
  /\ UNCHANGED <<kind, room, buf, n, air, said, got, cut>>

(* How long a line ending at i is for the caller; what it gets of it.      *)
Length(i) == IF kind # "connector" /\ i >= room THEN room - 1 ELSE i
Given(l) == IF kind = "http" \/ l < 2 THEN SubSeq(buf, 1, l)
            ELSE SubSeq(buf, 1, l - 2) \o EndOfLine

(* m_nReadBuf is reduced by what the caller got, although the whole line   *)
(* is taken off the buffer.                                                *)
Return ==
  /\ at = "parse" /\ Ends # {}
  /\ LET i == Min(Ends)
         l == Length(i)
     IN /\ AfterCR(i)
        /\ got' = got \o Given(l)
        /\ n' = n - l
        /\ buf' = Shift(i, n - l)
        /\ cut' = (cut \/ l # i)
  /\ at' = "idle"
  /\ UNCHANGED <<kind, room, air, said>>

-----------------------------------------------------------------------------
(* readResponse() and readHttpResponse(): what is buffered goes to the     *)
(* caller whatever its room, and everything after it directly.             *)

CallReadResponse(m) ==
  /\ at = "idle" /\ kind # "connector"
  /\ got' = got \o Held /\ n' = 0
  /\ IF m < n THEN cut' = TRUE /\ at' = "abort" /\ UNCHANGED room
     ELSE at' = "response" /\ room' = m - n /\ UNCHANGED cut
  /\ UNCHANGED <<kind, buf, air, said>>

ReceiveResponse ==
  /\ at = "response"
  /\ \E k \in 1 .. Len(air) :
       /\ k <= room /\ k <= LineMax
       /\ got' = got \o SubSeq(air, 1, k)
       /\ air' = SubSeq(air, k + 1, Len(air))
       /\ room' = room - k
  /\ UNCHANGED <<kind, at, buf, n, said, cut>>

ResponseEnds ==
  /\ at = "response" /\ (room = 0 \/ air = << >>)
  /\ at' = "idle"
  /\ UNCHANGED <<kind, room, buf, n, air, said, got, cut>>

LineNext ==
  \/ (\E m \in Rooms : CallReadLine(m) \/ CallReadResponse(m))
  \/ Say \/ Receive \/ RecvThrows \/ NoLine \/ Asserts \/ Return
  \/ ReceiveResponse \/ ResponseEnds

-----------------------------------------------------------------------------
(* However the peer's lines are cut, and whichever calls end with an       *)
(* exception: what was returned, what the buffer holds and what is still   *)
(* to be received are together what the peer said, in order, unless a      *)
(* caller had too little room for what it was given.                       *)
LinesWhole == ~cut => got \o Held \o air = said
=============================================================================
