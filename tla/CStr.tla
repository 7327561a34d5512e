-------------------------------- MODULE CStr --------------------------------
(***************************************************************************)
(* CStr (cstr.cpp): a string that knows its length and keeps memory for    *)
(* later.  `value` is what the operations so far should have made of it.   *)
(* Allocations succeed.                                                    *)
(***************************************************************************)
EXTENDS Naturals, SequencesExt, FiniteSetsExt

CONSTANTS
  Strings,      \* what is assigned and appended, without NUL
  Granularity,  \* m_nGranularity
  MaxLength     \* bound: how long the string gets

ASSUME CStrConstants ==
  /\ Granularity \in Nat \ {0} /\ MaxLength \in Nat
  /\ Strings \subseteq Seq(Nat \ {0})

VARIABLES
  mem,      \* the characters m_pszString points at; none when it is NULL
  len,      \* m_nLength
  value,    \* the string meant
  odd       \* what callers have to know of, once it happened

strVars == <<mem, len, value, odd>>

NUL   == 0
Space == 1

Alloc == Len(mem)
Zeros(n) == [i \in 1 .. n |-> NUL]
Over(m, i, s) == [j \in DOMAIN m |-> IF j \in i + 1 .. i + Len(s) THEN s[j - i] ELSE m[j]]

(* strlen() and the string from cell i on, when a NUL follows.             *)
NULs(i) == {j \in DOMAIN mem : j >= i /\ mem[j] = NUL}
CString(i) == SubSeq(mem, i, Min(NULs(i)) - 1)

StrInit == mem = << >> /\ len = 0 /\ value = << >> /\ odd = {}

Becomes(m, n, v) == mem' = m /\ len' = n /\ value' = v
Unless(what, why) == odd' = IF what THEN odd \cup {why} ELSE odd
Plain == UNCHANGED odd

Exact(s) == IF s = << >> THEN << >> ELSE s \o <<NUL>>

(* String(), operator=, init(): just the memory that is needed; an empty   *)
(* string frees it.                                                        *)
SetString(s) == Becomes(Exact(s), Len(s), s) /\ Plain

(* String(NULL, n): memory only.  Its owner fills it in and updateLength() *)
(* counts.                                                                 *)
Allocate(n) == n > 0 /\ Becomes(Zeros(n), 0, << >>) /\ Plain
UpdateLength(s) ==
  /\ Len(s) < Alloc
  /\ Becomes(Over(mem, 0, s \o <<NUL>>), Len(s), s) /\ Plain

(* Slip: no room for the NUL.                                              *)
FitsNoNUL(n) == n <= Alloc - len

Fits(n) == n + 1 <= Alloc - len

Grown(n) == IF Fits(n) THEN mem
            ELSE mem \o Zeros((((n + 1) \div Granularity) + 1) * Granularity)

Appended(s) == Over(Grown(Len(s)), len, s \o <<NUL>>)

AppendStr(s) ==
  /\ s # << >> /\ len + Len(s) <= MaxLength
  /\ Becomes(Appended(s), len + Len(s), value \o s)
  /\ Plain

(* What empty(FALSE) leaves behind, which the char* still points at.       *)
Forgotten == len = 0 /\ mem # << >> /\ mem[1] # NUL

(* duplicateOverlap(): a part of the object's own string is copied first;  *)
(* when that is empty, as at its very end, the call fails.                 *)
Inside(i) == mem # << >> /\ i \in 1 .. len + 1 /\ CString(i) # << >>

SetOwn(i) ==
  /\ Inside(i)
  /\ Becomes(Exact(CString(i)), Len(CString(i)), SubSeq(value, i, Len(value)))
  /\ Unless(Forgotten, "forgotten")

AppendOwn(i) ==
  /\ Inside(i)
  /\ len + Len(CString(i)) <= MaxLength
  /\ Becomes(Appended(CString(i)), len + Len(CString(i)), value \o SubSeq(value, i, Len(value)))
  /\ Unless(Forgotten, "forgotten")

EndWith(c) == len > 0 /\ mem[len] # c /\ AppendStr(<<c>>)

(* empty(), and stealBuffer(); empty(FALSE) keeps the memory.  format() is *)
(* empty() and append().                                                   *)
Empty == Becomes(<< >>, 0, << >>) /\ Plain
EmptyKeep == Becomes(mem, 0, << >>) /\ Plain

(* memcpy() between areas that overlap may copy from either end.           *)
Down(first, n) ==
  [j \in DOMAIN mem |-> IF j > len - n /\ j <= len THEN NUL
                        ELSE IF j > first /\ j <= len - n THEN mem[j + n] ELSE mem[j]]
Mixed(first, n) ==
  [j \in DOMAIN mem |-> IF j > len - n /\ j <= len THEN NUL
                        ELSE IF j > first /\ j <= len - n
                          THEN mem[j + n * ((len - j) \div n)] ELSE mem[j]]

RemoveSection(first, count) ==
  LET n == Min({count, len - first})
  IN /\ first < len /\ n > 0
     /\ IF n = len THEN Empty
        ELSE /\ \E m \in {Down(first, n), Mixed(first, n)} :
                  Becomes(m, len - n, SubSeq(value, 1, first) \o SubSeq(value, first + n + 1, len))
             /\ Unless(len - (first + n) > n, "overlap")

Text == SubSeq(mem, 1, len)
Spaces(s) == {i \in 0 .. Len(s) : \A j \in 1 .. i : s[j] = Space}
TrimmedLeft(s) == SubSeq(s, Max(Spaces(s)) + 1, Len(s))
TrimmedRight(s) == SubSeq(s, 1, Len(s) - Max(Spaces(Reverse(s))))

TrimLeft ==
  /\ len > 0 /\ mem[1] = Space
  /\ LET s == TrimmedLeft(CString(1))
     IN Becomes(Exact(s), Len(s), TrimmedLeft(value))
  /\ Plain

(* A string of one space is left alone.                                    *)
TrimRight ==
  /\ len > 1 /\ mem[len] = Space
  /\ LET s == TrimmedRight(Text)
     IN IF s = << >> THEN Empty
        ELSE Becomes(Over(mem, Len(s), <<NUL>>), Len(s), TrimmedRight(value)) /\ Plain

ReplaceCharacters(c, d) ==
  /\ len > 0
  /\ LET R(s) == [i \in DOMAIN s |-> IF i <= len /\ s[i] = c THEN d ELSE s[i]]
     IN Becomes(R(mem), len, R(value))
  /\ Plain

(* replaceFirstChar() with its default ends the string: the length stays.  *)
EndAt(i) ==
  /\ i \in 1 .. len
  /\ Becomes(Over(mem, i - 1, <<NUL>>), len, SubSeq(value, 1, i - 1))
  /\ odd' = odd \cup {"ended"}

StrNext ==
  /\ odd = {}
  /\ \/ (\E s \in Strings : SetString(s) \/ UpdateLength(s) \/ AppendStr(s))
     \/ (\E n \in 1 .. MaxLength : Allocate(n))
     \/ (\E i \in 1 .. MaxLength + 1 : SetOwn(i) \/ AppendOwn(i) \/ EndAt(i))
     \/ (\E first \in 0 .. MaxLength, n \in 1 .. MaxLength : RemoveSection(first, n))
     \/ (\E c \in Range(value) : ReplaceCharacters(c, Space))
     \/ EndWith(Space) \/ Empty \/ EmptyKeep \/ TrimLeft \/ TrimRight

-----------------------------------------------------------------------------
(* Through any sequence of calls, parts of the string appended or assigned *)
(* to itself included: the length and the characters are those of the      *)
(* string meant, and a NUL follows them inside the memory, so that who     *)
(* uses it as a char* gets the same string, unless empty(FALSE) left an    *)
(* older one there.                                                        *)
StringKept ==
  odd = {} => /\ len = Len(value) /\ Text = value
              /\ mem # << >> /\ ~Forgotten => NULs(1) # {} /\ CString(1) = value
=============================================================================
