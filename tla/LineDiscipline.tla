--------------------------- MODULE LineDiscipline ---------------------------
(***************************************************************************)
(* What the console promises to who types and to who reads: a line can be  *)
(* edited until it is finished; then its characters are read, each once,   *)
(* in order, and at most one line by a read.                               *)
(***************************************************************************)
EXTENDS Sequences, Naturals

CONSTANTS
  Proc,
  Plain,      \* characters without a meaning
  NL, EOF,    \* the characters that end a line
  Size        \* characters that are kept

VARIABLES
  text,       \* finished, and not read
  line,       \* being edited
  got         \* what the last read of each process has got so far

vars == <<text, line, got>>

Init == text = <<>> /\ line = <<>> /\ got = [p \in Proc |-> <<>>]

\* A line is also finished when there is no room for more.
Type(c) ==
  /\ Len(text) + Len(line) < Size
  /\ IF c \in {NL, EOF} \/ Len(text) + Len(line) + 1 = Size
     THEN text' = text \o Append(line, c) /\ line' = <<>>
     ELSE line' = Append(line, c) /\ UNCHANGED text
  /\ UNCHANGED got

Erase == line # <<>> /\ line' = SubSeq(line, 1, Len(line) - 1) /\ UNCHANGED <<text, got>>
KillLine == line' = <<>> /\ UNCHANGED <<text, got>>

\* Process p gets the next k characters, up to the end of a line, in a new read
\* or in one that has not seen the end of its line.
Deliver(p, k) ==
  \E old \in {<<>>, got[p]} :
    /\ \A i \in 1 .. Len(old) : old[i] # NL
    /\ \A i \in 1 .. k : text[i] # EOF /\ (text[i] = NL => i = k)
    /\ got' = [got EXCEPT ![p] = old \o SubSeq(text, 1, k)]
    /\ text' = SubSeq(text, k + 1, Len(text))
    /\ UNCHANGED line

\* The end of file is read by a read that gets nothing else.
ReadEOF(p) ==
  /\ text # <<>> /\ Head(text) = EOF
  /\ text' = Tail(text)
  /\ got' = [got EXCEPT ![p] = <<>>]
  /\ UNCHANGED line

Next ==
  \/ \E c \in Plain \cup {NL, EOF} : Type(c)
  \/ Erase \/ KillLine
  \/ \E p \in Proc : ReadEOF(p) \/ \E k \in 0 .. Len(text) : Deliver(p, k)

Spec == Init /\ [][Next]_vars
=============================================================================
