------------------------------- MODULE Console -------------------------------
(***************************************************************************)
(* Console input and echo: console.c, with the interrupts of kbd.c and     *)
(* uart.c.  cons.lock makes consoleintr(), each run of the loop of         *)
(* consoleread() up to its sleep(), and consolewrite() one step.  An       *)
(* interrupt with several characters is as many interrupts in a row.       *)
(***************************************************************************)
EXTENDS Naturals, Sequences, FiniteSets

CONSTANTS
  Proc,
  INPUT_BUF,
  WORD,         \* the indices are modulo WORD (2^32)
  ROWS, COLS,   \* the screen (24 and 80)
  uart,         \* is there a uart?
  Counts,       \* bound: sizes of reads
  MaxWrites     \* bound: consolewrite()s since a line was begun

NL == "\n"
EOF == "^D"
Blank == " "
BACKSPACE == "BACKSPACE"
Plain == {"a"}
Cell == 0 .. ROWS * COLS - 1

VARIABLES
  input,        \* buf, r, w, e
  screen,       \* pos, crt
  reads,        \* of each process: state, n, and what it has got so far
  killed,
  writes        \* outputs since the line was begun

vars == <<input, screen, reads, killed, writes>>

Minus(a, b) == (a - b + WORD) % WORD
Plus(a, k) == (a + k) % WORD

-----------------------------------------------------------------------------
(* The screen *)

\* memmove() of all rows but the first, and memset() of the rest of the last.
\* Mutant: the row under the cursor is not moved up with the others.
BugScroll(s) ==
  [pos |-> s.pos - COLS,
   crt |-> [x \in Cell |-> IF x < (ROWS - 2) * COLS THEN s.crt[x + COLS] ELSE Blank]]
Scroll(s) ==
  [pos |-> s.pos - COLS,
   crt |-> [x \in Cell |-> IF x < (ROWS - 1) * COLS THEN s.crt[x + COLS]
                           ELSE IF x >= s.pos - COLS THEN Blank ELSE s.crt[x]]]

cgaputc(s, c) ==
  LET t == IF c = NL THEN [s EXCEPT !.pos = @ + COLS - (@ % COLS)]
           ELSE IF c = BACKSPACE THEN [s EXCEPT !.pos = IF @ > 0 THEN @ - 1 ELSE @]
           ELSE [s EXCEPT !.crt[s.pos] = c, !.pos = @ + 1]
      u == IF t.pos \div COLS >= ROWS THEN Scroll(t) ELSE t
  IN [u EXCEPT !.crt[u.pos] = Blank]

consputc(c) == cgaputc(screen, c)

RECURSIVE Backspaces(_, _)
Backspaces(s, k) == IF k = 0 THEN s ELSE Backspaces(cgaputc(s, BACKSPACE), k - 1)

-----------------------------------------------------------------------------
Init ==
  /\ input = [buf |-> [i \in 0 .. INPUT_BUF - 1 |-> NL], r |-> 0, w |-> 0, e |-> 0]
  /\ \E pos \in Cell : screen = [pos |-> pos, crt |-> [x \in Cell |-> Blank]]
  /\ reads = [p \in Proc |-> [state |-> "user", n |-> 0, target |-> 0, got |-> <<>>]]
  /\ killed = [p \in Proc |-> FALSE]
  /\ writes = 0

\* Characters that are edited: input.w up to input.e.
Edited == Minus(input.e, input.w)

\* wakeup(&input.r)
Woken ==
  [p \in Proc |-> [reads[p] EXCEPT !.state = IF @ = "asleep" THEN "runnable" ELSE @]]

Begun(i) == IF i.e = i.w THEN 0 ELSE writes

\* ^U: back to the last end of a line.
KillLine ==
  LET stop == {k \in 0 .. Edited - 1 :
                 input.buf[Minus(Minus(input.e, k), 1) % INPUT_BUF] = NL}
      k == IF stop = {} THEN Edited ELSE CHOOSE j \in stop : \A i \in stop : j <= i
  IN /\ input' = [input EXCEPT !.e = Minus(@, k)]
     /\ screen' = Backspaces(screen, k)
     /\ UNCHANGED reads

\* ^H and DEL
Backspace ==
  /\ IF Edited = 0 THEN UNCHANGED <<input, screen>>
     ELSE /\ input' = [input EXCEPT !.e = Minus(@, 1)]
          /\ screen' = consputc(BACKSPACE)
  /\ UNCHANGED reads

\* The line is finished: its last character is in, or there is no room left.
\* Mutant: a full buffer is not.
BugFinished(c, i) == c \in {NL, EOF}
Finished(c, i) == c \in {NL, EOF} \/ i.e = Plus(i.r, INPUT_BUF)

\* Any other character, if there is room for it.
Insert(typed) ==
  LET c == IF typed = "\r" THEN NL ELSE typed
      i == [input EXCEPT !.buf[input.e % INPUT_BUF] = c, !.e = Plus(@, 1)]
  IN IF typed = "NUL" \/ Minus(input.e, input.r) >= INPUT_BUF
     THEN UNCHANGED <<input, screen, reads>>
     ELSE /\ screen' = consputc(c)
          /\ IF Finished(c, i)
             THEN input' = [i EXCEPT !.w = i.e] /\ reads' = Woken
             ELSE input' = i /\ UNCHANGED reads

\* ^P is for procdump(), which prints after the lock is released.
consoleintr(c) ==
  /\ IF c = "^P" THEN screen' = consputc(NL) /\ UNCHANGED <<input, reads>>
     ELSE IF c = "^U" THEN KillLine
     ELSE IF c \in {"^H", "DEL"} THEN Backspace
     ELSE Insert(c)
  /\ c = "^P" => writes < MaxWrites
  /\ writes' = IF c = "^P" /\ input.e # input.w THEN writes + 1 ELSE Begun(input')
  /\ UNCHANGED killed

\* What kbdintr() and uartintr() get: module Keyboard, and a terminal.
kbdgetc == Plain \cup {NL, EOF, "^P", "^U", "^H", "NUL"}
uartgetc == IF uart THEN Plain \cup {"\r", EOF, "^P", "^U", "DEL"} ELSE {}

-----------------------------------------------------------------------------
\* The loop of consoleread(), up to its end or to its sleep().
RECURSIVE ReadLoop(_, _)
ReadLoop(i, x) ==
  LET c == i.buf[i.r % INPUT_BUF]
      next == [i EXCEPT !.r = Plus(@, 1)]
      more == [x EXCEPT !.n = @ - 1, !.got = Append(@, c)]
  IN IF x.n = 0 THEN [i |-> i, x |-> [x EXCEPT !.state = "user"]]
     ELSE IF i.r = i.w THEN [i |-> i, x |-> [x EXCEPT !.state = "asleep"]]
     ELSE IF c = EOF
     THEN [i |-> IF x.n < x.target THEN i ELSE next, x |-> [x EXCEPT !.state = "user"]]
     ELSE IF c = NL THEN [i |-> next, x |-> [more EXCEPT !.state = "user"]]
     ELSE ReadLoop(next, more)

\* A killed process does not sleep; the read fails.
Run(p, x0) ==
  LET y == ReadLoop(input, x0) IN
  /\ input' = y.i
  /\ reads' = [reads EXCEPT ![p] =
       IF y.x.state = "asleep" /\ killed[p] THEN [y.x EXCEPT !.state = "user"] ELSE y.x]
  /\ UNCHANGED <<screen, killed, writes>>

consoleread(p) ==
  /\ reads[p].state = "user" /\ ~killed[p]
  /\ \E n \in Counts : Run(p, [state |-> "user", n |-> n, target |-> n, got |-> <<>>])

Resume(p) == reads[p].state = "runnable" /\ Run(p, reads[p])

\* Bound: a process is killed once.
Kill(p) ==
  /\ ~killed[p]
  /\ killed' = [killed EXCEPT ![p] = TRUE]
  /\ reads' = [reads EXCEPT ![p].state = IF @ = "asleep" THEN "runnable" ELSE @]
  /\ UNCHANGED <<input, screen, writes>>

\* consolewrite(), a character of it, or cprintf().
consolewrite ==
  /\ writes < MaxWrites
  /\ \E c \in Plain \cup {NL} : screen' = consputc(c)
  /\ writes' = IF input.e = input.w THEN 0 ELSE writes + 1
  /\ UNCHANGED <<input, reads, killed>>

Next ==
  \/ \E c \in kbdgetc \cup uartgetc : consoleintr(c)
  \/ consolewrite
  \/ \E p \in Proc : consoleread(p) \/ Resume(p) \/ Kill(p)

Spec == Init /\ [][Next]_vars

-----------------------------------------------------------------------------
(* Properties *)

\* Nobody sleeps in consoleread() while there is input to read, or killed.
NoLostWakeup ==
  \A p \in Proc : reads[p].state = "asleep" => input.r = input.w /\ ~killed[p]

\* The line that is being edited stands before the cursor, whatever was typed
\* and erased and however often the screen scrolled, unless output came in
\* between; the cursor is on the screen, so that cgaputc() neither panics nor
\* writes beside it.
EchoShown ==
  /\ screen.pos \in Cell
  /\ writes = 0 => \A k \in 1 .. Edited :
       /\ screen.pos >= k
       /\ screen.crt[screen.pos - k] = input.buf[Minus(input.e, k) % INPUT_BUF]

\* The ring as LineDiscipline sees it.
Ring(from, to) ==
  [j \in 1 .. Minus(to, from) |-> input.buf[Plus(from, j - 1) % INPUT_BUF]]
Abstract == INSTANCE LineDiscipline WITH
  Size <- INPUT_BUF, text <- Ring(input.r, input.w), line <- Ring(input.w, input.e),
  got <- [p \in Proc |-> reads[p].got]

\* The ring with its three wrapping indices, shared by two interrupts and the
\* readers (bound: one in the run), implements the line discipline.
LineSpec == Abstract!Spec
=============================================================================
