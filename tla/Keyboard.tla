------------------------------ MODULE Keyboard ------------------------------
(***************************************************************************)
(* kbdgetc() (kbd.c, kbd.h) and the keyboard that sends it scan codes: a   *)
(* key sends its code when pressed and the code + 128 when released, some  *)
(* keys after an escape byte.  A byte is an interrupt of its own.          *)
(***************************************************************************)
EXTENDS Naturals, Sequences, FiniteSets, TLC

CONSTANT MaxHeld   \* bound: keys held at once

Escape == 224      \* 0xE0

\* Modifiers twice, an ordinary key, locks, and the two keys that share a code.
\* external: the keyboard
Code == [LeftCtl |-> <<29>>, RightCtl |-> <<Escape, 29>>,
         LeftShift |-> <<42>>, RightShift |-> <<54>>,
         LeftAlt |-> <<56>>, RightAlt |-> <<Escape, 56>>,
         CapsLock |-> <<58>>, A |-> <<30>>, Keypad8 |-> <<72>>, Up |-> <<Escape, 72>>]
Key == DOMAIN Code

shiftcode(d) ==
  CASE d \in {29, 157} -> {"CTL"} [] d \in {42, 54} -> {"SHIFT"}
    [] d \in {56, 184} -> {"ALT"} [] OTHER -> {}
togglecode(d) ==
  CASE d = 58 -> {"CAPSLOCK"} [] d = 69 -> {"NUMLOCK"} [] d = 70 -> {"SCROLLLOCK"}
    [] OTHER -> {}

NO == "NO"
Lookup(map, d) == IF d \in DOMAIN map THEN map[d] ELSE NO
normalmap == 30 :> "a" @@ 72 :> "8" @@ 200 :> "KEY_UP"
shiftmap  == 30 :> "A" @@ 72 :> "8" @@ 200 :> "KEY_UP"
ctlmap    == 30 :> "^A" @@ 200 :> "KEY_UP"
charcode(flags) ==
  IF "CTL" \in flags THEN ctlmap ELSE IF "SHIFT" \in flags THEN shiftmap ELSE normalmap

VARIABLES
  shift,     \* a set of flags
  last,      \* the last result
  held,      \* keys that are down
  sent       \* bytes that kbdgetc() has not read yet

vars == <<shift, last, held, sent>>

Init == shift = {} /\ last = NO /\ held = {} /\ sent = <<>>

\* A key goes down, again if it repeats, or up.
\* external: the keyboard
Press(k) ==
  /\ sent = <<>>
  /\ k \in held \/ Cardinality(held) < MaxHeld
  /\ held' = held \cup {k} /\ sent' = Code[k]
  /\ UNCHANGED <<shift, last>>
Release(k) ==
  /\ sent = <<>> /\ k \in held
  /\ held' = held \ {k}
  /\ sent' = [Code[k] EXCEPT ![Len(Code[k])] = @ + 128]
  /\ UNCHANGED <<shift, last>>

Swapped(ch) == CASE ch = "a" -> "A" [] ch = "A" -> "a" [] OTHER -> ch

\* A key is released: the code that its press was looked up with.
\* Mutant: the code of the release.
BugReleased(d, flags) == d
Released(d, flags) == IF "E0ESC" \in flags THEN d ELSE d % 128

kbdgetc ==
  LET d == Head(sent)
      e == IF "E0ESC" \in shift THEN d + 128 ELSE d
      on == (shift \ {"E0ESC"}) \cup shiftcode(e)
      flags == (on \ togglecode(e)) \cup (togglecode(e) \ on)
      ch == Lookup(charcode(flags), e)
  IN /\ sent # <<>>
     /\ sent' = Tail(sent)
     /\ IF d = Escape THEN shift' = shift \cup {"E0ESC"} /\ last' = NO
        ELSE IF d >= 128
        THEN shift' = shift \ (shiftcode(Released(d, shift)) \cup {"E0ESC"}) /\ last' = NO
        ELSE shift' = flags /\ last' = IF "CAPSLOCK" \in flags THEN Swapped(ch) ELSE ch
     /\ UNCHANGED held

Next == kbdgetc \/ \E k \in Key : Press(k) \/ Release(k)

Spec == Init /\ [][Next]_vars

-----------------------------------------------------------------------------
Keys(what) ==
  CASE what = "CTL" -> {"LeftCtl", "RightCtl"} [] what = "SHIFT" -> {"LeftShift", "RightShift"}
    [] what = "ALT" -> {"LeftAlt", "RightAlt"} [] what = "8" -> {"Keypad8"}
    [] what = "KEY_UP" -> {"Up"} [] OTHER -> {"A"}

\* No modifier gets stuck and no key is taken for another: once the bytes of a
\* key are read, a flag is set only while one of its keys is down, no escape is
\* pending, and a character comes from a key that is down.
ModifiersHeld ==
  sent = <<>> =>
    /\ \A what \in (shift \cap {"CTL", "SHIFT", "ALT"}) \cup ({last} \ {NO}) :
         held \cap Keys(what) # {}
    /\ "E0ESC" \notin shift
=============================================================================
