------------------------------ MODULE Scancode ------------------------------
(***************************************************************************)
(* The decoder of keyboard_hander (kernel/keyboard.c): bytes of scan code  *)
(* set 1 arrive one per interrupt, so a key that sends several bytes is    *)
(* decoded over several interrupts through extcode_state and keymap.       *)
(*                                                                         *)
(* A byte is the prefix 0xe0 or a code with its break bit.  The keys kept  *)
(* are one of each kind the handler tells apart: a letter, a pad key whose *)
(* code an arrow shares, both shifts, caps lock, an arrow, an extended key *)
(* that is no arrow, and one with a code past the end of keymap.           *)
(***************************************************************************)
EXTENDS Naturals, Sequences, FiniteSets, SequencesExt

CONSTANTS MaxWire,    \* bytes the keyboard holds back until they are read
          MaxHeld,    \* keys down at a time
          MaxStrokes  \* characters typed in a behaviour of the model

ASSUME ScancodeAssumption == MaxWire \in Nat /\ MaxHeld \in Nat /\ MaxStrokes \in Nat

VARIABLES wire,            \* bytes sent and not yet handled
          held,            \* keys that are down
          extcode_state,   \* the prefix 0xe0 has been seen
          capslock_state,
          keymap,          \* keymap[c][e]: columns 2 (plain) and 3 (extended)
          out,             \* characters and arrows decoded
          meant            \* characters and arrows the typist meant

scanVars == <<wire, held, extcode_state, capslock_state, keymap, out, meant>>

Key == {"A", "PAD_8", "SHIFT_L", "SHIFT_R", "CAPSLOCK", "UP", "DELETE", "POWER"}
Code == {"A", "PAD_8", "SHIFT_L", "SHIFT_R", "CAPSLOCK", "PAD_DOT"}

\* The keyboard (external): the code of a key and whether a prefix goes before
\* it.  POWER has a code greater than KEY_PRINT_SCREEN.
CodeOf == [x \in Key |-> CASE x = "UP" -> "PAD_8" [] x = "DELETE" -> "PAD_DOT"
                           [] OTHER -> x]
Extended == {"UP", "DELETE", "POWER"}

Prefix == [code |-> "E0", brk |-> FALSE]
Plain(c, b) == [code |-> c, brk |-> b]
KeyBytes(x, b) == IF x \in Extended THEN <<Prefix, Plain(CodeOf[x], b)>>
               ELSE <<Plain(CodeOf[x], b)>>

\* Columns 0 and 1 of keymap: what a code types without and with shift; None
\* is INV.
None == "INV"
Glyph(c, shift) ==
  CASE c = "A" -> IF shift THEN "A" ELSE "a"
    [] c = "PAD_8" -> IF shift THEN None ELSE "8"
    [] OTHER -> None

ScanInit ==
  /\ wire = <<>> /\ held = {}
  /\ extcode_state = FALSE /\ capslock_state = FALSE
  /\ keymap = [c \in Code |-> [e \in {2, 3} |-> FALSE]]
  /\ out = <<>> /\ meant = <<>>

-----------------------------------------------------------------------------
(* The typist and the keyboard (external) *)

ShiftHeld == held \cap {"SHIFT_L", "SHIFT_R"} # {}

\* Caps lock as the typist sees it: switched by every make code, repeats
\* included.
CapsMeant == capslock_state # (Cardinality({i \in 1 .. Len(wire) :
                                 wire[i] = Plain("CAPSLOCK", FALSE)}) % 2 = 1)

Meaning(x) == IF x = "UP" THEN "UP"
              ELSE IF x \in Extended THEN None
              ELSE Glyph(CodeOf[x], ShiftHeld # CapsMeant)

\* A key goes down, or repeats while it is held.  An arrow or DELETE pressed
\* with a shift down first sends the break code of that shift with a prefix.
Press(x) ==
  LET fake == [i \in 1 .. (IF x \in {"UP", "DELETE"} /\ "SHIFT_L" \in held THEN 2 ELSE 0)
                 |-> IF i = 1 THEN Prefix ELSE Plain("SHIFT_L", TRUE)]
  IN /\ Len(wire) + Len(fake) + Len(KeyBytes(x, FALSE)) <= MaxWire
     /\ Cardinality(held \cup {x}) <= MaxHeld
     /\ Meaning(x) # None => Len(meant) < MaxStrokes
     /\ wire' = wire \o fake \o KeyBytes(x, FALSE)
     /\ held' = held \cup {x}
     /\ meant' = IF Meaning(x) = None THEN meant ELSE Append(meant, Meaning(x))
     /\ UNCHANGED <<extcode_state, capslock_state, keymap, out>>

Release(x) ==
  /\ x \in held
  /\ Len(wire) + Len(KeyBytes(x, TRUE)) <= MaxWire
  /\ wire' = wire \o KeyBytes(x, TRUE)
  /\ held' = held \ {x}
  /\ UNCHANGED <<extcode_state, capslock_state, keymap, out, meant>>

-----------------------------------------------------------------------------
(* kernel/keyboard.c *)

ShiftState(km) == km["SHIFT_L"][2] \/ km["SHIFT_R"][2]

\* Mutant: the prefix is forgotten.
Column_mut == 2

\* The column the prefix selects.
Column == IF extcode_state THEN 3 ELSE 2

Released(c) == [keymap EXCEPT ![c][Column] = FALSE]

Typed(ch) == IF ch = None THEN out ELSE Append(out, ch)

\* keyboard_hander on the byte s: one early exit after another, then a
\* character.
Interrupt ==
  LET s == Head(wire)
      km == [keymap EXCEPT ![s.code][Column] = TRUE]
      caps == IF s.code = "CAPSLOCK" THEN ~capslock_state ELSE capslock_state
  IN /\ wire # <<>>
     /\ wire' = Tail(wire)
     /\ extcode_state' = (s = Prefix)
     /\ \/ /\ s = Prefix \/ s.code \notin Code
           /\ UNCHANGED <<capslock_state, keymap, out>>
        \/ /\ s.code \in Code /\ s.brk
           /\ keymap' = Released(s.code)
           /\ UNCHANGED <<capslock_state, out>>
        \/ /\ s.code \in Code /\ ~s.brk /\ Column = 3
           /\ keymap' = km
           /\ out' = IF s.code = "PAD_8" THEN Append(out, "UP") ELSE out
           /\ UNCHANGED capslock_state
        \/ /\ s.code \in Code /\ ~s.brk /\ Column = 2
           /\ keymap' = km
           /\ capslock_state' = caps
           /\ out' = Typed(Glyph(s.code, caps # ShiftState(km)))
     /\ UNCHANGED <<held, meant>>

ScanNext == Interrupt \/ \E x \in Key : Press(x) \/ Release(x)

ScanSpec == ScanInit /\ [][ScanNext]_scanVars

-----------------------------------------------------------------------------
(* Properties *)

\* What is decoded is what was meant, in order, however many bytes lie between
\* a key press and its interrupts; an arrow never types the digit that shares
\* its code, and no shift is taken up or dropped by the bytes of another key.
DecodesWhatWasTyped ==
  /\ IsPrefix(out, meant)
  /\ wire = <<>> => out = meant
=============================================================================
