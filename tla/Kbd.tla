-------------------------------- MODULE Kbd --------------------------------
(***************************************************************************)
(* The keyboard (src/kbd.c).  A key sends a byte when it is pressed and    *)
(* that byte with bit 7 set when it is released; some keys send E0 first.  *)
(* kbdgetc() takes one byte and keeps the modifiers in shift.              *)
(***************************************************************************)
EXTENDS Integers, Sequences, FiniteSets

CONSTANTS MaxPending,  \* bound: bytes the keyboard keeps until they are read
          MaxHeld      \* bound: keys down at a time

\* The keys modelled: <<sends E0 first, code>>.
lshift == <<FALSE, \h2A>>
rshift == <<FALSE, \h36>>
lctl == <<FALSE, \h1D>>
rctl == <<TRUE, \h1D>>
lalt == <<FALSE, \h38>>
ralt == <<TRUE, \h38>>
caps == <<FALSE, \h3A>>
numlock == <<FALSE, \h45>>
scrlk == <<FALSE, \h46>>
up == <<TRUE, \h48>>
KbdKeys == {lshift, rshift, lctl, rctl, lalt, ralt, caps, numlock, scrlk, up}
locking == {caps, numlock, scrlk}

VARIABLES shift,    \* the static variable of kbdgetc(), as a set of bits
          pending,  \* bytes not yet read
          held,     \* keys that are down
          odd       \* lock keys that were pressed an odd number of times

kbdvars == <<shift, pending, held, odd>>

KbdInit == shift = {} /\ pending = <<>> /\ held = {} /\ odd = {}

shiftcode(d) == CASE d \in {\h1D, \h9D} -> {"CTL"}
                  [] d \in {\h2A, \h36} -> {"SHIFT"}
                  [] d \in {\h38, \hB8} -> {"ALT"}
                  [] OTHER -> {}

togglecode(d) == CASE d = \h3A -> {"CAPSLOCK"}
                   [] d = \h45 -> {"NUMLOCK"}
                   [] d = \h46 -> {"SCROLLLOCK"}
                   [] OTHER -> {}

sends(key, release) == (IF key[1] THEN <<\hE0>> ELSE <<>>)
                       \o <<IF release THEN key[2] + \h80 ELSE key[2]>>

press(key) ==
  /\ key \notin held /\ Cardinality(held) < MaxHeld /\ Len(pending) + 2 <= MaxPending
  /\ held' = held \cup {key}
  /\ pending' = pending \o sends(key, FALSE)
  /\ odd' = IF key \notin locking THEN odd ELSE IF key \in odd THEN odd \ {key} ELSE odd \cup {key}
  /\ UNCHANGED shift

letGo(key) ==
  /\ key \in held /\ Len(pending) + 2 <= MaxPending
  /\ held' = held \ {key}
  /\ pending' = pending \o sends(key, TRUE)
  /\ UNCHANGED <<shift, odd>>

\* Mutant of released: bit 7 is never cleared.
released_unmasked(d) == shift \ (shiftcode(d) \cup {"E0ESC"})

\* shift after the release of a key.
released(d) == shift \ (shiftcode(IF "E0ESC" \in shift THEN d ELSE d - \h80) \cup {"E0ESC"})

\* shift after a key is pressed; the last byte may have been E0.
pressed(d) == LET d1 == IF "E0ESC" \in shift THEN d + \h80 ELSE d
                  s == (shift \ {"E0ESC"}) \cup shiftcode(d1)
              IN (s \ togglecode(d1)) \cup (togglecode(d1) \ s)

kbdgetc ==
  LET d == Head(pending) IN
  /\ pending # <<>>
  /\ pending' = Tail(pending)
  /\ shift' = CASE d = \hE0 -> shift \cup {"E0ESC"}
                [] d # \hE0 /\ d >= \h80 -> released(d)
                [] OTHER -> pressed(d)
  /\ UNCHANGED <<held, odd>>

KbdNext == kbdgetc \/ \E key \in KbdKeys : press(key) \/ letGo(key)

KbdSpec == KbdInit /\ [][KbdNext]_kbdvars
-----------------------------------------------------------------------------
\* Once its bytes are read, no modifier is stuck: whatever keys were pressed
\* together, with or without E0 before their codes, SHIFT, CTL and ALT are off when
\* no such key is down, and each lock has followed its key.
ModifiersFollowKeys ==
  pending = <<>> => /\ "SHIFT" \in shift => {lshift, rshift} \cap held # {}
                    /\ "CTL" \in shift => {lctl, rctl} \cap held # {}
                    /\ "ALT" \in shift => {lalt, ralt} \cap held # {}
                    /\ "CAPSLOCK" \in shift <=> caps \in odd
                    /\ "NUMLOCK" \in shift <=> numlock \in odd
                    /\ "SCROLLLOCK" \in shift <=> scrlk \in odd
                    /\ "E0ESC" \notin shift
=============================================================================
