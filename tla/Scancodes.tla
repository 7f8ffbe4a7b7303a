------------------------------ MODULE Scancodes ------------------------------
(***************************************************************************)
(* The scan code decoder in kbd_buff_push (8042.c) against a keyboard.     *)
(*                                                                         *)
(* The keyboard uses scan code set 2: it sends 0xE0 first for the enhanced *)
(* keys, then 0xF0 when a key is released, then the code of the key; each  *)
(* byte raises IRQ1 and the handler passes it to kbd_buff_push, which      *)
(* remembers the prefixes and the modifiers in globals.  What happens to   *)
(* the characters after that is in module KbdBuffer.                       *)
(***************************************************************************)
EXTENDS Integers, Sequences

CONSTANT Keys     \* the keys of the keyboard: [code |-> 1 .. 127, enhanced |-> BOOLEAN]

ASSUME KeysAssumption == Keys \subseteq [code : 1 .. 127, enhanced : BOOLEAN]

VARIABLES
  key_released,      \* 0xF0 was the last byte
  enhanced_key,      \* 0xE0 came since the last release
  keyboard_status,   \* the modifiers held down
  char,              \* what the last byte put into the keyboard buffer
  down,              \* the keys that are down
  sending,           \* bytes of the last key event not yet handled
  event,             \* that event: the key, and whether it went down
  blurred            \* history: keys whose last event the decoder may have misread

decoder == <<key_released, enhanced_key, keyboard_status, char>>
decoderVars == <<key_released, enhanced_key, keyboard_status, char, down, sending, event, blurred>>

Released == 240      \* 0xF0
Enhanced == 224      \* 0xE0

(* The characters kbd_buff_push can put into the buffer. *)
Newline == "newline"
Backspace == "backspace"
Unmapped == "0xFF"
Nothing == "nothing"

(* The modifiers, by the code the decoder knows them by: 0x80 is added to  *)
(* the code of an enhanced key.                                            *)
KBD_LSHIFT == 18     \* 0x12
KBD_RSHIFT == 89     \* 0x59
Modifiers == {KBD_LSHIFT, KBD_RSHIFT, 20, 148, 17, 145, 159, 167, 175}

CodeOf(k) == IF k.enhanced THEN k.code + 128 ELSE k.code

Shift(held) == {KBD_LSHIFT, KBD_RSHIFT} \cap held # {}

(* The tables have an entry for every code from 0x15 to 0x5D. *)
translate(code, shift) ==
  IF code % 128 = 90 THEN Newline
  ELSE IF code \in 21 .. 93 THEN <<code - 21, shift>>
  ELSE IF code = 102 THEN Backspace
  ELSE Unmapped

-----------------------------------------------------------------------------
(* kbd_buff_push, by kind of byte. *)

ReleasePrefix(byte) ==
  /\ byte = Released
  /\ key_released' = TRUE
  /\ UNCHANGED <<enhanced_key, keyboard_status, char>>

EnhancedPrefix(byte) ==
  /\ byte = Enhanced
  /\ enhanced_key' = TRUE
  /\ UNCHANGED <<key_released, keyboard_status, char>>

(* scancode |= 0x80 *)
Scancode(byte) == IF enhanced_key THEN (byte % 128) + 128 ELSE byte

(* Mutant of KeyUp: the prefix 0xE0 outlives the release. *)
KeyUpStaysEnhanced(byte) ==
  /\ byte \notin {Released, Enhanced}
  /\ key_released
  /\ key_released' = FALSE
  /\ keyboard_status' = keyboard_status \ {Scancode(byte)}
  /\ UNCHANGED <<enhanced_key, char>>

KeyUp(byte) ==
  /\ byte \notin {Released, Enhanced}
  /\ key_released
  /\ key_released' = FALSE
  /\ enhanced_key' = FALSE
  /\ keyboard_status' = keyboard_status \ {Scancode(byte)}
  /\ UNCHANGED char

ModifierDown(byte) ==
  /\ byte \notin {Released, Enhanced}
  /\ ~key_released
  /\ Scancode(byte) \in Modifiers
  /\ keyboard_status' = keyboard_status \cup {Scancode(byte)}
  /\ UNCHANGED <<key_released, enhanced_key, char>>

(* Mutant of KeyDown: control is taken for shift. *)
KeyDownShiftsOnControl(byte) ==
  /\ byte \notin {Released, Enhanced}
  /\ ~key_released
  /\ Scancode(byte) \notin Modifiers
  /\ char' = translate(Scancode(byte), keyboard_status # {})
  /\ UNCHANGED <<key_released, enhanced_key, keyboard_status>>

(* A full buffer drops the character; the test for 0xFF is never true: a   *)
(* char is signed.                                                         *)
KeyDown(byte) ==
  /\ byte \notin {Released, Enhanced}
  /\ ~key_released
  /\ Scancode(byte) \notin Modifiers
  /\ char' = translate(Scancode(byte), Shift(keyboard_status))
  /\ UNCHANGED <<key_released, enhanced_key, keyboard_status>>

Decode(byte) ==
  \/ ReleasePrefix(byte)
  \/ EnhancedPrefix(byte)
  \/ KeyUp(byte)
  \/ ModifierDown(byte)
  \/ KeyDown(byte)
-----------------------------------------------------------------------------
DecoderInit ==
  /\ key_released = FALSE
  /\ enhanced_key = FALSE
  /\ keyboard_status = {}
  /\ char = Nothing
  /\ down = {}
  /\ sending = <<>>
  /\ event = <<>>
  /\ blurred = {}

Bytes(k, press) ==
  (IF k.enhanced THEN <<Enhanced>> ELSE <<>>) \o (IF press THEN <<>> ELSE <<Released>>) \o <<k.code>>

(***************************************************************************)
(* kbd_buff_push forgets 0xE0 only when a key is released: while an        *)
(* enhanced key is held, the other keys' codes may be taken for enhanced   *)
(* ones.  Such an event blurs the key, and the key whose code is its code  *)
(* with 0x80 added, until their next event.                                *)
(***************************************************************************)
Blur(k) ==
  IF ~k.enhanced /\ \E e \in down \ {k} : e.enhanced
  THEN blurred \cup {x \in Keys : x.code = k.code}
  ELSE blurred \ {k}

(* A key goes down, or the last key repeats because it is held. *)
Press(k) ==
  /\ sending = <<>>
  /\ k \in down => event = <<k, TRUE>>
  /\ down' = down \cup {k}
  /\ sending' = Bytes(k, TRUE)
  /\ event' = <<k, TRUE>>
  /\ blurred' = Blur(k)
  /\ char' = Nothing
  /\ UNCHANGED <<key_released, enhanced_key, keyboard_status>>

Release(k) ==
  /\ sending = <<>>
  /\ k \in down
  /\ down' = down \ {k}
  /\ sending' = Bytes(k, FALSE)
  /\ event' = <<k, FALSE>>
  /\ blurred' = Blur(k)
  /\ char' = Nothing
  /\ UNCHANGED <<key_released, enhanced_key, keyboard_status>>

(* An answer to the reset that init_8042 did not wait for is taken for a   *)
(* scan code, of a key there is no entry for.                              *)
LateAnswer ==
  /\ sending = <<>>
  /\ sending' \in {<<250>>, <<170>>}
  /\ event' = <<>>
  /\ char' = Nothing
  /\ UNCHANGED <<key_released, enhanced_key, keyboard_status, down, blurred>>

(* isr33: one byte is read and decoded. *)
KeyInterrupt ==
  /\ sending # <<>>
  /\ Decode(Head(sending))
  /\ sending' = Tail(sending)
  /\ UNCHANGED <<down, event, blurred>>

DecoderNext ==
  \/ \E k \in Keys : Press(k)
  \/ \E k \in Keys : Release(k)
  \/ LateAnswer
  \/ KeyInterrupt

DecoderSpec == DecoderInit /\ [][DecoderNext]_decoderVars
-----------------------------------------------------------------------------
HeldModifiers == {CodeOf(k) : k \in down} \cap Modifiers

(***************************************************************************)
(* Between two events the decoder holds a modifier exactly when its key is *)
(* down, in any order of pressing, repeating and releasing keys, but for   *)
(* the blurred keys: a modifier gets stuck only by an event while an       *)
(* enhanced key is held, and its next clear event frees it.                *)
(***************************************************************************)
ModifiersTrackKeys ==
  sending = <<>> =>
    \A k \in Keys \ blurred : CodeOf(k) \in Modifiers =>
      (CodeOf(k) \in keyboard_status <=> k \in down)

(***************************************************************************)
(* While no key is blurred, a key event that is over put the character of  *)
(* that key into the buffer, with the shift that is really held; no        *)
(* release, no modifier and no prefix byte put anything there.             *)
(***************************************************************************)
CharsMatchKeys ==
  sending = <<>> /\ event # <<>> /\ blurred = {} =>
    char = IF event[2] /\ CodeOf(event[1]) \notin Modifiers
           THEN translate(CodeOf(event[1]), Shift(HeldModifiers))
           ELSE Nothing
=============================================================================
