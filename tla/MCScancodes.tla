---------------------------- MODULE MCScancodes ----------------------------
(* A keyboard with one key of every kind kbd_buff_push distinguishes. *)
EXTENDS Scancodes

Plain(code) == [code |-> code, enhanced |-> FALSE]
Extended(code) == [code |-> code, enhanced |-> TRUE]

SomeKeys ==
  {Plain(28),       \* a
   Plain(18),       \* left shift
   Plain(89),       \* right shift: its code is also an entry of the table
   Plain(20),       \* left control
   Plain(102),      \* backspace
   Extended(20),    \* right control
   Extended(90),    \* enter of the key pad
   Extended(107)}   \* cursor left
=============================================================================
