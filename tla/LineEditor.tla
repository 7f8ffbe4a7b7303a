------------------------------ MODULE LineEditor ------------------------------
(***************************************************************************)
(* What the command loop expects of scanf("%256s", buffer): the user edits *)
(* one line, and the line handed over is exactly the one edited.           *)
(***************************************************************************)
EXTENDS Naturals, Sequences

CONSTANTS
  Printable,   \* the characters a line is made of
  NMax         \* how many fit

VARIABLES
  line,        \* the line being edited
  entered      \* the line last handed over

Init == line = <<>> /\ entered = <<>>

Type ==
  /\ Len(line) < NMax
  /\ \E c \in Printable : line' = Append(line, c)
  /\ UNCHANGED entered

Erase ==
  /\ line # <<>>
  /\ line' = SubSeq(line, 1, Len(line) - 1)
  /\ UNCHANGED entered

Enter ==
  /\ entered' = line
  /\ line' = <<>>

Next == Type \/ Erase \/ Enter

Spec == Init /\ [][Next]_<<line, entered>>
=============================================================================
