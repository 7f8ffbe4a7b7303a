------------------------------- MODULE MCConsole -------------------------------
(* Small screens, words of one or two letters for the commands.            *)
EXTENDS Console

TwoModes == <<[cols |-> 4, lines |-> 3], [cols |-> 3, lines |-> 4]>>

OneLetterCommands(word) ==
  CASE word = <<97>> -> "tem" [] word = <<98>> -> "echo" [] word = <<97, 98>> -> "cls"
    [] word = <<97, 97>> -> "quiet" [] OTHER -> "unknown"

(* What is neither has no mode. *)
TwoModeNames(word) == IF word = <<98>> THEN 2 ELSE IF word = <<97>> THEN 1 ELSE 0
=============================================================================
