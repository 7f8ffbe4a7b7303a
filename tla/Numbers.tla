------------------------------- MODULE Numbers -------------------------------
(***************************************************************************)
(* The conversions between numbers and text in conio.c.  A character is    *)
(* its code.  All types of the code are 32 bits wide; here they have Word  *)
(* values.                                                                 *)
(***************************************************************************)
EXTENDS Integers, Sequences

CONSTANT Word      \* the number of values of uint32_t

ASSUME NumbersAssumption == Word \in Nat /\ Word > 2 /\ Word % 2 = 0

Zero == 48
Minus == 45

IsDigit(c) == c \in Zero .. Zero + 9

(* What is typed for a number. *)
Decimal(n) ==
  LET text[m \in 0 .. n] ==
        IF m < 10 THEN <<Zero + m>> ELSE Append(text[m \div 10], Zero + (m % 10))
  IN text[n]

(* A uint32_t read as an int32_t. *)
Signed(u) == IF u < Word \div 2 THEN u ELSE u - Word

(* How many digits a text begins with. *)
Leading(text) == CHOOSE n \in 0 .. Len(text) :
  /\ \A i \in 1 .. n : IsDigit(text[i])
  /\ n < Len(text) => ~IsDigit(text[n + 1])

(* Mutant of atoi: base is multiplied before the digit is added. *)
atoi_BaseFirst(text) ==
  LET n == Leading(text)
      sum[i \in 0 .. n] ==
        IF i = 0 THEN [num |-> 0, base |-> 1]
        ELSE LET s == sum[i - 1] IN
             [num  |-> (s.num + s.base * 10 * (text[n + 1 - i] - Zero)) % Word,
              base |-> (s.base * 10) % Word]
  IN sum[n].num

(* Only leading digits count, from the last to the first; num and base wrap around. *)
atoi(text) ==
  LET n == Leading(text)
      sum[i \in 0 .. n] ==
        IF i = 0 THEN [num |-> 0, base |-> 1]
        ELSE LET s == sum[i - 1] IN
             [num  |-> (s.num + s.base * (text[n + 1 - i] - Zero)) % Word,
              base |-> (s.base * 10) % Word]
  IN sum[n].num

Char(digit) == IF digit < 10 THEN Zero + digit ELSE 87 + digit     \* 'a' - 10

(* Every base but 16 is 10 to the division, and only 10 knows a sign. *)
itoa(base, d) ==
  LET divisor == IF base = 16 THEN 16 ELSE 10
      digits[u \in 0 .. Word - 1] ==
        IF u < divisor THEN <<Char(u)>>
        ELSE Append(digits[u \div divisor], Char(u % divisor))
  IN IF base = 10 /\ d < 0 THEN <<Minus>> \o digits[-d] ELSE digits[d % Word]

(***************************************************************************)
(* What printf prints for a conversion of the argument u.  It holds every  *)
(* argument in an unsigned int, so its own test for negative numbers never *)
(* succeeds and the sign is left to itoa, which knows no unsigned ones.    *)
(***************************************************************************)
Converted(conversion, u) ==
  CASE conversion \in {"%d", "%u"} -> itoa(10, Signed(u))
    [] conversion = "%o"           -> itoa(8, Signed(u))
    [] conversion = "%x"           -> itoa(16, Signed(u))

-----------------------------------------------------------------------------
(* The text and the number. *)

(* What a character is worth as a digit. *)
DigitOf(c) == IF c >= 97 THEN c - 87 ELSE c - Zero

(* The number a text of digits spells, without bound. *)
Spelled(base, text) ==
  LET sum[i \in 0 .. Len(text)] ==
        IF i = 0 THEN 0 ELSE base * sum[i - 1] + DigitOf(text[i])
  IN sum[Len(text)]

(***************************************************************************)
(* The text shows the argument u as it should: %x in base 16, %d as the    *)
(* signed number with its sign, %u as the unsigned one below half of the   *)
(* range, all without leading zeros; and atoi reads back the numbers that  *)
(* %d and %u show and that are not negative.                               *)
(* Nothing is said of the value that %u shows from half of the range on,   *)
(* where it gets the '-' that is for %d alone, nor of %o, which is shown   *)
(* in base 10: there the text is not the number.                           *)
(***************************************************************************)
ReadsBack(conversion, u, text) ==
  LET n == Signed(u)
      digits == IF text[1] = Minus THEN Tail(text) ELSE text
      value == (IF text[1] = Minus THEN -1 ELSE 1) * Spelled(10, digits)
  IN /\ digits[1] = Zero => Len(text) = 1
     /\ conversion = "%x" => Spelled(16, text) = u
     /\ conversion = "%d" => value = n
     /\ conversion = "%u" /\ n >= 0 => value = u
     /\ conversion \in {"%d", "%u"} /\ n >= 0 => atoi(text) = u
=============================================================================
