--------------------------------- MODULE Bits ---------------------------------
(* Single bits of the bytes that ports and registers hold.  A bit is given *)
(* by its value: 1, 2, 4, 8 ...                                            *)
EXTENDS Integers

Has(byte, bit) == (byte \div bit) % 2 = 1

With(byte, bit) == IF Has(byte, bit) THEN byte ELSE byte + bit

Without(byte, bit) == IF Has(byte, bit) THEN byte - bit ELSE byte
=============================================================================
