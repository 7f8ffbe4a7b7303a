-------------------------------- MODULE Display --------------------------------
(***************************************************************************)
(* The display as the kernel uses it: vga_init at startup, the command tem *)
(* that changes the text mode, clrscr, the hardware cursor, and the        *)
(* numbers printf shows.                                                   *)
(***************************************************************************)
EXTENDS Vga, Numbers

CONSTANTS
  Arguments       \* the numbers typed after tem

ASSUME DisplayAssumption == Arguments \subseteq Nat

VARIABLES
  setting,        \* the argument of the set_text_mode under way, then of the last one
  pc,             \* its next access; 0 when it has returned
  cleared,        \* the cells that clrscr has cleared
  place,          \* history: xpos and ypos of the last cursor(); <<>> before
  shown           \* history: conversion, number and text of the last printf; <<>> before

commandVars == <<setting, pc, cleared, place, shown>>
displayVars == <<vgaVars, commandVars>>

TEXT_90x30 == 2

(* The accesses of every call there is; values from 6 on are all alike. *)
Calls == [mode \in 0 .. 6 |-> set_text_mode(mode)]

Call(mode) == setting' = (IF mode > 6 THEN 6 ELSE mode) /\ pc' = 1

(* set_text_mode goes on; when it has returned its callers call clrscr. *)
Go ==
  /\ pc \in 1 .. Len(Calls[setting])
  /\ Do(Calls[setting][pc])
  /\ pc' = pc + 1
  /\ UNCHANGED <<setting, cleared, place, shown>>

(* clrscr *)
ClearScreen ==
  /\ pc = Len(Calls[setting]) + 1
  /\ cleared' = COLUMNS * LINES
  /\ damaged' = (damaged \/ ~ReachesText(chip))
  /\ pc' = 0
  /\ UNCHANGED <<chip, local, font, COLUMNS, LINES, setting, place, shown>>

(* The command tem. *)
ChangeMode ==
  /\ pc = 0
  /\ \E n \in Arguments : Call(atoi(Decimal(n)))
  /\ place' = <<>> /\ shown' = <<>>
  /\ UNCHANGED <<vgaVars, cleared>>

Cell(x, y) == y * COLUMNS + x

(* cursor(): the shell prints at x, y and moves the hardware cursor there. *)
MoveCursor ==
  /\ pc = 0
  /\ place = <<>>
  /\ \E x \in {0, COLUMNS - 1}, y \in {0, LINES - 1} :
       /\ LET Put(c, i, byte) == Written(Written(c, "crtc", "index", i), "crtc", "data", byte)
          IN chip' = Put(Put(chip, 14, (Cell(x, y) \div 256) % 256), 15, Cell(x, y) % 256)
       /\ place' = <<x, y>>
  /\ UNCHANGED <<local, font, damaged, COLUMNS, LINES, setting, pc, cleared, shown>>

(* printf of one number. *)
PrintNumber ==
  /\ pc = 0
  /\ shown = <<>>
  /\ place = <<>>
  /\ \E conversion \in {"%d", "%u", "%o", "%x"}, n \in 0 .. Word - 1 :
       shown' = <<conversion, n, Converted(conversion, n)>>
  /\ UNCHANGED <<vgaVars, setting, pc, cleared, place>>

(* vga_init sets the first mode. *)
DisplayInit ==
  /\ VgaInit
  /\ setting = TEXT_90x30 /\ pc = 1
  /\ cleared = 0 /\ place = <<>> /\ shown = <<>>

DisplayNext == Go \/ ClearScreen \/ ChangeMode \/ MoveCursor \/ PrintNumber

DisplaySpec == DisplayInit /\ [][DisplayNext]_displayVars
-----------------------------------------------------------------------------
(* What the registers say. *)

Crtc == chip.regs.crtc

ShownColumns == Crtc[1] + 1

RowOffset == Crtc[19] * 2                   \* cells from one line to the next

CharHeight == (Crtc[9] % 32) + 1

(* The last scan line; bits 8 and 9 are in register 7. *)
ScanLines ==
  1 + Crtc[18] + (IF Has(Crtc[7], 2) THEN 256 ELSE 0) + (IF Has(Crtc[7], 64) THEN 512 ELSE 0)

(***************************************************************************)
(* After set_text_mode every register holds the value of its mode's table, *)
(* whatever the firmware or the mode before left: no write was lost to     *)
(* the lock of the CRTC or taken for an index by the attribute controller, *)
(* and what write_font changes it has restored.  The screen is on.         *)
(* (Registers 14 and 15 belong to the cursor, bits 7 of 3 and 17 to the    *)
(* lock.)                                                                  *)
(***************************************************************************)
ModeIsProgrammed ==
  pc = 0 =>
    LET wanted == Registers(TextMode(setting).regs)
        free == [crtc |-> [i \in 0 .. 24 |-> IF i \in {14, 15} THEN Crtc[i]
                                             ELSE StayUnlocked(wanted.crtc)[i]]]
    IN /\ chip.regs = [wanted EXCEPT !.crtc = free.crtc]
       /\ Has(chip.index.ac, 32)

(***************************************************************************)
(* COLUMNS and LINES, by which the console computes every address, are     *)
(* what the registers make the VGA show, the loaded font is as high as a   *)
(* line, all that is shown has been cleared, and the hardware cursor       *)
(* blinks at the column and line it was moved to.                          *)
(***************************************************************************)
GeometryAgrees ==
  pc = 0 =>
    /\ COLUMNS = ShownColumns /\ COLUMNS = RowOffset
    /\ LINES * CharHeight = ScanLines
    /\ font = CharHeight
    /\ cleared = ShownColumns * (ScanLines \div CharHeight)
    /\ place # <<>> => LET cell == 256 * Crtc[14] + Crtc[15] IN
                        place = <<cell % ShownColumns, cell \div ShownColumns>>

(***************************************************************************)
(* Fonts are only written to plane 2 and text only to planes 0 and 1,      *)
(* although set_text_mode changes the addressing of the memory for the     *)
(* font and back, register by register.                                    *)
(***************************************************************************)
PlanesKeptApart == ~damaged

(***************************************************************************)
(* The text printf shows for a number with %d or %x, and with %u below     *)
(* half of the range, reads as that number, and atoi reads it back         *)
(* (ReadsBack of module Numbers): the sign of %d is not lost, although     *)
(* printf itself holds only unsigned numbers, and no digit is.             *)
(***************************************************************************)
NumbersReadBack == shown # <<>> => ReadsBack(shown[1], shown[2], shown[3])
=============================================================================
