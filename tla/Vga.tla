---------------------------------- MODULE Vga ----------------------------------
(***************************************************************************)
(* set_text_mode (vga_tools.c): the port accesses and memory writes of     *)
(* write_regs and write_font, one by one, against the registers of the     *)
(* VGA.  A register is written through the port pair of its unit, index    *)
(* and data, except in the attribute controller, where one port takes      *)
(* both in turn.  The registers also decide which planes of the video      *)
(* memory a write reaches: the characters and attributes (planes 0 and 1,  *)
(* at even and odd addresses), or the font (plane 2).                      *)
(***************************************************************************)
EXTENDS Bits, Sequences, SequencesExt, VgaModes

VARIABLES
  chip,        \* the registers, their indices, and what the port "ac" takes next
  local,       \* seq2, seq4, gc4, gc5, gc6 of write_font, and a temporary
  font,        \* the height of the font in plane 2, 0 before one is loaded
  damaged,     \* a write reached other planes than it was meant for
  COLUMNS, LINES

vgaVars == <<chip, local, font, damaged, COLUMNS, LINES>>

-----------------------------------------------------------------------------
(* The VGA. *)

Locked(c) == Has(c.regs.crtc[17], 128)

(* Bit 7 of CRTC register 3 makes registers 16 and 17 readable. *)
LightPen(c) == c.index.crtc \in {16, 17} /\ ~Has(c.regs.crtc[3], 128)

ReadBack(c, unit) ==
  IF unit = "crtc" /\ LightPen(c) THEN {0, 255} ELSE {c.regs[unit][c.index[unit]]}

(* While bit 5 of its index is set the palette is shown, and not written. *)
Writable(c, unit) ==
  /\ c.index[unit] % 32 \in DOMAIN c.regs[unit]
  /\ ~(unit = "crtc" /\ Locked(c) /\ c.index.crtc < 8)
  /\ ~(unit = "ac" /\ Has(c.index.ac, 32) /\ c.index.ac % 32 < 16)

Written(c, unit, part, byte) ==
  IF part = "index" \/ (unit = "ac" /\ ~c.acData)
    THEN [c EXCEPT !.index[unit] = byte, !.acData = IF unit = "ac" THEN TRUE ELSE @]
    ELSE [c EXCEPT !.acData = IF unit = "ac" THEN FALSE ELSE @,
                   !.regs[unit] = IF Writable(c, unit)
                                    THEN [@ EXCEPT ![c.index[unit] % 32] = byte] ELSE @]

Window(c) == (c.regs.gc[6] \div 4) % 4          \* 3: the 32K at 0xB8000

ReachesText(c) ==
  /\ c.regs.seq[2] % 4 = 3 /\ ~Has(c.regs.seq[4], 4)
  /\ Has(c.regs.gc[5], 16) /\ Has(c.regs.gc[6], 2) /\ Window(c) = 3

ReachesFont(c) ==
  /\ c.regs.seq[2] = 4 /\ Has(c.regs.seq[4], 4)
  /\ ~Has(c.regs.gc[5], 16) /\ ~Has(c.regs.gc[6], 2) /\ Window(c) = 3
-----------------------------------------------------------------------------
(* The accesses. *)

Out(unit, part, byte) == <<"out", unit, part, byte>>
In(unit, name) == <<"in", unit, name>>                    \* a register into a local
OutLocal(unit, name, set, clear) == <<"out local", unit, name, set, clear>>
InstatRead == <<"instat">>                                \* port "ac" takes an index next
LoadFont(height) == <<"font", height>>
SetSize(cols, rows) == <<"size", cols, rows>>

(* Elements from to from + n - 1 of a table, as registers 0 to n - 1. *)
Part(regs, from, n) == [i \in 0 .. n - 1 |-> regs[from + i]]

(* The registers of a mode. *)
Registers(regs) ==
  [misc |-> Part(regs, 1, 1), seq |-> Part(regs, 2, 5), crtc |-> Part(regs, 7, 25),
   gc |-> Part(regs, 32, 9), ac |-> Part(regs, 41, 21)]

Each(values, Accesses(_, _)) ==
  FlattenSeq([i \in 1 .. Cardinality(DOMAIN values) |-> Accesses(i - 1, values[i - 1])])

Indexed(unit, values) ==
  Each(values, LAMBDA i, byte : <<Out(unit, "index", i), Out(unit, "data", byte)>>)

(* Mutant of UnlockCrtc: the code relies on the tables to unlock them. *)
UnlockCrtc_Not == <<>>

UnlockCrtc ==
  <<Out("crtc", "index", 3), In("crtc", "tmp"), OutLocal("crtc", "tmp", 128, 0),
    Out("crtc", "index", 17), In("crtc", "tmp"), OutLocal("crtc", "tmp", 0, 128)>>

StayUnlocked(crtc) == [crtc EXCEPT ![3] = With(@, 128), ![17] = Without(@, 128)]

(* Mutant of Attributes: the port is brought in step once, not each time.  *)
Attributes_Unsynchronized(ac) ==
  Each(ac, LAMBDA i, byte : <<Out("ac", "both", i), Out("ac", "both", byte)>>)

Attributes(ac) ==
  Each(ac, LAMBDA i, byte : <<InstatRead, Out("ac", "both", i), Out("ac", "both", byte)>>)

Unblank == <<InstatRead, Out("ac", "both", 32)>>

write_regs(regs) ==
  LET r == Registers(regs) IN
  <<Out("misc", "data", r.misc[0])>>
  \o Indexed("seq", r.seq)
  \o UnlockCrtc \o Indexed("crtc", StayUnlocked(r.crtc))
  \o Indexed("gc", r.gc)
  \o Attributes(r.ac) \o Unblank

(* Mutant of set_plane: it forgets the write plane. *)
set_plane_ReadOnly(p) == <<Out("gc", "index", 4), Out("gc", "data", p)>>

set_plane(p) ==
  <<Out("gc", "index", 4), Out("gc", "data", p), Out("seq", "index", 2), Out("seq", "data", 2^p)>>

Save(unit, i, name) == <<Out(unit, "index", i), In(unit, name)>>

Restore(unit, i, name) == <<Out(unit, "index", i), OutLocal(unit, name, 0, 0)>>

write_font(height) ==
  Save("seq", 2, "seq2")
  \o Save("seq", 4, "seq4") \o <<OutLocal("seq", "seq4", 4, 0)>>
  \o Save("gc", 4, "gc4")
  \o Save("gc", 5, "gc5") \o <<OutLocal("gc", "gc5", 0, 16)>>
  \o Save("gc", 6, "gc6") \o <<OutLocal("gc", "gc6", 0, 2)>>
  \o set_plane(2)
  \o <<LoadFont(height)>>
  \o Restore("seq", 2, "seq2") \o Restore("seq", 4, "seq4")
  \o Restore("gc", 4, "gc4") \o Restore("gc", 5, "gc5") \o Restore("gc", 6, "gc6")

Mode(regs, cols, rows, ht) == [regs |-> regs, cols |-> cols, rows |-> rows, ht |-> ht]

(* The switch; VGA_TEXT_MODE numbers the modes from 0. *)
TextMode(mode) ==
  CASE mode = 1 -> Mode(g_40x25_text, 40, 25, 16)
    [] mode = 4 -> Mode(g_40x50_text, 40, 50, 8)
    [] mode = 5 -> Mode(g_80x50_text, 80, 50, 8)
    [] mode = 2 -> Mode(g_90x30_text, 90, 30, 16)
    [] mode = 3 -> Mode(g_90x60_text, 90, 60, 8)
    [] OTHER    -> Mode(g_80x25_text, 80, 25, 16)

(* Mutant of FontFor: there is only one font. *)
FontFor_Always16(ht) == 16

FontFor(ht) == IF ht >= 16 THEN 16 ELSE 8

set_text_mode(mode) ==
  LET m == TextMode(mode) IN
  write_regs(m.regs) \o write_font(FontFor(m.ht)) \o <<SetSize(m.cols, m.rows)>>
-----------------------------------------------------------------------------
(* One access.  SetSize stands for the loop over the attributes and the    *)
(* variables it leaves; the words for the BIOS are not modelled.           *)
Do(access) ==
  CASE access[1] = "out" ->
         /\ chip' = Written(chip, access[2], access[3], access[4])
         /\ UNCHANGED <<local, font, damaged, COLUMNS, LINES>>
    [] access[1] = "in" ->
         /\ \E byte \in ReadBack(chip, access[2]) : local' = [local EXCEPT ![access[3]] = byte]
         /\ UNCHANGED <<chip, font, damaged, COLUMNS, LINES>>
    [] access[1] = "out local" ->
         /\ chip' = Written(chip, access[2], "data",
                            LET byte == local[access[3]] IN
                            IF access[4] # 0 THEN With(byte, access[4])
                            ELSE IF access[5] # 0 THEN Without(byte, access[5]) ELSE byte)
         /\ UNCHANGED <<local, font, damaged, COLUMNS, LINES>>
    [] access[1] = "instat" ->
         /\ chip' = [chip EXCEPT !.acData = FALSE]
         /\ UNCHANGED <<local, font, damaged, COLUMNS, LINES>>
    [] access[1] = "font" ->
         /\ font' = access[2]
         /\ damaged' = (damaged \/ ~ReachesFont(chip))
         /\ UNCHANGED <<chip, local, COLUMNS, LINES>>
    [] access[1] = "size" ->
         /\ COLUMNS' = access[2] /\ LINES' = access[3]
         /\ damaged' = (damaged \/ ~ReachesText(chip))
         /\ UNCHANGED <<chip, local, font>>

(* The firmware's mode 3: the CRTC locked or not, registers 16 and 17      *)
(* readable or not, the port of the attribute controller anywhere.         *)
VgaInit ==
  /\ \E locked, readable, data \in BOOLEAN :
       LET r == Registers(g_80x25_text)
           crtc == [r.crtc EXCEPT ![3] = IF readable THEN With(@, 128) ELSE Without(@, 128),
                                  ![17] = IF locked THEN With(@, 128) ELSE Without(@, 128)]
       IN chip = [regs |-> [r EXCEPT !.crtc = crtc], acData |-> data,
                  index |-> [seq |-> 0, crtc |-> 0, gc |-> 0, ac |-> 32, misc |-> 0]]
  /\ local = [name \in {"seq2", "seq4", "gc4", "gc5", "gc6", "tmp"} |-> 0]
  /\ font = 0
  /\ damaged = FALSE
  /\ COLUMNS = 0 /\ LINES = 0
=============================================================================
