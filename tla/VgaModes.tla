------------------------------- MODULE VgaModes -------------------------------
(***************************************************************************)
(* vga_modes.c: the registers of the text modes, in the order in which     *)
(* write_regs takes them: 1 miscellaneous, 5 sequencer, 25 CRTC, 9         *)
(* graphics controller and 21 attribute controller registers.              *)
(***************************************************************************)
EXTENDS Naturals

g_40x25_text == <<
  103,
  3, 8, 3, 0, 2,
  45, 39, 40, 144, 43, 160, 191, 31, 0, 79, 13, 14, 0,
  0, 0, 160, 156, 142, 143, 20, 31, 150, 185, 163, 255,
  0, 0, 0, 0, 0, 16, 14, 0, 255,
  0, 1, 2, 3, 4, 5, 20, 7, 56, 57, 58, 59, 60, 61, 62, 63, 12, 0, 15, 8, 0>>

g_40x50_text == <<
  103,
  3, 8, 3, 0, 2,
  45, 39, 40, 144, 43, 160, 191, 31, 0, 71, 6, 7, 0,
  0, 4, 96, 156, 142, 143, 20, 31, 150, 185, 163, 255,
  0, 0, 0, 0, 0, 16, 14, 0, 255,
  0, 1, 2, 3, 4, 5, 20, 7, 56, 57, 58, 59, 60, 61, 62, 63, 12, 0, 15, 8, 0>>

g_80x25_text == <<
  103,
  3, 0, 3, 0, 2,
  95, 79, 80, 130, 85, 129, 191, 31, 0, 79, 13, 14, 0,
  0, 0, 80, 156, 14, 143, 40, 31, 150, 185, 163, 255,
  0, 0, 0, 0, 0, 16, 14, 0, 255,
  0, 1, 2, 3, 4, 5, 20, 7, 56, 57, 58, 59, 60, 61, 62, 63, 12, 0, 15, 8, 0>>

g_80x50_text == <<
  103,
  3, 0, 3, 0, 2,
  95, 79, 80, 130, 85, 129, 191, 31, 0, 71, 6, 7, 0,
  0, 1, 64, 156, 142, 143, 40, 31, 150, 185, 163, 255,
  0, 0, 0, 0, 0, 16, 14, 0, 255,
  0, 1, 2, 3, 4, 5, 20, 7, 56, 57, 58, 59, 60, 61, 62, 63, 12, 0, 15, 8, 0>>

g_90x30_text == <<
  231,
  3, 1, 3, 0, 2,
  107, 89, 90, 130, 96, 141, 11, 62, 0, 79, 13, 14, 0,
  0, 0, 0, 234, 12, 223, 45, 16, 232, 5, 163, 255,
  0, 0, 0, 0, 0, 16, 14, 0, 255,
  0, 1, 2, 3, 4, 5, 20, 7, 56, 57, 58, 59, 60, 61, 62, 63, 12, 0, 15, 8, 0>>

g_90x60_text == <<
  231,
  3, 1, 3, 0, 2,
  107, 89, 90, 130, 96, 141, 11, 62, 0, 71, 6, 7, 0,
  0, 0, 0, 234, 12, 223, 45, 8, 232, 5, 163, 255,
  0, 0, 0, 0, 0, 16, 14, 0, 255,
  0, 1, 2, 3, 4, 5, 20, 7, 56, 57, 58, 59, 60, 61, 62, 63, 12, 0, 15, 8, 0>>
=============================================================================
