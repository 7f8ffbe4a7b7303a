----------------------------- MODULE ConsoleProofs -----------------------------
(***************************************************************************)
(* Theorems about the specifications of the modules Console and Display:   *)
(* the text screen with scanf and the command line, and the text modes.    *)
(***************************************************************************)
EXTENDS Console, Display, FiniteSetTheorems, NumbersProofs

-----------------------------------------------------------------------------
(* The screen.                                                             *)

(* Screens of one size; their cells are 0 .. cols * lines - 1. *)
Sized(cols, lines, cells) ==
  [cols : {cols}, lines : {lines}, x : 0 .. (cols - 1), y : 0 .. (lines - 1),
   video : [cells -> Int], cursor : Int]

Cells(cols, lines) == 0 .. (cols * lines - 1)

Screens(cols, lines) == Sized(cols, lines, Cells(cols, lines))

InPlace(s) == s.cursor = s.y * s.cols + s.x

(* Between the columns and the end of the line. *)
Overfull(cols, lines, cells) ==
  [cols : {cols}, lines : {lines}, x : 0 .. cols, y : 0 .. lines,
   video : [cells -> Int], cursor : Int]

(* The cursor is put where the next character goes. *)
LEMMA CursorInPlace ==
  ASSUME NEW cols \in Nat \ {0}, NEW lines \in Nat \ {0}, NEW cells, NEW s \in Sized(cols, lines, cells)
  PROVE  cursor(s) \in Sized(cols, lines, cells) /\ InPlace(cursor(s))
<1>1. s.y * s.cols + s.x \in Int
  BY DEF Sized
<1>2. cursor(s) \in Sized(cols, lines, cells)
  BY <1>1 DEF cursor, Sized
<1>3. InPlace(cursor(s))
  BY <1>1 DEF cursor, Sized, InPlace
<1> QED
  BY <1>2, <1>3

(* A new line, scrolling or not. *)
LEMMA NewlineOnScreen ==
  ASSUME NEW cols \in Nat \ {0}, NEW lines \in Nat \ {0}, NEW cells,
         NEW s \in Overfull(cols, lines, cells), s.y < lines
  PROVE  Newline(s) \in Sized(cols, lines, cells) /\ InPlace(Newline(s))
<1> DEFINE down == [s EXCEPT !.x = 0, !.y = s.y + 1]
           up == [vga_text_scrollup(down) EXCEPT !.y = s.y]
<1>1. down \in Overfull(cols, lines, cells) /\ down.x = 0 /\ down.y = s.y + 1 /\ down.lines = lines
  <2>1. 0 \in 0 .. cols /\ s.y + 1 \in 0 .. lines
    BY DEF Overfull
  <2>2. ASSUME NEW y \in 0 .. lines
        PROVE  [s EXCEPT !.x = 0, !.y = y] \in Overfull(cols, lines, cells)
    BY <2>1, <2>2 DEF Overfull
  <2>3. s.lines = lines /\ down.x = 0 /\ down.y = s.y + 1 /\ down.lines = s.lines
    BY DEF Overfull
  <2> QED
    BY <2>1, <2>2, <2>3
<1>2. CASE down.y >= lines
  <2>1. vga_text_scrollup(down) \in Overfull(cols, lines, cells) /\ vga_text_scrollup(down).x = 0
    <3> HIDE DEF down
    <3> DEFINE video == [i \in DOMAIN down.video |->
                 IF i + down.cols \in DOMAIN down.video THEN down.video[i + down.cols] ELSE SPACE]
    <3>1. video \in [cells -> Int]
      <4>1. down.video \in [cells -> Int]
        BY <1>1 DEF Overfull
      <4> QED
        BY <4>1 DEF SPACE
    <3> HIDE DEF video
    <3>2. vga_text_scrollup(down) = [down EXCEPT !.video = video]
      BY DEF vga_text_scrollup, video
    <3>3. [down EXCEPT !.video = video] \in Overfull(cols, lines, cells)
          /\ [down EXCEPT !.video = video].x = 0
      BY <1>1, <3>1 DEF Overfull
    <3> QED
      BY <3>2, <3>3
  <2>2. s.y \in 0 .. (lines - 1)
    BY DEF Overfull
  <2> DEFINE scrolled == vga_text_scrollup(down)
  <2> HIDE DEF scrolled
  <2>3. [scrolled EXCEPT !.y = s.y] \in Sized(cols, lines, cells)
    BY <2>1, <2>2 DEF Overfull, Sized, scrolled
  <2> HIDE DEF down
  <2>4. Newline(s) = cursor([scrolled EXCEPT !.y = s.y])
    BY <1>1, <1>2 DEF Newline, down, scrolled, Overfull
  <2> QED
    BY <2>3, <2>4, CursorInPlace
<1>3. CASE ~(down.y >= lines)
  <2>1. down \in Sized(cols, lines, cells)
    <3>1. down.x \in 0 .. (cols - 1) /\ down.y \in 0 .. (lines - 1)
      BY <1>1, <1>3 DEF Overfull
    <3> HIDE DEF down
    <3> QED
      BY <1>1, <3>1 DEF Overfull, Sized
  <2>2. Newline(s) = cursor(down)
    BY <1>1, <1>3 DEF Newline
  <2> HIDE DEF down
  <2> QED
    BY <2>1, <2>2, CursorInPlace
<1> QED
  BY <1>2, <1>3

(* One step back, over the left margin too. *)
LEMMA BackspaceOnScreen ==
  ASSUME NEW cols \in Nat \ {0}, NEW lines \in Nat \ {0}, NEW cells, NEW s \in Sized(cols, lines, cells)
  PROVE  Backspace(s) \in Sized(cols, lines, cells)
<1>1. ASSUME NEW t \in Sized(cols, lines, cells)
      PROVE  Erased(cursor(t)) \in Sized(cols, lines, cells)
  <2>1. cursor(t) \in Sized(cols, lines, cells)
    BY CursorInPlace
  <2> QED
    BY <2>1 DEF Erased, Sized, SPACE
<1>2. CASE s.x > 0
  <2>1. [s EXCEPT !.x = s.x - 1] \in Sized(cols, lines, cells)
    BY <1>2 DEF Sized
  <2> QED
    BY <1>1, <1>2, <2>1 DEF Backspace
<1>3. CASE ~(s.x > 0) /\ s.y > 0
  <2>1. [s EXCEPT !.x = s.cols - 1, !.y = s.y - 1] \in Sized(cols, lines, cells)
    <3>1. s.cols - 1 \in 0 .. (cols - 1) /\ s.y - 1 \in 0 .. (lines - 1)
      BY <1>3 DEF Sized
    <3>2. ASSUME NEW x \in 0 .. (cols - 1), NEW y \in 0 .. (lines - 1)
          PROVE  [s EXCEPT !.x = x, !.y = y] \in Sized(cols, lines, cells)
      BY <3>2 DEF Sized
    <3> QED
      BY <3>1, <3>2
  <2> QED
    BY <1>1, <1>3, <2>1 DEF Backspace
<1>4. CASE ~(s.x > 0) /\ ~(s.y > 0)
  BY <1>4 DEF Backspace
<1> QED
  BY <1>2, <1>3, <1>4

(* A character in its cell. *)
LEMMA ShowOnScreen ==
  ASSUME NEW cols \in Nat \ {0}, NEW lines \in Nat \ {0}, NEW cells, NEW s \in Sized(cols, lines, cells),
         NEW c \in Int
  PROVE  Show(s, c) \in Sized(cols, lines, cells) /\ InPlace(Show(s, c))
<1> DEFINE drawn == [s EXCEPT !.video[s.y * s.cols + s.x] = c, !.x = s.x + 1]
<1>1. drawn \in Overfull(cols, lines, cells) /\ drawn.y < lines /\ drawn.cols = cols
  <2> DEFINE video == [s.video EXCEPT ![s.y * s.cols + s.x] = c]
  <2>0. s.video \in [cells -> Int] /\ s.x \in 0 .. (cols - 1)
    BY DEF Sized
  <2>1. video \in [cells -> Int] /\ s.x + 1 \in 0 .. cols
    <3>1. \A k : [s.video EXCEPT ![k] = c] \in [cells -> Int]
      BY <2>0
    <3> QED
      BY <2>0, <3>1
  <2>2. drawn = [s EXCEPT !.video = video, !.x = s.x + 1]
    OBVIOUS
  <2> HIDE DEF video
  <2>3. ASSUME NEW v \in [cells -> Int], NEW x \in 0 .. cols
        PROVE  [s EXCEPT !.video = v, !.x = x] \in Overfull(cols, lines, cells)
    <3> PICK t : t = [s EXCEPT !.video = v]
      OBVIOUS
    <3>1. t \in Sized(cols, lines, cells)
      BY <2>3 DEF Sized
    <3>3. t \in Overfull(cols, lines, cells)
      BY <3>1 DEF Overfull, Sized
    <3>2. [t EXCEPT !.x = x] \in Overfull(cols, lines, cells)
      BY <2>3, <3>3 DEF Overfull
    <3> QED
      BY <3>2
  <2>5. drawn.y = s.y /\ drawn.cols = s.cols
    BY DEF Sized
  <2>4. s.y < lines /\ s.cols = cols
    BY DEF Sized
  <2> HIDE DEF drawn
  <2> QED
    BY <2>1, <2>2, <2>3, <2>4, <2>5
<1>2. Show(s, c) = IF drawn.x >= drawn.cols THEN Newline(drawn) ELSE cursor(drawn)
  BY DEF Show
<1> HIDE DEF drawn
<1>3. CASE drawn.x >= drawn.cols
  BY <1>1, <1>2, <1>3, NewlineOnScreen
<1>4. CASE ~(drawn.x >= drawn.cols)
  <2>1. drawn \in Sized(cols, lines, cells)
    BY <1>1, <1>4 DEF Overfull, Sized
  <2> QED
    BY <1>2, <1>4, <2>1, CursorInPlace
<1> QED
  BY <1>3, <1>4

(* putchar stays on the screen; and the hardware cursor is where the next  *)
(* character goes, but perhaps after a step back from the first cell.      *)
LEMMA PutcharOnScreen ==
  ASSUME NEW cols \in Nat \ {0}, NEW lines \in Nat \ {0}, NEW cells, NEW s \in Sized(cols, lines, cells),
         NEW c \in Int
  PROVE  /\ putchar(s, c) \in Sized(cols, lines, cells)
         /\ c # BS => InPlace(putchar(s, c))
<1>1. s \in Overfull(cols, lines, cells) /\ s.y < lines
  BY DEF Overfull, Sized
<1> QED
  BY <1>1, NewlineOnScreen, BackspaceOnScreen, ShowOnScreen DEF putchar

(* The loop of puts. *)
After(s, text) ==
  CHOOSE after : after = [i \in 0 .. Len(text) |->
                            IF i = 0 THEN s ELSE putchar(after[i - 1], text[i])]

(* printf leaves the screen as after the last character. *)
LEMMA PrintfAfter ==
  ASSUME NEW s, NEW text
  PROVE  printf(s, text) = After(s, text)[Len(text)]
BY DEF printf, After

(* It goes from screen to screen. *)
LEMMA AfterOnScreen ==
  ASSUME NEW cols \in Nat \ {0}, NEW lines \in Nat \ {0}, NEW cells, NEW s \in Sized(cols, lines, cells),
         NEW text \in Seq(Int)
  PROVE  /\ After(s, text) \in [0 .. Len(text) -> Sized(cols, lines, cells)]
         /\ After(s, text)[0] = s
         /\ \A i \in 1 .. Len(text) : After(s, text)[i] = putchar(After(s, text)[i - 1], text[i])
<1> DEFINE S == Sized(cols, lines, cells)
           next == [p \in (1 .. Len(text)) \X S |-> putchar(p[2], text[p[1]])]
           From(f) == [i \in 0 .. Len(text) |-> IF i = 0 THEN s ELSE putchar(f[i - 1], text[i])]
<1>1. Len(text) \in Nat /\ \A i \in 1 .. Len(text) : text[i] \in Int
  OBVIOUS
<1>2. \A i \in 1 .. Len(text), t \in S : putchar(t, text[i]) \in S
  BY <1>1, PutcharOnScreen
<1>3. \A i \in 1 .. Len(text), t \in S : next[<<i, t>>] = putchar(t, text[i])
  OBVIOUS
<1>4. PICK f \in [0 .. Len(text) -> S] :
        f[0] = s /\ \A i \in 1 .. Len(text) : f[i] = next[<<i, f[i - 1]>>]
  <2> HIDE DEF S
  <2>1. next \in [(1 .. Len(text)) \X S -> S]
    BY <1>2
  <2> HIDE DEF next
  <2>2. s \in S
    BY DEF S
  <2>3. Passes(Len(text), S, s, next) # {}
    BY <1>1, <2>1, <2>2, Iteration
  <2> QED
    BY <2>3 DEF Passes
<1> HIDE DEF next
<1> HIDE DEF S
<1>5. \A i \in 1 .. Len(text) : f[i] = putchar(f[i - 1], text[i])
  <2> TAKE i \in 1 .. Len(text)
  <2>1. i - 1 \in 0 .. Len(text)
    BY <1>1
  <2>2. f[i - 1] \in S
    BY <1>4, <2>1
  <2> QED
    BY <1>3, <1>4, <2>2
<1>6. f = From(f)
  BY <1>1, <1>4, <1>5
<1> DEFINE g == After(s, text)
<1>7. g = From(g)
  <2> HIDE DEF From
  <2>1. g = CHOOSE h : h = From(h)
    BY DEF After, From
  <2> QED
    BY <1>6, <2>1
<1> HIDE DEF g
<1>8. g[0] = s /\ \A i \in 1 .. Len(text) : g[i] = putchar(g[i - 1], text[i])
  <2>1. \A i \in 0 .. Len(text) : g[i] = IF i = 0 THEN s ELSE putchar(g[i - 1], text[i])
    BY <1>7, Zenon
  <2>2. 0 \in 0 .. Len(text) /\ \A i \in 1 .. Len(text) : i \in 0 .. Len(text) /\ i # 0
    BY <1>1
  <2> QED
    BY <2>1, <2>2, Zenon
<1> DEFINE I == {i \in 0 .. Len(text) : g[i] \in S}
<1>9. \A i \in 0 .. Len(text) : i \in I
  <2>1. 0 \in I
    BY <1>1, <1>8 DEF S
  <2>2. ASSUME NEW i \in 1 .. Len(text), i - 1 \in I
        PROVE  i \in I
    <3>1. putchar(g[i - 1], text[i]) \in S
      BY <1>2, <2>2
    <3>2. i \in 0 .. Len(text)
      OBVIOUS
    <3> QED
      BY <1>8, <3>1, <3>2
  <2> HIDE DEF I
  <2> QED
    BY <1>1, <2>1, <2>2, Induction
<1>10. g \in [0 .. Len(text) -> S]
  BY <1>7, <1>9
<1> QED
  BY <1>8, <1>10 DEF g, S

(* What printf leaves: a screen, and the cursor where the next character   *)
(* goes if there was one and it was none that goes back.                   *)
LEMMA PrintfOnScreen ==
  ASSUME NEW cols \in Nat \ {0}, NEW lines \in Nat \ {0}, NEW cells, NEW s \in Sized(cols, lines, cells),
         NEW text \in Seq(Int)
  PROVE  /\ printf(s, text) \in Sized(cols, lines, cells)
         /\ text # <<>> /\ text[Len(text)] # BS => InPlace(printf(s, text))
<1> DEFINE S == Sized(cols, lines, cells)
           g == After(s, text)
           k == Len(text)
<1>1. /\ g \in [0 .. k -> S]
      /\ \A i \in 1 .. k : g[i] = putchar(g[i - 1], text[i])
  BY AfterOnScreen
<1>2. printf(s, text) = g[k] /\ k \in Nat
  BY PrintfAfter
<1> HIDE DEF g, S
<1>3. printf(s, text) \in S
  BY <1>1, <1>2
<1>4. ASSUME text # <<>>, text[k] # BS
      PROVE  InPlace(printf(s, text))
  <2>1. k \in 1 .. k /\ k - 1 \in 0 .. k /\ text[k] \in Int
    BY <1>2, <1>4
  <2>2. g[k - 1] \in S /\ g[k] = putchar(g[k - 1], text[k])
    BY <1>1, <2>1
  <2> QED
    BY <1>2, <1>4, <2>1, <2>2, PutcharOnScreen DEF S
<1> QED
  BY <1>3, <1>4 DEF S

-----------------------------------------------------------------------------
(* The command line's bytes.                                               *)

Buffers == [0 .. (NMax - 1) -> Nat]

(* The bytes parse_args reads are numbers, and the one after the buffer ends a string. *)
LEMMA ByteIsNat ==
  ASSUME NEW mem \in Buffers, NEW count \in Nat, NEW i \in Nat
  PROVE  /\ Byte(mem, count, i) \in Nat
         /\ i = NMax + 1 => Byte(mem, count, i) = 0
BY ConsoleAssumption DEF Byte, Buffers

(* A byte is found that is no space, the last at the latest. *)
LEMMA SkipSpacesStops ==
  ASSUME NEW mem \in Buffers, NEW count \in Nat, NEW i \in 0 .. (NMax + 1)
  PROVE  /\ SkipSpaces(mem, count, i) \in i .. (NMax + 1)
         /\ Byte(mem, count, SkipSpaces(mem, count, i)) # SPACE
         /\ \A k \in i .. (SkipSpaces(mem, count, i) - 1) : Byte(mem, count, k) = SPACE
<1> DEFINE T == {j \in i .. (NMax + 1) : Byte(mem, count, j) # SPACE}
<1>1. NMax + 1 \in T
  <2>1. NMax + 1 \in Nat /\ NMax + 1 \in i .. (NMax + 1)
    BY ConsoleAssumption
  <2>2. Byte(mem, count, NMax + 1) = 0
    BY <2>1, ByteIsNat, Zenon
  <2> QED
    BY <2>1, <2>2 DEF SPACE
<1>2. T \subseteq Nat
  BY ConsoleAssumption
<1>3. PICK j \in T : \A k \in T : j <= k
  BY <1>1, <1>2, Least
<1>4. \A k \in i .. (j - 1) : Byte(mem, count, k) = SPACE
  <2> TAKE k \in i .. (j - 1)
  <2>1. k \in i .. (NMax + 1) /\ ~(j <= k)
    BY <1>2, <1>3, ConsoleAssumption
  <2> QED
    BY <1>3, <2>1
<1>5. j \in i .. (NMax + 1) /\ Byte(mem, count, j) # SPACE
  BY <1>3
<1> QED
  BY <1>4, <1>5 DEF SkipSpaces

(* Every string ends, behind the buffer at the latest. *)
Ends(mem, count, i) == {j \in i .. (NMax + 1) :
  Byte(mem, count, j) = 0 /\ \A k \in i .. (j - 1) : Byte(mem, count, k) # 0}

(* A string runs to the first byte that is 0. *)
LEMMA StringEnds ==
  ASSUME NEW mem \in Buffers, NEW count \in Nat, NEW i \in 0 .. (NMax + 1)
  PROVE  \E end \in Ends(mem, count, i) :
           String(mem, count, i) = [k \in 1 .. (end - i) |-> Byte(mem, count, i + k - 1)]
<1> DEFINE T == {j \in i .. (NMax + 1) : Byte(mem, count, j) = 0}
<1>1. NMax + 1 \in T
  BY ConsoleAssumption, ByteIsNat
<1>2. T \subseteq Nat
  BY ConsoleAssumption
<1>3. PICK j \in T : \A k \in T : j <= k
  BY <1>1, <1>2, Least
<1>4. \A k \in i .. (j - 1) : Byte(mem, count, k) # 0
  <2> TAKE k \in i .. (j - 1)
  <2>1. k \in i .. (NMax + 1) /\ ~(j <= k)
    BY <1>2, <1>3, ConsoleAssumption
  <2> QED
    BY <1>3, <2>1
<1> DEFINE end == CHOOSE e \in i .. (NMax + 1) :
             Byte(mem, count, e) = 0 /\ \A k \in i .. (e - 1) : Byte(mem, count, k) # 0
<1>5. j \in i .. (NMax + 1) /\ Byte(mem, count, j) = 0
  BY <1>3
<1>6. end \in Ends(mem, count, i)
  BY <1>4, <1>5 DEF Ends
<1>7. String(mem, count, i) = [k \in 1 .. (end - i) |-> Byte(mem, count, i + k - 1)]
  BY DEF String
<1> HIDE DEF end
<1> QED
  BY <1>6, <1>7

(* A string is a sequence of characters. *)
LEMMA StringIsText ==
  ASSUME NEW mem \in Buffers, NEW count \in Nat, NEW i \in 0 .. (NMax + 1)
  PROVE  String(mem, count, i) \in Seq(Nat)
<1>1. PICK end \in Ends(mem, count, i) :
        String(mem, count, i) = [k \in 1 .. (end - i) |-> Byte(mem, count, i + k - 1)]
  BY StringEnds
<1>2. end - i \in Nat
  BY ConsoleAssumption DEF Ends
<1>3. \A k \in 1 .. (end - i) : Byte(mem, count, i + k - 1) \in Nat
  <2> TAKE k \in 1 .. (end - i)
  <2>1. i + k - 1 \in Nat
    OBVIOUS
  <2> QED
    BY <2>1, ByteIsNat
<1>4. [k \in 1 .. (end - i) |-> Byte(mem, count, i + k - 1)] \in Seq(Nat)
  BY <1>2, <1>3
<1> QED
  BY <1>1, <1>4

(* What parse_args works on. *)
Parses == [code : {"running", "ok", "too many"}, mem : Buffers,
           starts : Seq(0 .. (NMax + 1)), at : 0 .. (NMax + 1)]

(* Cutting a word off changes a byte of the buffer and moves nothing. *)
LEMMA CutInBuffer ==
  ASSUME NEW s \in Parses
  PROVE  Cut(s) \in Parses /\ Cut(s).at = s.at
<1>1. CASE s.at < NMax
  <2>1. [s.mem EXCEPT ![s.at] = 0] \in Buffers
    BY DEF Parses, Buffers
  <2>2. ASSUME NEW mem \in Buffers
        PROVE  [s EXCEPT !.mem = mem] \in Parses /\ [s EXCEPT !.mem = mem].at = s.at
    BY <2>2 DEF Parses
  <2> QED
    BY <1>1, <2>1, <2>2 DEF Cut
<1>2. CASE ~(s.at < NMax)
  <2>1. <<>> \in Seq(0 .. (NMax + 1))
    OBVIOUS
  <2>2. [s EXCEPT !.starts = <<>>] \in Parses /\ [s EXCEPT !.starts = <<>>].at = s.at
    BY <2>1 DEF Parses
  <2> QED
    BY <1>2, <2>2 DEF Cut
<1> QED
  BY <1>1, <1>2

(* A pass of its loop stays within the bytes of the line and behind it. *)
LEMMA PassInBuffer ==
  ASSUME NEW s \in Parses
  PROVE  Pass(s) \in Parses
<1> DEFINE byte == Byte(s.mem, Len(s.starts), s.at)
           cut == Cut(s)
           next == SkipSpaces(cut.mem, Len(cut.starts), s.at + 1)
<1>0. ASSUME NEW r \in Parses
      PROVE  r.mem \in Buffers /\ Len(r.starts) \in Nat /\ r.starts \in Seq(0 .. (NMax + 1))
             /\ r.at \in 0 .. (NMax + 1)
  <2>1. r.mem \in Buffers /\ r.starts \in Seq(0 .. (NMax + 1)) /\ r.at \in 0 .. (NMax + 1)
    BY DEF Parses
  <2> QED
    BY <2>1
<1>1. s.mem \in Buffers /\ Len(s.starts) \in Nat /\ s.at \in 0 .. (NMax + 1) /\ s.at \in Nat
  <2>1. \A i \in 0 .. (NMax + 1) : i \in Nat
    BY ConsoleAssumption
  <2> QED
    BY <1>0, <2>1
<1>2. cut \in Parses /\ cut.mem \in Buffers /\ Len(cut.starts) \in Nat
      /\ cut.starts \in Seq(0 .. (NMax + 1))
  <2>1. cut \in Parses
    BY CutInBuffer
  <2> HIDE DEF cut
  <2> QED
    BY <1>0, <2>1
<1>3. byte # 0 => s.at + 1 \in 0 .. (NMax + 1)
  <2>1. s.at = NMax + 1 => byte = 0
    BY <1>1, ByteIsNat
  <2> HIDE DEF byte
  <2> QED
    BY <1>1, <2>1, ConsoleAssumption
<1>4. byte # 0 => next \in 0 .. (NMax + 1)
  <2> SUFFICES ASSUME byte # 0
               PROVE  next \in 0 .. (NMax + 1)
    OBVIOUS
  <2> HIDE DEF byte
  <2>1. next \in (s.at + 1) .. (NMax + 1)
    BY <1>2, <1>3, SkipSpacesStops
  <2> QED
    BY <1>1, <2>1
<1>5. byte = 0 => Pass(s) = [s EXCEPT !.code = "ok"]
  BY DEF Pass
<1>6. byte # 0 =>
        \/ Pass(s) = [s EXCEPT !.at = s.at + 1]
        \/ Pass(s) = [cut EXCEPT !.code = "ok"]
        \/ Pass(s) = [cut EXCEPT !.code = "too many"]
        \/ Pass(s) = [cut EXCEPT !.starts = Append(@, next), !.at = next]
  BY DEF Pass
<1> HIDE DEF byte, cut, next
<1>7. [s EXCEPT !.code = "ok"] \in Parses /\ [cut EXCEPT !.code = "ok"] \in Parses
      /\ [cut EXCEPT !.code = "too many"] \in Parses
  BY <1>2 DEF Parses
<1>8. byte # 0 => [s EXCEPT !.at = s.at + 1] \in Parses
  BY <1>3 DEF Parses
<1>9. byte # 0 => [cut EXCEPT !.starts = Append(@, next), !.at = next] \in Parses
  <2> SUFFICES ASSUME byte # 0
               PROVE  [cut EXCEPT !.starts = Append(@, next), !.at = next] \in Parses
    OBVIOUS
  <2>1. Append(cut.starts, next) \in Seq(0 .. (NMax + 1))
    BY <1>2, <1>4
  <2>2. ASSUME NEW starts \in Seq(0 .. (NMax + 1)), NEW at \in 0 .. (NMax + 1)
        PROVE  [cut EXCEPT !.starts = starts, !.at = at] \in Parses
    BY <1>2, <2>2 DEF Parses
  <2> QED
    BY <1>4, <2>1, <2>2
<1> QED
  BY <1>5, <1>6, <1>7, <1>8, <1>9

(* The loop of parse_args. *)
On(s) == IF s.code = "running" THEN Pass(s) ELSE s

Begun(mem) ==
  LET first == SkipSpaces(mem, 0, 0) IN
  [code |-> "running", mem |-> mem, starts |-> <<first>>, at |-> first]

Loop(mem) ==
  CHOOSE after : after = [k \in 0 .. NMax + 2 |-> IF k = 0 THEN Begun(mem) ELSE On(after[k - 1])]

(* parse_args is its loop, unless the line has no word. *)
LEMMA LoopIsUsed ==
  ASSUME NEW mem
  PROVE  parse_args(mem) =
           IF Byte(mem, 0, SkipSpaces(mem, 0, 0)) = 0
             THEN [code |-> "ok", mem |-> mem, starts |-> <<>>, at |-> SkipSpaces(mem, 0, 0)]
             ELSE Loop(mem)[NMax + 2]
BY DEF parse_args, Loop, On, Begun

(* Every pass of the loop starts from the state the one before it left. *)
LEMMA LoopRuns ==
  ASSUME NEW mem \in Buffers
  PROVE  /\ Begun(mem) \in Parses
         /\ Loop(mem) \in [0 .. (NMax + 2) -> Parses]
         /\ Loop(mem)[0] = Begun(mem)
         /\ \A i \in 1 .. (NMax + 2) : Loop(mem)[i] = On(Loop(mem)[i - 1])
<1> DEFINE N == NMax + 2
           at == SkipSpaces(mem, 0, 0)
           first == Begun(mem)
           next == [p \in (1 .. N) \X Parses |-> On(p[2])]
           From(f) == [k \in 0 .. N |-> IF k = 0 THEN first ELSE On(f[k - 1])]
           g == Loop(mem)
<1>1. N \in Nat /\ at \in 0 .. (NMax + 1)
  BY ConsoleAssumption, SkipSpacesStops
<1>2. first \in Parses
  BY <1>1 DEF Parses, Begun
<1>3. \A s \in Parses : On(s) \in Parses
  BY PassInBuffer DEF On
<1> HIDE DEF first
<1>4. next \in [(1 .. N) \X Parses -> Parses]
  BY <1>3
<1>5. \A i \in 1 .. N, s \in Parses : next[<<i, s>>] = On(s)
  OBVIOUS
<1> HIDE DEF next, N
<1>6. Passes(N, Parses, first, next) # {}
  BY <1>1, <1>2, <1>4, Iteration
<1>7. PICK f \in [0 .. N -> Parses] :
        f[0] = first /\ \A i \in 1 .. N : f[i] = next[<<i, f[i - 1]>>]
  BY <1>6 DEF Passes
<1>8. \A i \in 1 .. N : f[i] = On(f[i - 1])
  <2> TAKE i \in 1 .. N
  <2>1. f[i - 1] \in Parses
    BY <1>1, <1>7
  <2> QED
    BY <1>5, <1>7, <2>1
<1>9. f = From(f)
  BY <1>1, <1>7, <1>8
<1>10. g = From(g)
  <2>1. g = CHOOSE h : h = From(h)
    BY DEF Loop, first, N
  <2> HIDE DEF From, g
  <2> QED
    BY <1>9, <2>1
<1> HIDE DEF g
<1>11. g[0] = first /\ \A i \in 1 .. N : g[i] = On(g[i - 1])
  BY <1>1, <1>10
<1> DEFINE I == {i \in 0 .. N : g[i] \in Parses}
<1>12. \A i \in 0 .. N : i \in I
  <2>1. 0 \in I
    BY <1>1, <1>2, <1>11
  <2>2. \A i \in 1 .. N : i - 1 \in I => i \in I
    BY <1>3, <1>11
  <2> HIDE DEF I
  <2> QED
    BY <1>1, <2>1, <2>2, Induction
<1>13. g \in [0 .. N -> Parses]
  BY <1>10, <1>12
<1> QED
  BY <1>2, <1>11, <1>13 DEF g, first, N

(* parse_args stays within the buffer. *)
LEMMA ParseInBuffer ==
  ASSUME NEW mem \in Buffers
  PROVE  parse_args(mem) \in Parses
<1>1. Loop(mem)[NMax + 2] \in Parses
  <2>1. NMax + 2 \in 0 .. (NMax + 2)
    BY ConsoleAssumption
  <2> QED
    BY <2>1, LoopRuns
<1>2. [code |-> "ok", mem |-> mem, starts |-> <<>>, at |-> SkipSpaces(mem, 0, 0)] \in Parses
  <2>1. SkipSpaces(mem, 0, 0) \in 0 .. (NMax + 1)
    <3>1. 0 \in Nat /\ 0 \in 0 .. (NMax + 1)
      BY ConsoleAssumption
    <3> QED
      BY <3>1, SkipSpacesStops, Zenon
  <2> QED
    BY <2>1 DEF Parses
<1> QED
  BY <1>1, <1>2, LoopIsUsed

-----------------------------------------------------------------------------
(* The commands.                                                           *)

(* What echo prints up to each word. *)
EchoUpTo(words) ==
  CHOOSE upTo : upTo = [i \in 1 .. Len(words) |->
    IF i = 1 THEN words[1] ELSE upTo[i - 1] \o <<SPACE>> \o words[i]]

(* What echo prints is text. *)
LEMMA EchoIsText ==
  ASSUME NEW words \in Seq(Seq(Int)), words # <<>>
  PROVE  echo(words) \in Seq(Int)
<1> DEFINE N == Len(words)
           S == Seq(Int)
           Joined(t, i) == t \o <<SPACE>> \o words[i]
           next == [p \in (1 .. N) \X S |-> IF p[1] = 1 THEN words[1] ELSE Joined(p[2], p[1])]
           From(f) == [i \in 1 .. N |-> IF i = 1 THEN words[1] ELSE Joined(f[i - 1], i)]
           g == EchoUpTo(words)
<1>1. N \in Nat /\ N # 0 /\ \A i \in 1 .. N : words[i] \in S
  OBVIOUS
<1>2. \A t \in S, i \in 1 .. N : Joined(t, i) \in S
  <2> TAKE t \in S, i \in 1 .. N
  <2>1. <<SPACE>> \in Seq(Int)
    BY DEF SPACE
  <2>2. t \o <<SPACE>> \in Seq(Int)
    BY <2>1
  <2>3. words[i] \in Seq(Int)
    BY <1>1
  <2> QED
    BY <2>2, <2>3
<1>3. <<>> \in S
  OBVIOUS
<1> HIDE DEF Joined, S, N
<1>4. next \in [(1 .. N) \X S -> S]
  BY <1>1, <1>2
<1>5. \A i \in 1 .. N, t \in S : next[<<i, t>>] = IF i = 1 THEN words[1] ELSE Joined(t, i)
  OBVIOUS
<1> HIDE DEF next
<1>6. Passes(N, S, <<>>, next) # {}
  BY <1>1, <1>3, <1>4, Iteration
<1>7. PICK f \in [0 .. N -> S] : \A i \in 1 .. N : f[i] = next[<<i, f[i - 1]>>]
  BY <1>6 DEF Passes
<1> DEFINE e == [i \in 1 .. N |-> f[i]]
<1>8. \A i \in 1 .. N : e[i] = IF i = 1 THEN words[1] ELSE Joined(e[i - 1], i)
  <2> TAKE i \in 1 .. N
  <2>1. i - 1 \in 0 .. N /\ (i # 1 => i - 1 \in 1 .. N)
    BY <1>1
  <2>2. f[i - 1] \in S
    BY <1>7, <2>1
  <2>3. f[i] = IF i = 1 THEN words[1] ELSE Joined(f[i - 1], i)
    BY <1>5, <1>7, <2>2
  <2>4. e[i] = f[i] /\ (i # 1 => e[i - 1] = f[i - 1])
    BY <2>1
  <2> HIDE DEF e
  <2> QED
    BY <2>3, <2>4
<1>9. e = From(e)
  BY <1>8
<1>10. g = From(g)
  <2>1. g = CHOOSE h : h = From(h)
    BY DEF EchoUpTo, Joined, N
  <2> HIDE DEF From, g, e
  <2> QED
    BY <1>9, <2>1
<1> HIDE DEF g
<1>11. \A i \in 1 .. N : g[i] = IF i = 1 THEN words[1] ELSE Joined(g[i - 1], i)
  BY <1>10
<1> DEFINE I == {i \in 0 .. N : i = 0 \/ g[i] \in S}
<1>12. \A i \in 0 .. N : i \in I
  <2>1. 0 \in I
    BY <1>1
  <2>2. \A i \in 1 .. N : i - 1 \in I => i \in I
    <3> TAKE i \in 1 .. N
    <3> HAVE i - 1 \in I
    <3>1. i \in 0 .. N
      BY <1>1
    <3>2. CASE i = 1
      BY <1>1, <1>11, <3>1, <3>2
    <3>3. CASE i # 1
      <4>1. g[i - 1] \in S
        BY <1>1, <3>3
      <4> QED
        BY <1>2, <1>11, <3>1, <3>3, <4>1
    <3> QED
      BY <3>2, <3>3
  <2> HIDE DEF I
  <2> QED
    BY <1>1, <2>1, <2>2, Induction
<1>13. g[N] \in S
  BY <1>1, <1>12
<1>14. echo(words) = g[N]
  BY DEF echo, EchoUpTo, g, N
<1> QED
  BY <1>13, <1>14 DEF S

(* A text mode has room for the prompt and the longest line on all its     *)
(* lines but one.                                                          *)
LEMMA ModeHasRoom ==
  ASSUME NEW m \in DOMAIN Modes
  PROVE  /\ Modes[m].cols \in Nat \ {0} /\ Modes[m].lines \in Nat \ {0}
         /\ 3 + NMax <= Modes[m].cols * (Modes[m].lines - 1)
<1>1. Modes[m] \in [cols : Nat, lines : Nat]
  <2>1. Modes \in Seq([cols : Nat, lines : Nat])
    BY ConsoleAssumption
  <2>2. m \in 1 .. Len(Modes)
    BY <2>1
  <2> QED
    BY <2>1, <2>2, ElementOfSeq
<1>2. PICK cols \in Nat, lines \in Nat : cols = Modes[m].cols /\ lines = Modes[m].lines
  BY <1>1
<1>3. 3 + NMax <= cols * (lines - 1) /\ NMax \in Nat
  BY <1>2, ConsoleAssumption
<1>4. cols # 0
  <2>1. 0 * (lines - 1) = 0
    OBVIOUS
  <2> QED
    BY <1>3, <2>1
<1>5. lines # 0
  <2>1. cols * (0 - 1) <= 0
    OBVIOUS
  <2> QED
    BY <1>3, <2>1
<1> QED
  BY <1>2, <1>3, <1>4, <1>5

ScreenOf(m) == Screens(Modes[m].cols, Modes[m].lines)

(* The screen in one of the text modes. *)
Displays == UNION {ScreenOf(m) : m \in DOMAIN Modes}

(* clrscr takes what has the size of a mode and makes it its screen. *)
LEMMA ClrscrOnScreen ==
  ASSUME NEW m \in DOMAIN Modes, NEW s, NEW X, NEW Y, NEW V,
         s \in [cols : {Modes[m].cols}, lines : {Modes[m].lines}, x : X, y : Y,
                video : V, cursor : Int]
  PROVE  clrscr(s) \in ScreenOf(m)
<1> DEFINE blank == [i \in 0 .. (s.cols * s.lines - 1) |-> SPACE]
<1>1. PICK cols \in Nat \ {0}, lines \in Nat \ {0} : cols = Modes[m].cols /\ lines = Modes[m].lines
  BY ModeHasRoom
<1>2. blank \in [Cells(cols, lines) -> Int]
  BY <1>1 DEF Cells, SPACE
<1>3. clrscr(s) = [s EXCEPT !.x = 0, !.y = 0, !.video = blank]
  BY DEF clrscr
<1>4. 0 \in 0 .. (cols - 1) /\ 0 \in 0 .. (lines - 1)
  OBVIOUS
<1> HIDE DEF blank
<1>5. [s EXCEPT !.x = 0, !.y = 0, !.video = blank] \in Sized(cols, lines, Cells(cols, lines))
  BY <1>1, <1>2, <1>4 DEF Sized
<1> QED
  BY <1>1, <1>3, <1>5 DEF ScreenOf, Screens

(* printf leaves the screen with the cursor in place. *)
LEMMA PrintfOnDisplay ==
  ASSUME NEW s \in Displays, NEW text \in Seq(Int)
  PROVE  /\ printf(s, text) \in Displays
         /\ text # <<>> /\ text[Len(text)] # BS => InPlace(printf(s, text))
<1>1. PICK m \in DOMAIN Modes : s \in ScreenOf(m)
  BY DEF Displays
<1>2. PICK cols \in Nat \ {0}, lines \in Nat \ {0} : cols = Modes[m].cols /\ lines = Modes[m].lines
  BY ModeHasRoom
<1>3. s \in Sized(cols, lines, Cells(cols, lines))
  BY <1>1, <1>2 DEF ScreenOf, Screens
<1>4. /\ printf(s, text) \in Sized(cols, lines, Cells(cols, lines))
      /\ text # <<>> /\ text[Len(text)] # BS => InPlace(printf(s, text))
  BY <1>3, PrintfOnScreen
<1>5. printf(s, text) \in ScreenOf(m)
  BY <1>2, <1>4 DEF ScreenOf, Screens
<1> QED
  BY <1>4, <1>5 DEF Displays

(* A message of tem goes on the screen too. *)
LEMMA TemOnDisplay ==
  ASSUME NEW s \in Displays, NEW number
  PROVE  tem(s, number) \in Displays
<1> DEFINE m == IF number \in DOMAIN Modes THEN number ELSE Default
           sized == [s EXCEPT !.cols = Modes[m].cols, !.lines = Modes[m].lines]
<1>1. m \in DOMAIN Modes
  BY ConsoleAssumption
<1>2. PICK k \in DOMAIN Modes : s \in ScreenOf(k)
  BY DEF Displays
<1>3. sized \in [cols : {Modes[m].cols}, lines : {Modes[m].lines},
                 x : 0 .. (Modes[k].cols - 1), y : 0 .. (Modes[k].lines - 1),
                 video : [Cells(Modes[k].cols, Modes[k].lines) -> Int], cursor : Int]
  BY <1>2 DEF ScreenOf, Screens, Sized
<1>4. tem(s, number) = printf(clrscr(sized), <<MSG, NL>>)
  BY DEF tem
<1> HIDE DEF sized, m
<1>5. clrscr(sized) \in ScreenOf(m)
  BY <1>1, <1>3, ClrscrOnScreen
<1>6. clrscr(sized) \in Displays
  BY <1>1, <1>5 DEF Displays
<1>7. <<MSG, NL>> \in Seq(Int)
  BY DEF MSG, NL
<1> QED
  BY <1>4, <1>6, <1>7, PrintfOnDisplay

(* Every command leaves a screen of one of the modes. *)
LEMMA CommandOnDisplay ==
  ASSUME NEW s \in Displays, NEW words \in Seq(Seq(Int))
  PROVE  kexec_cmd(s, words) \in Displays
<1> DEFINE below == printf(s, <<NL>>)
<1>1. below \in Displays
  <2>1. <<NL>> \in Seq(Int)
    BY DEF NL
  <2> QED
    BY <2>1, PrintfOnDisplay
<1> HIDE DEF below
<1>2. printf(below, <<MSG, NL>>) \in Displays
  <2>1. <<MSG, NL>> \in Seq(Int)
    BY DEF MSG, NL
  <2> QED
    BY <1>1, <2>1, PrintfOnDisplay
<1>3. clrscr(below) \in Displays
  <2>1. PICK m \in DOMAIN Modes : below \in ScreenOf(m)
    BY <1>1 DEF Displays
  <2>2. clrscr(below) \in ScreenOf(m)
    BY <2>1, ClrscrOnScreen DEF ScreenOf, Screens, Sized
  <2> QED
    BY <2>2 DEF Displays
<1>4. tem(below, ModeOf(words[2])) \in Displays
  BY <1>1, TemOnDisplay
<1>5. Len(words) # 1 /\ words # <<>> => printf(below, echo(Tail(words))) \in Displays
  <2> SUFFICES ASSUME Len(words) # 1, words # <<>>
               PROVE  printf(below, echo(Tail(words))) \in Displays
    OBVIOUS
  <2>1. Tail(words) \in Seq(Seq(Int)) /\ Tail(words) # <<>>
    <3>1. Tail(words) \in Seq(Seq(Int)) /\ Len(Tail(words)) = Len(words) - 1
      BY HeadTailProperties
    <3>2. Len(words) \in Nat /\ Len(words) # 0
      OBVIOUS
    <3>3. Len(Tail(words)) # 0
      BY <3>1, <3>2
    <3>4. Len(<<>>) = 0
      OBVIOUS
    <3>5. Tail(words) # <<>>
      BY <3>3, <3>4, Zenon
    <3> QED
      BY <3>1, <3>5, Zenon
  <2>2. echo(Tail(words)) \in Seq(Int)
    BY <2>1, EchoIsText
  <2> QED
    BY <1>1, <2>2, PrintfOnDisplay
<1>6. \/ kexec_cmd(s, words) = s
      \/ kexec_cmd(s, words) = below
      \/ kexec_cmd(s, words) = clrscr(below)
      \/ kexec_cmd(s, words) = tem(below, ModeOf(words[2]))
      \/ kexec_cmd(s, words) = printf(below, echo(Tail(words))) /\ Len(words) # 1 /\ words # <<>>
      \/ kexec_cmd(s, words) = printf(below, <<MSG, NL>>)
  BY DEF kexec_cmd, below
<1> QED
  BY <1>1, <1>2, <1>3, <1>4, <1>5, <1>6

-----------------------------------------------------------------------------
(* What the screen shows before the cursor.                                *)

At(s) == s.y * s.cols + s.x

(* Cells of neighbouring lines lie one line apart. *)
LEMMA Lines ==
  ASSUME NEW cols \in Nat, NEW y \in Int
  PROVE  (y + 1) * cols = y * cols + cols /\ (y - 1) * cols = y * cols - cols
         /\ y * cols = cols * y
<1>1. (y + 1) * cols = y * cols + 1 * cols
  BY SMT
<1>2. (y - 1) * cols = y * cols - 1 * cols
  BY SMT
<1> QED
  BY <1>1, <1>2

(* The next character has a cell. *)
LEMMA AtInCells ==
  ASSUME NEW cols \in Nat \ {0}, NEW lines \in Nat \ {0},
         NEW x \in 0 .. (cols - 1), NEW y \in 0 .. (lines - 1)
  PROVE  y * cols + x \in Cells(cols, lines)
<1>1. y * cols <= (lines - 1) * cols
  <2>1. PICK d \in Nat : y + d = lines - 1
    <3>1. (lines - 1) - y \in Nat /\ y + ((lines - 1) - y) = lines - 1
      OBVIOUS
    <3> QED
      BY <3>1
  <2>2. (y + d) * cols = y * cols + d * cols /\ d * cols \in Nat
    OBVIOUS
  <2> QED
    BY <2>1, <2>2
<1>2. (lines - 1) * cols = cols * lines - cols
  BY Lines
<1>3. y * cols \in Nat /\ cols * lines \in Nat
  OBVIOUS
<1> QED
  BY <1>1, <1>2, <1>3 DEF Cells

(* A character is shown where the cursor was.  All the cells go down by a  *)
(* line of the screen if it scrolls.                                       *)
LEMMA ShowPlaces ==
  ASSUME NEW cols \in Nat \ {0}, NEW lines \in Nat \ {0}, NEW s \in Screens(cols, lines),
         NEW c \in Int
  PROVE  \E down \in {0, cols} :
           /\ At(Show(s, c)) = At(s) + 1 - down
           /\ down # 0 => At(Show(s, c)) = cols * (lines - 1)
           /\ \A k \in Cells(cols, lines) : k + down \in Cells(cols, lines) =>
                Show(s, c).video[k] = IF k + down = At(s) THEN c ELSE s.video[k + down]
<1> DEFINE P == At(s)
           C == Cells(cols, lines)
           video == [s.video EXCEPT ![P] = c]
           drawn == [s EXCEPT !.video[P] = c, !.x = s.x + 1]
           next == [drawn EXCEPT !.x = 0, !.y = drawn.y + 1]
           scrolled == [next EXCEPT !.video =
             [i \in DOMAIN next.video |->
                IF i + next.cols \in DOMAIN next.video THEN next.video[i + next.cols] ELSE SPACE]]
           up == [scrolled EXCEPT !.y = drawn.y]
<1>1. /\ s.video \in [C -> Int] /\ s.cols = cols /\ s.lines = lines
      /\ s.x \in 0 .. (cols - 1) /\ s.y \in 0 .. (lines - 1)
  BY DEF Screens, Sized
<1>2. P \in C /\ P = s.y * cols + s.x
  BY <1>1, AtInCells DEF At
<1>3. /\ drawn.x = s.x + 1 /\ drawn.y = s.y /\ drawn.cols = cols /\ drawn.lines = lines
      /\ drawn.video = video
  BY <1>1 DEF Screens, Sized
<1>4. \A k \in C : video[k] = IF k = P THEN c ELSE s.video[k]
  BY <1>1
<1>5. DOMAIN video = C
  BY <1>1
<1>6. Show(s, c) = IF drawn.x >= drawn.cols THEN Newline(drawn) ELSE cursor(drawn)
  BY DEF Show, At
<1>7. CASE ~(drawn.x >= drawn.cols)
  <2>1. Show(s, c).video = video /\ At(Show(s, c)) = P + 1
    <3>1. Show(s, c) = [drawn EXCEPT !.cursor = drawn.y * drawn.cols + drawn.x]
      BY <1>6, <1>7 DEF cursor
    <3>2. /\ Show(s, c).video = drawn.video /\ Show(s, c).x = drawn.x
          /\ Show(s, c).y = drawn.y /\ Show(s, c).cols = drawn.cols
      BY <3>1 DEF Screens, Sized
    <3> HIDE DEF drawn, video, P
    <3> QED
      BY <1>1, <1>2, <1>3, <3>2 DEF At
  <2> HIDE DEF drawn, video, next, up, scrolled
  <2> WITNESS 0 \in {0, cols}
  <2>2. \A k \in C : k + 0 = k
    BY DEF Cells
  <2>3. \A k \in C : k + 0 \in C => Show(s, c).video[k] = IF k + 0 = P THEN c ELSE s.video[k + 0]
    <3> HIDE DEF C, P
    <3> QED
      BY <1>4, <2>1, <2>2
  <2>4. P + 1 - 0 = P + 1
    BY <1>2 DEF Cells
  <2> HIDE DEF P
  <2> QED
    BY <2>1, <2>3, <2>4 DEF P
<1>8. CASE drawn.x >= drawn.cols
  <2> HIDE DEF P, C, video
  <2>1. /\ next.x = 0 /\ next.y = s.y + 1 /\ next.cols = cols /\ next.lines = lines
        /\ next.video = video
    BY <1>3 DEF Screens, Sized
  <2>2. Newline(drawn) = cursor(IF next.y >= drawn.lines THEN up ELSE next)
    BY DEF Newline, vga_text_scrollup
  <2>3. P + 1 = (s.y + 1) * cols
    <3>1. s.x = cols - 1
      BY <1>1, <1>3, <1>8
    <3>2. (s.y + 1) * cols = s.y * cols + cols
      BY <1>1, Lines
    <3> QED
      BY <1>1, <1>2, <3>1, <3>2 DEF C, Cells
  <2>4. CASE ~(next.y >= drawn.lines)
    <3>1. Show(s, c).video = video /\ At(Show(s, c)) = P + 1
      <4>1. Show(s, c) = [next EXCEPT !.cursor = next.y * next.cols + next.x]
        BY <1>6, <1>8, <2>2, <2>4 DEF cursor
      <4>2. /\ Show(s, c).video = next.video /\ Show(s, c).x = next.x
            /\ Show(s, c).y = next.y /\ Show(s, c).cols = next.cols
        BY <4>1 DEF Screens, Sized
      <4> HIDE DEF next, drawn
      <4>3. At(Show(s, c)) = (s.y + 1) * cols + 0
        BY <2>1, <4>2 DEF At
      <4> QED
        BY <1>1, <2>1, <2>3, <4>2, <4>3
    <3> HIDE DEF drawn, next, up, scrolled
    <3> WITNESS 0 \in {0, cols}
    <3>2. \A k \in C : k + 0 = k
      BY DEF C, Cells
    <3>3. \A k \in C : k + 0 \in C => Show(s, c).video[k] = IF k + 0 = P THEN c ELSE s.video[k + 0]
      BY <1>4, <3>1, <3>2
    <3>4. P + 1 - 0 = P + 1
      BY <1>2 DEF C, Cells
    <3> QED
      BY <3>1, <3>3, <3>4 DEF P, C
  <2>5. CASE next.y >= drawn.lines
    <3>1. /\ up.video = [i \in C |-> IF i + cols \in C THEN video[i + cols] ELSE SPACE]
          /\ up.x = 0 /\ up.y = s.y /\ up.cols = cols
      <4>1. scrolled.video = [i \in C |-> IF i + cols \in C THEN video[i + cols] ELSE SPACE]
            /\ scrolled.x = 0 /\ scrolled.cols = cols
        BY <1>5, <2>1 DEF Screens, Sized
      <4>2. up.video = scrolled.video /\ up.x = scrolled.x /\ up.y = drawn.y /\ up.cols = scrolled.cols
        BY DEF Screens, Sized
      <4> HIDE DEF up, scrolled, next, drawn
      <4> QED
        BY <1>3, <4>1, <4>2
    <3>2. /\ Show(s, c).video = up.video /\ Show(s, c).x = up.x
          /\ Show(s, c).y = up.y /\ Show(s, c).cols = up.cols
      <4>1. Show(s, c) = [up EXCEPT !.cursor = up.y * up.cols + up.x]
        BY <1>6, <1>8, <2>2, <2>5 DEF cursor
      <4> QED
        BY <4>1 DEF Screens, Sized
    <3> HIDE DEF up, scrolled
    <3>3. At(Show(s, c)) = s.y * cols
      <4>1. At(Show(s, c)) = s.y * cols + 0
        BY <3>1, <3>2 DEF At
      <4> QED
        BY <1>1, <4>1
    <3>4. s.y = lines - 1
      BY <1>1, <1>3, <2>1, <2>5
    <3>5. /\ At(Show(s, c)) = P + 1 - cols
          /\ At(Show(s, c)) = cols * (lines - 1)
      <4>1. (s.y + 1) * cols = s.y * cols + cols /\ s.y * cols = cols * s.y
        BY <1>1, Lines
      <4>2. P \in Int /\ s.y * cols \in Int
        BY <1>1, <1>2 DEF C, Cells
      <4> QED
        BY <2>3, <3>3, <3>4, <4>1, <4>2
    <3> WITNESS cols \in {0, cols}
    <3>6. \A k \in C : k + cols \in C =>
            Show(s, c).video[k] = IF k + cols = P THEN c ELSE s.video[k + cols]
      BY <1>4, <3>1, <3>2
    <3> QED
      BY <3>5, <3>6 DEF P, C
  <2> QED
    BY <2>4, <2>5
<1> QED
  BY <1>7, <1>8

(* A step back blanks the cell before the cursor and no other. *)
LEMMA BackspacePlaces ==
  ASSUME NEW cols \in Nat \ {0}, NEW lines \in Nat \ {0}, NEW s \in Screens(cols, lines),
         At(s) > 0
  PROVE  /\ At(Backspace(s)) = At(s) - 1 /\ InPlace(Backspace(s))
         /\ \A k \in Cells(cols, lines) : k < At(s) - 1 => Backspace(s).video[k] = s.video[k]
<1>1. /\ s.video \in [Cells(cols, lines) -> Int] /\ s.cols = cols /\ s.lines = lines
      /\ s.x \in 0 .. (cols - 1) /\ s.y \in 0 .. (lines - 1)
  BY DEF Screens, Sized
<1>2. ASSUME NEW x \in 0 .. (cols - 1), NEW y \in 0 .. (lines - 1), y * cols + x = At(s) - 1,
             NEW t, t = [s EXCEPT !.x = x, !.y = y], Backspace(s) = Erased(cursor(t))
      PROVE  /\ At(Backspace(s)) = At(s) - 1 /\ InPlace(Backspace(s))
             /\ \A k \in Cells(cols, lines) : k < At(s) - 1 => Backspace(s).video[k] = s.video[k]
  <2> DEFINE b == Backspace(s)
             P == y * cols + x
  <2>1. b = [s EXCEPT !.x = x, !.y = y, !.cursor = P, !.video[P] = SPACE]
    <3>1. t.y * t.cols + t.x = P
      BY <1>1, <1>2 DEF Screens, Sized
    <3>2. cursor(t) = [t EXCEPT !.cursor = P]
      BY <3>1 DEF cursor
    <3>3. cursor(t).y * cursor(t).cols + cursor(t).x = P
      BY <3>1, <3>2, <1>2 DEF Screens, Sized
    <3>4. b = [cursor(t) EXCEPT !.video[P] = SPACE]
      BY <1>2, <3>3 DEF Erased
    <3> HIDE DEF P, b
    <3>5. b = [[t EXCEPT !.cursor = P] EXCEPT !.video[P] = SPACE]
      BY <3>2, <3>4
    <3> QED
      BY <1>2, <3>5 DEF Screens, Sized
  <2>2. b.x = x /\ b.y = y /\ b.cols = cols /\ b.cursor = P /\ b.video = [s.video EXCEPT ![P] = SPACE]
    <3> HIDE DEF P, b
    <3> QED
      BY <1>1, <2>1 DEF Screens, Sized
  <2>3. \A k \in Cells(cols, lines) : k < P => [s.video EXCEPT ![P] = SPACE][k] = s.video[k]
    <3> HIDE DEF P
    <3>1. \A k \in Cells(cols, lines) : k < P => k # P
      BY <1>2 DEF Cells, P
    <3> QED
      BY <1>1, <3>1
  <2>4. b.y * b.cols + b.x = P
    BY <2>2
  <2> HIDE DEF b
  <2> QED
    BY <1>2, <2>2, <2>3, <2>4 DEF b, At, InPlace
<1>3. At(s) = s.y * cols + s.x
  BY <1>1 DEF At
<1>4. CASE s.x > 0
  <2>1. [s EXCEPT !.x = s.x - 1] = [s EXCEPT !.x = s.x - 1, !.y = s.y]
    BY DEF Screens, Sized
  <2>2. s.y * cols + (s.x - 1) = At(s) - 1
    BY <1>1, <1>3
  <2>3. s.x - 1 \in 0 .. (cols - 1)
    BY <1>1, <1>4
  <2>4. Backspace(s) = Erased(cursor([s EXCEPT !.x = s.x - 1]))
    BY <1>4 DEF Backspace
  <2> QED
    BY <1>1, <1>2, <2>1, <2>2, <2>3, <2>4
<1>5. CASE ~(s.x > 0)
  <2>1. s.x = 0
    BY <1>1, <1>5
  <2>2. s.y > 0
    <3>1. s.y = 0 => s.y * cols = 0
      BY <1>1
    <3>2. s.y * cols \in Int
      BY <1>1
    <3> QED
      BY <1>1, <1>3, <2>1, <3>1, <3>2
  <2>3. (s.y - 1) * cols + (cols - 1) = At(s) - 1
    <3>1. (s.y - 1) * cols = s.y * cols - cols /\ s.y * cols \in Int
      BY <1>1, Lines
    <3> QED
      BY <1>3, <2>1, <3>1
  <2>4. cols - 1 \in 0 .. (cols - 1) /\ s.y - 1 \in 0 .. (lines - 1)
    BY <1>1, <2>2
  <2>5. Backspace(s) = Erased(cursor([s EXCEPT !.x = cols - 1, !.y = s.y - 1]))
    BY <1>1, <1>5, <2>2 DEF Backspace
  <2> QED
    BY <1>2, <2>3, <2>4, <2>5
<1> QED
  BY <1>4, <1>5

-----------------------------------------------------------------------------
(***************************************************************************)
(* The inductive invariant: the screen is one of a mode, the cursor where  *)
(* the next character goes; the line is in the buffer, none of its         *)
(* characters the one that ends a string, and on the screen before the     *)
(* cursor.                                                                 *)
(***************************************************************************)
LineStored ==
  /\ buffer \in Buffers /\ n \in 0 .. NMax /\ argc \in Nat
  /\ \A i \in 0 .. (n - 1) : buffer[i] # 0

LineShown == n <= Place /\ SeenIsStored

ConsoleInv == screen \in Displays /\ InPlace(screen) /\ LineStored /\ LineShown

(* Nothing of the prompt goes back. *)
LEMMA PromptEnds ==
  ASSUME NEW before \in Seq(Int)
  PROVE  /\ before \o prompt \in Seq(Int) /\ before \o prompt # <<>>
         /\ (before \o prompt)[Len(before \o prompt)] # BS
<1>1. prompt \in Seq(Int) /\ Len(prompt) = 4 /\ prompt[4] = 62
  BY DEF prompt, NL
<1> DEFINE text == before \o prompt
<1> HIDE DEF text
<1>2. /\ text \in Seq(Int) /\ Len(text) = Len(before) + 4
      /\ \A i \in 1 .. (Len(before) + 4) :
           text[i] = IF i <= Len(before) THEN before[i] ELSE prompt[i - Len(before)]
  <2>1. /\ text \in Seq(Int) /\ Len(text) = Len(before) + Len(prompt)
        /\ \A i \in 1 .. (Len(before) + Len(prompt)) :
             text[i] = IF i <= Len(before) THEN before[i] ELSE prompt[i - Len(before)]
    <3> PICK q \in Seq(Int) : q = prompt
      BY <1>1
    <3>1. /\ before \o q \in Seq(Int)
          /\ Len(before \o q) = Len(before) + Len(q)
          /\ \A i \in 1 .. (Len(before) + Len(q)) :
               (before \o q)[i] = IF i <= Len(before) THEN before[i] ELSE q[i - Len(before)]
      BY ConcatProperties
    <3> QED
      BY <3>1, Zenon DEF text
  <2> QED
    BY <1>1, <2>1
<1>3. Len(before) \in Nat
  OBVIOUS
<1>4. text[Len(text)] = prompt[4]
  <2>1. Len(before) + 4 \in 1 .. (Len(before) + 4) /\ ~(Len(before) + 4 <= Len(before))
        /\ (Len(before) + 4) - Len(before) = 4
    BY <1>3
  <2> QED
    BY <1>2, <2>1
<1>5. text # <<>>
  <2>1. Len(text) # 0 /\ Len(<<>>) = 0
    BY <1>2, <1>3
  <2> QED
    BY <2>1, Zenon
<1> QED
  BY <1>1, <1>2, <1>4, <1>5 DEF text, BS

(* The cell the next character goes to. *)
LEMMA AtIsNat ==
  ASSUME NEW s \in Displays
  PROVE  At(s) \in Nat
<1>1. PICK m \in DOMAIN Modes : s \in ScreenOf(m)
  BY DEF Displays
<1>2. PICK cols \in Nat \ {0}, lines \in Nat \ {0} : cols = Modes[m].cols /\ lines = Modes[m].lines
  BY ModeHasRoom
<1>3. s.x \in Nat /\ s.y \in Nat /\ s.cols \in Nat
  BY <1>1, <1>2 DEF ScreenOf, Screens, Sized
<1> QED
  BY <1>3 DEF At

(* The invariant holds when scanf is entered. *)
LEMMA ConsoleInit ==
  ASSUME Init
  PROVE  ConsoleInv
<1> DEFINE s == [cols |-> Modes[1].cols, lines |-> Modes[1].lines, x |-> 0, y |-> 0,
                 video |-> <<>>, cursor |-> 0]
           text == <<MSG, NL>> \o prompt
<1>1. screen = printf(clrscr(s), text)
  BY DEF Init
<1>2. 1 \in DOMAIN Modes
  <2>1. Modes \in Seq([cols : Nat, lines : Nat]) /\ Default \in DOMAIN Modes
    BY ConsoleAssumption
  <2> QED
    BY <2>1
<1>3. s \in [cols : {Modes[1].cols}, lines : {Modes[1].lines}, x : {0}, y : {0},
             video : {<<>>}, cursor : Int]
  OBVIOUS
<1> HIDE DEF s
<1>4. clrscr(s) \in ScreenOf(1)
  BY <1>2, <1>3, ClrscrOnScreen
<1>5. clrscr(s) \in Displays
  BY <1>2, <1>4 DEF Displays
<1>6. text \in Seq(Int) /\ text # <<>> /\ text[Len(text)] # BS
  <2>1. <<MSG, NL>> \in Seq(Int)
    BY DEF MSG, NL
  <2> QED
    BY <2>1, PromptEnds, Zenon
<1> HIDE DEF text
<1>7. screen \in Displays /\ InPlace(screen)
  BY <1>1, <1>5, <1>6, PrintfOnDisplay
<1>8. LineStored
  BY ConsoleAssumption DEF Init, LineStored, Buffers
<1>9. LineShown
  <2>1. n = 0 /\ Place = At(screen)
    BY DEF Init, Place, At
  <2>2. At(screen) \in Nat
    BY <1>7, AtIsNat
  <2> QED
    BY <2>1, <2>2 DEF LineShown, SeenIsStored
<1> QED
  BY <1>7, <1>8, <1>9 DEF ConsoleInv

(* SeenIsStored, byte by byte. *)
LEMMA SeenBytes ==
  ASSUME n \in Nat
  PROVE  SeenIsStored <=> \A i \in 1 .. n : screen.video[Place - n + i - 1] = buffer[i - 1]
BY DEF SeenIsStored, Line

(* The same after a step. *)
LEMMA SeenBytesNext ==
  ASSUME n' \in Nat
  PROVE  SeenIsStored' <=> \A i \in 1 .. n' : screen'.video[Place' - n' + i - 1] = buffer'[i - 1]
BY DEF SeenIsStored, Line

(* A typed character keeps the invariant. *)
LEMMA TypeStep ==
  ASSUME ConsoleInv, NEW c \in Printable, Type(c)
  PROVE  ConsoleInv'
<1>1. PICK m \in DOMAIN Modes : screen \in ScreenOf(m)
  BY DEF ConsoleInv, Displays
<1>2. PICK cols \in Nat \ {0}, lines \in Nat \ {0} :
        cols = Modes[m].cols /\ lines = Modes[m].lines /\ 3 + NMax <= cols * (lines - 1)
  BY ModeHasRoom
<1>3. screen \in Screens(cols, lines)
  BY <1>1, <1>2 DEF ScreenOf
<1>4. c \in Int /\ c # NL /\ c # BS /\ c # 0
  <2>1. c \in 32 .. 126
    BY ConsoleAssumption
  <2> QED
    BY <2>1 DEF NL, BS
<1>5. screen' = Show(screen, c)
  BY <1>4 DEF Type, putchar
<1>6. screen' \in Screens(cols, lines) /\ InPlace(screen')
  BY <1>3, <1>4, <1>5, ShowOnScreen DEF Screens
<1>7. (screen \in Displays)'
  BY <1>2, <1>6 DEF ScreenOf, Displays
<1>8. n \in 0 .. NMax /\ n < NMax /\ n' = n + 1 /\ n' \in 0 .. NMax /\ n' \in Nat
  <2>1. n \in 0 .. NMax /\ n < NMax /\ n' = n + 1
    BY Zenon DEF ConsoleInv, LineStored, Type
  <2>2. NMax \in Nat
    BY ConsoleAssumption
  <2> QED
    BY <2>1, <2>2
<1>9. buffer \in Buffers /\ buffer' = [buffer EXCEPT ![n] = c] /\ c \in Nat
  BY ConsoleAssumption DEF ConsoleInv, LineStored, Type
<1>10. buffer' \in Buffers /\ buffer'[n] = c /\ \A i \in 0 .. (n - 1) : buffer'[i] = buffer[i]
  <2>1. n \in 0 .. (NMax - 1) /\ \A i \in 0 .. (n - 1) : i \in 0 .. (NMax - 1) /\ i # n
    BY <1>8, ConsoleAssumption
  <2> QED
    BY <1>9, <2>1 DEF Buffers
<1>11. LineStored'
  <2>1. \A i \in 0 .. (n' - 1) : buffer'[i] # 0
    BY <1>4, <1>8, <1>10 DEF ConsoleInv, LineStored
  <2> QED
    BY <1>8, <1>10, <2>1 DEF ConsoleInv, LineStored, Type
<1>12. LineShown'
  <2> DEFINE C == Cells(cols, lines)
  <2>1. PICK down \in {0, cols} :
           /\ At(screen') = At(screen) + 1 - down
           /\ down # 0 => At(screen') = cols * (lines - 1)
           /\ \A k \in C : k + down \in C =>
                screen'.video[k] = IF k + down = At(screen) THEN c ELSE screen.video[k + down]
    BY <1>3, <1>4, <1>5, ShowPlaces
  <2>2. At(screen) = Place /\ At(screen') = Place'
    BY DEF At, Place
  <2>3. Place \in C
    BY <1>3, AtInCells DEF Screens, Sized, Place
  <2>4. \A k \in Int : 0 <= k /\ k <= Place => k \in C
    BY <2>3 DEF Cells
  <2>5. Place \in Nat /\ n <= Place
    BY <2>3 DEF Cells, ConsoleInv, LineShown
  <2>6. Place' = Place + 1 - down /\ n + 1 <= Place'
    <3>1. Place' = Place + 1 - down /\ (down # 0 => Place' = cols * (lines - 1))
      BY <2>1, <2>2
    <3>2. 3 + NMax <= cols * (lines - 1) /\ cols * (lines - 1) \in Int /\ NMax \in Nat
      <4>1. cols \in Int /\ lines - 1 \in Int
        OBVIOUS
      <4>2. NMax \in Nat
        BY ConsoleAssumption
      <4>3. \A i, j \in Int : i * j \in Int
        OBVIOUS
      <4>4. cols * (lines - 1) \in Int
        BY <4>1, <4>3, Zenon
      <4> QED
        BY <1>2, <4>2, <4>4, Zenon
    <3>3. CASE down = 0
      BY <1>8, <2>5, <3>1, <3>3
    <3>4. CASE down # 0
      <4>1. Place' = cols * (lines - 1)
        BY <3>1, <3>4
      <4> QED
        BY <1>8, <3>1, <3>2, <4>1
    <3> QED
      BY <3>3, <3>4
  <2>7. \A i \in 1 .. n : screen.video[Place - n + i - 1] = buffer[i - 1]
    BY <1>8, SeenBytes DEF ConsoleInv, LineShown
  <2>8. ASSUME NEW i \in 1 .. (n + 1)
        PROVE  screen'.video[Place' - n' + i - 1] = buffer'[i - 1]
    <3> DEFINE k == Place' - n' + i - 1
    <3>1. k \in Int /\ 0 <= k /\ k <= Place /\ k + down = Place - n + i - 1
          /\ 0 <= k + down /\ k + down <= Place /\ k + down \in Int
      BY <1>8, <2>1, <2>5, <2>6
    <3> HIDE DEF k
    <3>2. screen'.video[k] = IF k + down = Place THEN c ELSE screen.video[k + down]
      BY <2>1, <2>2, <2>4, <3>1
    <3>3. CASE i = n + 1
      <4>1. k + down = Place /\ i - 1 = n
        BY <1>8, <2>5, <3>1, <3>3
      <4> QED
        BY <1>10, <3>2, <4>1 DEF k
    <3>4. CASE i # n + 1
      <4>1. k + down # Place /\ i \in 1 .. n /\ i - 1 \in 0 .. (n - 1)
        BY <1>8, <2>5, <3>1, <3>4
      <4>2. screen.video[k + down] = buffer[i - 1]
        BY <2>7, <3>1, <4>1
      <4> QED
        BY <1>10, <3>2, <4>1, <4>2 DEF k
    <3> QED
      BY <3>3, <3>4
  <2> QED
    BY <1>8, <2>6, <2>8, SeenBytesNext DEF LineShown
<1> QED
  BY <1>6, <1>7, <1>11, <1>12 DEF ConsoleInv

(* A backspace keeps the invariant. *)
LEMMA EraseStep ==
  ASSUME ConsoleInv, Erase
  PROVE  ConsoleInv'
<1>1. PICK m \in DOMAIN Modes : screen \in ScreenOf(m)
  BY DEF ConsoleInv, Displays
<1>2. PICK cols \in Nat \ {0}, lines \in Nat \ {0} :
        cols = Modes[m].cols /\ lines = Modes[m].lines
  BY ModeHasRoom
<1>3. screen \in Screens(cols, lines)
  BY <1>1, <1>2 DEF ScreenOf
<1>4. screen' = Backspace(screen)
  BY DEF Erase, putchar, NL, BS
<1>5. screen' \in Screens(cols, lines)
  BY <1>3, <1>4, BackspaceOnScreen DEF Screens
<1>6. (screen \in Displays)'
  BY <1>2, <1>5 DEF ScreenOf, Displays
<1>7. n \in 0 .. NMax /\ n > 0 /\ n' = n - 1 /\ n' \in 0 .. NMax /\ n' \in Nat
  BY ConsoleAssumption DEF ConsoleInv, LineStored, Erase
<1>8. buffer \in Buffers /\ buffer' = IF n < NMax THEN [buffer EXCEPT ![n] = 0] ELSE buffer
  BY DEF ConsoleInv, LineStored, Erase
<1>9. buffer' \in Buffers /\ \A i \in 0 .. (n - 1) : buffer'[i] = buffer[i]
  <2>1. CASE n < NMax
    <3>1. buffer' \in Buffers /\ n \in Nat
      BY <1>7, <1>8, <2>1, ConsoleAssumption DEF Buffers
    <3>2. \A i \in 0 .. (n - 1) : i # n /\ i \in 0 .. (NMax - 1)
      BY <1>7, <2>1, <3>1, ConsoleAssumption
    <3> QED
      BY <1>8, <2>1, <3>1, <3>2 DEF Buffers
  <2>2. CASE ~(n < NMax)
    BY <1>8, <2>2
  <2> QED
    BY <2>1, <2>2
<1>10. LineStored'
  <2>1. \A i \in 0 .. (n' - 1) : buffer'[i] # 0
    BY <1>7, <1>9 DEF ConsoleInv, LineStored
  <2>2. argc' \in Nat
    BY DEF Erase, ConsoleInv, LineStored
  <2> QED
    BY <1>7, <1>9, <2>1, <2>2 DEF LineStored
<1>11. Place \in Cells(cols, lines) /\ n <= Place
  BY <1>3, AtInCells DEF Screens, Sized, Place, ConsoleInv, LineShown
<1>12. /\ Place' = Place - 1 /\ InPlace(screen')
       /\ \A k \in Cells(cols, lines) : k < Place - 1 => screen'.video[k] = screen.video[k]
  <2>1. At(screen) = Place /\ At(screen') = Place' /\ At(screen) > 0
    BY <1>7, <1>11 DEF At, Place, Cells
  <2> QED
    BY <1>3, <1>4, <2>1, BackspacePlaces
<1>13. LineShown'
  <2>1. Place' \in Nat /\ n' <= Place'
    BY <1>7, <1>11, <1>12 DEF Cells
  <2>2. \A i \in 1 .. n : screen.video[Place - n + i - 1] = buffer[i - 1]
    BY <1>7, SeenBytes DEF ConsoleInv, LineShown
  <2>3. ASSUME NEW i \in 1 .. n'
        PROVE  screen'.video[Place' - n' + i - 1] = buffer'[i - 1]
    <3> DEFINE k == Place' - n' + i - 1
    <3>1. k = Place - n + i - 1 /\ k \in Cells(cols, lines) /\ k < Place - 1
          /\ i \in 1 .. n /\ i - 1 \in 0 .. (n - 1)
      BY <1>7, <1>11, <1>12 DEF Cells
    <3> HIDE DEF k
    <3> QED
      BY <1>9, <1>12, <2>2, <3>1 DEF k
  <2> QED
    BY <1>7, <2>1, <2>3, SeenBytesNext DEF LineShown
<1> QED
  BY <1>6, <1>10, <1>12, <1>13 DEF ConsoleInv

(* Enter, the command and the next prompt keep the invariant. *)
LEMMA EnterStep ==
  ASSUME ConsoleInv, Enter
  PROVE  ConsoleInv'
<1> DEFINE line == Terminated(buffer, n)
           parsed == parse_args(line)
           done == IF code' = "ok" THEN kexec_cmd(screen, argv') ELSE printf(screen, <<MSG, NL>>)
<1>1. /\ buffer' = parsed.mem /\ argc' = Len(parsed.starts)
      /\ argv' = [i \in DOMAIN parsed.starts |->
                    String(parsed.mem, Len(parsed.starts), parsed.starts[i])]
      /\ screen' = printf(done, prompt) /\ n' = 0
  BY DEF Enter
<1>2. line \in Buffers
  <2>1. buffer \in Buffers
    BY DEF ConsoleInv, LineStored
  <2> QED
    BY <2>1 DEF Terminated, Buffers
<1> HIDE DEF line
<1>3. parsed \in Parses
  BY <1>2, ParseInBuffer
<1> HIDE DEF parsed
<1>4. parsed.mem \in Buffers /\ parsed.starts \in Seq(0 .. (NMax + 1))
  BY <1>3 DEF Parses
<1>5. Len(parsed.starts) \in Nat /\ DOMAIN parsed.starts = 1 .. Len(parsed.starts)
      /\ \A i \in DOMAIN parsed.starts : parsed.starts[i] \in 0 .. (NMax + 1)
  <2>1. ASSUME NEW S, NEW q \in Seq(S)
        PROVE  Len(q) \in Nat /\ DOMAIN q = 1 .. Len(q) /\ \A i \in DOMAIN q : q[i] \in S
    OBVIOUS
  <2> QED
    BY <1>4, <2>1, Zenon
<1>6. argv' \in Seq(Seq(Int))
  <2>1. \A i \in DOMAIN parsed.starts :
          String(parsed.mem, Len(parsed.starts), parsed.starts[i]) \in Seq(Int)
    <3> TAKE i \in DOMAIN parsed.starts
    <3>1. String(parsed.mem, Len(parsed.starts), parsed.starts[i]) \in Seq(Nat)
      BY <1>4, <1>5, StringIsText
    <3>2. ASSUME NEW text \in Seq(Nat)
          PROVE  text \in Seq(Int)
      OBVIOUS
    <3> QED
      BY <3>1, <3>2
  <2> DEFINE word(i) == String(parsed.mem, Len(parsed.starts), parsed.starts[i])
  <2>2. argv' = [i \in 1 .. Len(parsed.starts) |-> word(i)]
    BY <1>1, <1>5
  <2>3. \A i \in 1 .. Len(parsed.starts) : word(i) \in Seq(Int)
    BY <1>5, <2>1
  <2> HIDE DEF word
  <2>4. [i \in 1 .. Len(parsed.starts) |-> word(i)] \in Seq(Seq(Int))
    <3> PICK k \in Nat : k = Len(parsed.starts)
      BY <1>5
    <3> PICK S : S = Seq(Int)
      OBVIOUS
    <3>1. \A i \in 1 .. k : word(i) \in S
      BY <2>3
    <3>2. [i \in 1 .. k |-> word(i)] \in Seq(S)
      BY <3>1
    <3> QED
      BY <3>2
  <2> QED
    BY <2>2, <2>4
<1>7. screen \in Displays
  BY DEF ConsoleInv
<1>8. done \in Displays
  <2>1. kexec_cmd(screen, argv') \in Displays
    BY <1>6, <1>7, CommandOnDisplay
  <2>2. <<MSG, NL>> \in Seq(Int)
    BY DEF MSG, NL
  <2>3. printf(screen, <<MSG, NL>>) \in Displays
    BY <1>7, <2>2, PrintfOnDisplay
  <2> QED
    BY <2>1, <2>3
<1> HIDE DEF done
<1>9. screen' \in Displays /\ InPlace(screen')
  <2>1. prompt \in Seq(Int) /\ prompt # <<>> /\ prompt[Len(prompt)] # BS
    BY DEF prompt, NL, BS
  <2> QED
    BY <1>1, <1>8, <2>1, PrintfOnDisplay
<1>10. LineStored'
  BY <1>1, <1>4, <1>5, ConsoleAssumption DEF LineStored
<1>11. LineShown'
  <2>1. n' = 0 /\ Place' = At(screen')
    BY <1>1 DEF Place, At
  <2>2. At(screen') \in Nat
    BY <1>9, AtIsNat
  <2> QED
    BY <2>1, <2>2 DEF LineShown, SeenIsStored
<1> QED
  BY <1>9, <1>10, <1>11 DEF ConsoleInv, Displays

(***************************************************************************)
(* The invariant that the theorems rest on.                                *)
(***************************************************************************)
THEOREM ConsoleInvariant == Spec => []ConsoleInv
<1>1. ASSUME ConsoleInv, [Next]_vars
      PROVE  ConsoleInv'
  <2>1. CASE \E c \in Printable : Type(c)
    BY <1>1, <2>1, TypeStep
  <2>2. CASE Erase
    BY <1>1, <2>2, EraseStep
  <2>3. CASE Enter
    BY <1>1, <2>3, EnterStep
  <2>4. CASE UNCHANGED vars
    BY <1>1, <2>4 DEF vars, ConsoleInv, LineStored, LineShown, SeenIsStored, Line, Place
  <2> QED
    BY <1>1, <2>1, <2>2, <2>3, <2>4 DEF Next
<1> QED
  BY <1>1, ConsoleInit, PTL DEF Spec

(***************************************************************************)
(* What the user sees before the cursor is the line scanf has stored, for  *)
(* every length of line and every text mode with room for it.              *)
(***************************************************************************)
THEOREM ConsoleSeenIsStored == Spec => []SeenIsStored
<1>1. ConsoleInv => SeenIsStored
  BY DEF ConsoleInv, LineShown
<1> QED
  BY <1>1, ConsoleInvariant, PTL

(***************************************************************************)
(* putchar writes to a cell of the screen, where the hardware cursor is:   *)
(* whatever is typed or printed and whatever mode "tem" sets.              *)
(***************************************************************************)
THEOREM ConsoleOnScreen == Spec => []OnScreen
<1>1. ASSUME ConsoleInv
      PROVE  OnScreen
  <2>1. PICK m \in DOMAIN Modes : screen \in ScreenOf(m)
    BY <1>1 DEF ConsoleInv, Displays
  <2> QED
    BY <1>1, <2>1 DEF ConsoleInv, OnScreen, InPlace, Place, ScreenOf, Screens, Sized
<1> QED
  BY <1>1, ConsoleInvariant, PTL

-----------------------------------------------------------------------------
(* The line that is entered.                                               *)

(* The editor starts with an empty line. *)
LEMMA EditorInit ==
  ASSUME ConsoleInv, Init
  PROVE  Editor!Init
<1>1. n = 0 /\ entered = <<>>
  BY DEF Init
<1>2. Line = <<>>
  BY <1>1 DEF Line
<1> QED
  BY <1>1, <1>2 DEF Editor!Init

(* The line is what the buffer holds. *)
LEMMA LineIsText ==
  ASSUME ConsoleInv
  PROVE  Line \in Seq(Nat) /\ Len(Line) = n /\ \A i \in 1 .. n : Line[i] = buffer[i - 1]
<1>1. n \in 0 .. NMax /\ n \in Nat /\ buffer \in Buffers
  BY ConsoleAssumption DEF ConsoleInv, LineStored
<1>2. \A i \in 1 .. n : buffer[i - 1] \in Nat
  <2> TAKE i \in 1 .. n
  <2>1. i - 1 \in 0 .. (NMax - 1)
    BY <1>1, ConsoleAssumption
  <2> QED
    BY <1>1, <2>1 DEF Buffers
<1> QED
  BY <1>1, <1>2 DEF Line

(* A typed character is a step of the editor. *)
LEMMA EditorType ==
  ASSUME ConsoleInv, NEW c \in Printable, Type(c)
  PROVE  Editor!Type
<1>1. /\ n < NMax /\ buffer' = [buffer EXCEPT ![n] = c] /\ n' = n + 1 /\ entered' = entered
  BY DEF Type
<1>2. n \in 0 .. NMax /\ n \in Nat /\ buffer \in Buffers
  BY ConsoleAssumption DEF ConsoleInv, LineStored
<1>3. \A i \in 1 .. (n + 1) : buffer'[i - 1] = IF i = n + 1 THEN c ELSE Line[i]
  <2> TAKE i \in 1 .. (n + 1)
  <2>1. i - 1 \in 0 .. (NMax - 1) /\ (i - 1 = n <=> i = n + 1) /\ (i # n + 1 => i \in 1 .. n)
    BY <1>1, <1>2, ConsoleAssumption
  <2> QED
    BY <1>1, <1>2, <2>1, LineIsText DEF Buffers
<1>4. c \in Nat /\ Line \in Seq(Nat) /\ Len(Line) = n
  <2>1. c \in 32 .. 126
    BY ConsoleAssumption
  <2>2. c \in Nat
    BY <2>1
  <2> QED
    BY <2>2, LineIsText, Zenon
<1>5. /\ Append(Line, c) \in Seq(Nat) /\ Len(Append(Line, c)) = n + 1
      /\ \A i \in 1 .. (n + 1) : Append(Line, c)[i] = IF i = n + 1 THEN c ELSE Line[i]
  <2> DEFINE q == Append(Line, c)
  <2>1. /\ q \in Seq(Nat) /\ Len(q) = Len(Line) + 1 /\ q[Len(Line) + 1] = c
        /\ \A i \in 1 .. Len(Line) : q[i] = Line[i]
    BY <1>4, AppendProperties
  <2> HIDE DEF q
  <2>2. \A i \in 1 .. (n + 1) : q[i] = IF i = n + 1 THEN c ELSE Line[i]
    BY <1>2, <1>4, <2>1
  <2> QED
    BY <1>4, <2>1, <2>2 DEF q
<1>6. Line' = Append(Line, c)
  <2>1. Line' = [i \in 1 .. (n + 1) |-> buffer'[i - 1]]
    BY <1>1 DEF Line
  <2>2. \A i \in 1 .. (n + 1) : buffer'[i - 1] \in Nat
    <3> TAKE i \in 1 .. (n + 1)
    <3>1. i # n + 1 => i \in 1 .. n
      BY <1>2
    <3>2. i # n + 1 => Line[i] \in Nat
      BY <1>4, <3>1
    <3> QED
      BY <1>3, <1>4, <3>2
  <2>3. Line' \in Seq(Nat) /\ Len(Line') = n + 1
    BY <1>2, <2>1, <2>2
  <2> QED
    BY <1>3, <1>5, <2>1, <2>3, SeqEqual
<1> QED
  BY <1>1, <1>6, LineIsText DEF Editor!Type

(* So is a backspace. *)
LEMMA EditorErase ==
  ASSUME ConsoleInv, Erase
  PROVE  Editor!Erase
<1>1. /\ n > 0 /\ buffer' = IF n < NMax THEN [buffer EXCEPT ![n] = 0] ELSE buffer
      /\ n' = n - 1 /\ entered' = entered
  BY DEF Erase
<1>2. n \in 0 .. NMax /\ n \in Nat /\ buffer \in Buffers
  BY ConsoleAssumption DEF ConsoleInv, LineStored
<1>3. \A i \in 1 .. (n - 1) : buffer'[i - 1] = Line[i]
  <2> TAKE i \in 1 .. (n - 1)
  <2>1. i - 1 \in 0 .. (NMax - 1) /\ i - 1 # n /\ i \in 1 .. n
    BY <1>2, ConsoleAssumption
  <2> QED
    BY <1>1, <1>2, <2>1, LineIsText DEF Buffers
<1>4. Line' = [i \in 1 .. (n - 1) |-> buffer'[i - 1]]
  BY <1>1 DEF Line
<1>5. SubSeq(Line, 1, n - 1) = [i \in 1 .. (n - 1) |-> Line[i]]
  BY <1>1, <1>2, LineIsText
<1>6. Line' = SubSeq(Line, 1, Len(Line) - 1)
  BY <1>3, <1>4, <1>5, LineIsText
<1>7. Line # <<>>
  BY <1>1, LineIsText
<1> QED
  BY <1>1, <1>6, <1>7 DEF Editor!Erase

(* The string found in the buffer ends where the line ends. *)
LEMMA EditorEnter ==
  ASSUME ConsoleInv, Enter
  PROVE  Editor!Enter
<1> DEFINE line == Terminated(buffer, n)
           behind == IF n = NMax THEN 0 ELSE argc
<1>1. entered' = String(line, behind, 0) /\ n' = 0
  BY DEF Enter
<1>2. n \in 0 .. NMax /\ n \in Nat /\ buffer \in Buffers /\ argc \in Nat
      /\ \A i \in 0 .. (n - 1) : buffer[i] # 0
  BY ConsoleAssumption DEF ConsoleInv, LineStored
<1>3. line \in Buffers /\ behind \in Nat
  BY <1>2 DEF Terminated, Buffers
<1>4. \A j \in 0 .. (n - 1) : Byte(line, behind, j) = buffer[j]
  <2> TAKE j \in 0 .. (n - 1)
  <2>1. j < NMax /\ j # n /\ j \in 0 .. (NMax - 1)
    BY <1>2, ConsoleAssumption
  <2>2. line[j] = buffer[j]
    BY <1>2, <2>1 DEF Terminated, Buffers
  <2> HIDE DEF line
  <2> QED
    BY <2>1, <2>2 DEF Byte
<1>5. Byte(line, behind, n) = 0
  <2>1. CASE n < NMax
    <3>1. line[n] = 0
      <4>1. n \in 0 .. (NMax - 1)
        BY <1>2, <2>1, ConsoleAssumption
      <4>2. line = [buffer EXCEPT ![n] = 0]
        BY <2>1 DEF Terminated
      <4> HIDE DEF line
      <4> QED
        BY <1>2, <4>1, <4>2 DEF Buffers
    <3> HIDE DEF line
    <3> QED
      BY <2>1, <3>1 DEF Byte
  <2>2. CASE n = NMax
    <3> HIDE DEF line
    <3> QED
      BY <1>2, <2>2 DEF Byte
  <2> QED
    BY <1>2, <2>1, <2>2, ConsoleAssumption
<1> HIDE DEF line, behind
<1>6. PICK end \in Ends(line, behind, 0) :
        entered' = [k \in 1 .. (end - 0) |-> Byte(line, behind, 0 + k - 1)]
  <2>1. 0 \in 0 .. (NMax + 1)
    BY ConsoleAssumption
  <2> QED
    BY <1>1, <1>3, <2>1, StringEnds
<1>7. end = n
  <2>1. /\ end \in 0 .. (NMax + 1) /\ Byte(line, behind, end) = 0
        /\ \A k \in 0 .. (end - 1) : Byte(line, behind, k) # 0
    BY DEF Ends
  <2>2. ~(end < n)
    <3> SUFFICES ASSUME end < n
                 PROVE  FALSE
      OBVIOUS
    <3>1. end \in 0 .. (n - 1)
      BY <1>2, <2>1, ConsoleAssumption
    <3> QED
      BY <1>2, <1>4, <2>1, <3>1
  <2>3. ~(n < end)
    <3> SUFFICES ASSUME n < end
                 PROVE  FALSE
      OBVIOUS
    <3>1. n \in 0 .. (end - 1)
      BY <1>2, <2>1, ConsoleAssumption
    <3> QED
      BY <1>5, <2>1, <3>1
  <2> QED
    BY <1>2, <2>1, <2>2, <2>3, ConsoleAssumption
<1>8. \A k \in 1 .. n : Byte(line, behind, 0 + k - 1) = buffer[k - 1]
  <2> TAKE k \in 1 .. n
  <2>1. 0 + k - 1 = k - 1 /\ k - 1 \in 0 .. (n - 1)
    BY <1>2
  <2> QED
    BY <1>4, <2>1
<1>9. end - 0 = n
  BY <1>2, <1>7
<1>10. entered' = Line
  BY <1>6, <1>8, <1>9 DEF Line
<1>11. Line' = <<>>
  BY <1>1 DEF Line
<1> QED
  BY <1>10, <1>11 DEF Editor!Enter

(***************************************************************************)
(* scanf hands over the line the user edited: the command line implements  *)
(* the editor of one line.                                                 *)
(***************************************************************************)
THEOREM ConsoleImplementsEditor == Spec => EditorSpec
<1>1. ASSUME ConsoleInv, [Next]_vars
      PROVE  [Editor!Next]_<<Line, entered>>
  <2>1. CASE \E c \in Printable : Type(c)
    BY <1>1, <2>1, EditorType DEF Editor!Next
  <2>2. CASE Erase
    BY <1>1, <2>2, EditorErase DEF Editor!Next
  <2>3. CASE Enter
    BY <1>1, <2>3, EditorEnter DEF Editor!Next
  <2>4. CASE UNCHANGED vars
    BY <2>4 DEF vars, Line
  <2> QED
    BY <1>1, <2>1, <2>2, <2>3, <2>4 DEF Next
<1>2. Init => Editor!Init
  BY ConsoleInit, EditorInit
<1> QED
  BY <1>1, <1>2, ConsoleInvariant, PTL DEF Spec, EditorSpec, Editor!Spec

-----------------------------------------------------------------------------
(* The words of the line.  Positions in buffer count from 0.               *)

Texts == {line \in Seq(Nat \ {0}) : Len(line) < NMax}

(* The buffer has the line from at on; before at, the spaces that end a    *)
(* word are cut.                                                           *)
CutTo(line, mem, at) ==
  /\ mem \in Buffers /\ mem[Len(line)] = 0
  /\ \A i \in 0 .. (Len(line) - 1) : line[i + 1] # SPACE \/ at <= i => mem[i] = line[i + 1]
  /\ \A i \in 1 .. (Len(line) - 1) :
       i < at /\ line[i + 1] = SPACE /\ line[i] # SPACE => mem[i] = 0

StartsTo(line, at) == {i \in Starts(line) : i <= at + 1}

(* The words that begin up to at are found. *)
FoundTo(line, starts, at) ==
  /\ Len(starts) <= MaxArgs + 1
  /\ \A v, w \in 1 .. Len(starts) : v < w => starts[v] < starts[w]
  /\ StartsTo(line, at) = {starts[w] + 1 : w \in 1 .. Len(starts)}

(* The characters of a line that fits in the buffer. *)
LEMMA TextType ==
  ASSUME NEW line \in Texts
  PROVE  /\ Len(line) \in Nat /\ Len(line) < NMax
         /\ \A i \in 0 .. (Len(line) - 1) : line[i + 1] \in Nat /\ line[i + 1] # 0
<1>1. line \in Seq(Nat \ {0}) /\ Len(line) < NMax
  BY DEF Texts
<1>2. Len(line) \in Nat /\ \A i \in 1 .. Len(line) : line[i] \in Nat \ {0}
  BY <1>1
<1> QED
  BY <1>1, <1>2

(* From at on the bytes are those of the line. *)
LEMMA BytesOfLine ==
  ASSUME NEW line \in Texts, NEW mem, NEW at \in Nat, CutTo(line, mem, at),
         NEW count \in Nat, NEW i \in Nat, i <= Len(line)
  PROVE  /\ i = Len(line) => Byte(mem, count, i) = 0
         /\ i < Len(line) /\ at <= i => Byte(mem, count, i) = line[i + 1] /\ Byte(mem, count, i) # 0
         /\ i < Len(line) /\ line[i + 1] # SPACE =>
              Byte(mem, count, i) = line[i + 1] /\ Byte(mem, count, i) # 0
<1>1. Len(line) \in Nat /\ Len(line) < NMax
      /\ \A k \in 0 .. (Len(line) - 1) : line[k + 1] \in Nat /\ line[k + 1] # 0
  BY TextType
<1>2. Byte(mem, count, i) = mem[i]
  BY <1>1, ConsoleAssumption DEF Byte
<1>3. i < Len(line) => i \in 0 .. (Len(line) - 1)
  BY <1>1
<1> QED
  BY <1>1, <1>2, <1>3 DEF CutTo

(* Spaces are skipped up to a word or to the end of the line. *)
SkippedTo(line, mem, count, i, next) ==
  /\ next \in i .. Len(line)
  /\ \A k \in i .. (next - 1) : line[k + 1] = SPACE
  /\ next < Len(line) => line[next + 1] # SPACE
  /\ Byte(mem, count, next) = 0 <=> next = Len(line)

(* Skipping spaces leads to the next word of the line, or to its end. *)
LEMMA SkipInLine ==
  ASSUME NEW line \in Texts, NEW mem, NEW at \in Nat, CutTo(line, mem, at),
         NEW count \in Nat, NEW i \in Nat, at <= i, i <= Len(line)
  PROVE  SkippedTo(line, mem, count, i, SkipSpaces(mem, count, i))
<1> DEFINE next == SkipSpaces(mem, count, i)
<1>1. Len(line) \in Nat /\ Len(line) < NMax /\ NMax \in Nat /\ mem \in Buffers
  BY TextType, ConsoleAssumption DEF CutTo
<1>2. /\ next \in i .. (NMax + 1) /\ Byte(mem, count, next) # SPACE
      /\ \A k \in i .. (next - 1) : Byte(mem, count, k) = SPACE
  <2>1. i \in 0 .. (NMax + 1)
    BY <1>1
  <2> QED
    BY <1>1, <2>1, SkipSpacesStops
<1> HIDE DEF next
<1>3. next <= Len(line)
  <2> SUFFICES ASSUME ~(next <= Len(line))
               PROVE  FALSE
    OBVIOUS
  <2>1. Len(line) \in i .. (next - 1)
    BY <1>1, <1>2
  <2>2. Byte(mem, count, Len(line)) = 0
    BY <1>1, BytesOfLine
  <2> QED
    BY <1>2, <2>1, <2>2 DEF SPACE
<1>4. next \in i .. Len(line) /\ next \in Nat
  BY <1>1, <1>2, <1>3
<1>5. ASSUME NEW k \in i .. (next - 1)
      PROVE  line[k + 1] = SPACE
  <2>1. k \in Nat /\ k < Len(line) /\ at <= k
    BY <1>1, <1>4
  <2> QED
    BY <1>2, <2>1, BytesOfLine
<1>6. next < Len(line) => line[next + 1] # SPACE
  BY <1>2, <1>4, BytesOfLine
<1>7. Byte(mem, count, next) = 0 <=> next = Len(line)
  <2>1. at <= next
    BY <1>4
  <2> QED
    BY <1>1, <1>4, <2>1, BytesOfLine
<1> QED
  BY <1>4, <1>5, <1>6, <1>7 DEF next, SkippedTo

(* The string at the beginning of a word is the word. *)
LEMMA WordIsString ==
  ASSUME NEW line \in Texts, NEW mem, CutTo(line, mem, Len(line)), NEW count \in Nat,
         NEW i \in Starts(line)
  PROVE  String(mem, count, i - 1) = WordAt(line, i)
<1> DEFINE p == i - 1
           last == Len(line)
<1>1. last \in Nat /\ last < NMax /\ NMax \in Nat /\ mem \in Buffers
  BY TextType, ConsoleAssumption DEF CutTo
<1>2. i \in 1 .. last /\ p \in 0 .. (last - 1) /\ p \in Nat /\ p < last /\ line[i] # SPACE /\ p + 1 = i
  BY <1>1 DEF Starts
<1>3. PICK end \in Ends(mem, count, p) :
        String(mem, count, p) = [k \in 1 .. (end - p) |-> Byte(mem, count, p + k - 1)]
  <2>1. p \in 0 .. (NMax + 1)
    BY <1>1, <1>2
  <2> QED
    BY <1>1, <2>1, StringEnds
<1> HIDE DEF p, last
<1>4. end \in p .. (NMax + 1) /\ Byte(mem, count, end) = 0
      /\ \A k \in p .. (end - 1) : Byte(mem, count, k) # 0
  BY DEF Ends
<1>5. end <= last
  <2> SUFFICES ASSUME ~(end <= last)
               PROVE  FALSE
    OBVIOUS
  <2>1. last \in p .. (end - 1)
    BY <1>1, <1>2, <1>4
  <2>2. Byte(mem, count, last) = 0
    BY <1>1, BytesOfLine DEF last
  <2> QED
    BY <1>4, <2>1, <2>2
<1>6. p < end
  <2>1. Byte(mem, count, p) # 0
    BY <1>1, <1>2, BytesOfLine DEF last
  <2> QED
    BY <1>2, <1>4, <2>1
<1>7. \A k \in p .. (end - 1) : line[k + 1] # SPACE
  <2> DEFINE T == {k \in p .. (end - 1) : line[k + 1] = SPACE}
  <2> SUFFICES ASSUME T # {}
               PROVE  FALSE
    OBVIOUS
  <2>1. T \subseteq Nat
    BY <1>2
  <2>2. PICK k \in T : \A j \in T : k <= j
    BY <2>1, Least
  <2>3. k \in p .. (end - 1) /\ line[k + 1] = SPACE /\ k # p
    BY <1>2
  <2>4. k - 1 \in p .. (end - 1) /\ ~(k <= k - 1)
    BY <1>2, <1>4, <2>3
  <2>5. line[k] # SPACE
    <3>1. k - 1 \notin T
      BY <2>2, <2>4
    <3>2. (k - 1) + 1 = k
      BY <1>2, <2>3
    <3> QED
      BY <2>4, <3>1, <3>2
  <2>6. k \in 1 .. (last - 1) /\ k < last /\ k < NMax /\ k \in Nat
    BY <1>1, <1>2, <1>4, <1>5, <2>3
  <2>7. mem[k] = 0
    BY <2>3, <2>5, <2>6 DEF CutTo, last
  <2>8. Byte(mem, count, k) = 0
    BY <2>6, <2>7 DEF Byte
  <2> QED
    BY <1>4, <2>3, <2>8
<1>8. end < last => line[end + 1] = SPACE
  <2>1. end \in Nat
    BY <1>1, <1>2, <1>4
  <2> QED
    BY <1>1, <1>4, <1>5, <2>1, BytesOfLine DEF last
<1>9. ASSUME NEW j \in i .. last, \A k \in i .. j : line[k] # SPACE, j < last => line[j + 1] = SPACE
      PROVE  j = end
  <2>1. end \in Nat /\ j \in Nat
    BY <1>1, <1>2, <1>4
  <2>2. ~(j < end)
    <3> SUFFICES ASSUME j < end
                 PROVE  FALSE
      OBVIOUS
    <3>1. j \in p .. (end - 1) /\ j < last
      BY <1>1, <1>2, <1>4, <1>5, <1>9, <2>1
    <3> QED
      BY <1>7, <1>9, <3>1
  <2>3. ~(end < j)
    <3> SUFFICES ASSUME end < j
                 PROVE  FALSE
      OBVIOUS
    <3>1. end + 1 \in i .. j /\ end < last
      BY <1>1, <1>2, <1>4, <1>6, <1>9, <2>1
    <3> QED
      BY <1>8, <1>9, <3>1
  <2> QED
    BY <2>1, <2>2, <2>3
<1>10. end \in i .. last /\ \A k \in i .. end : line[k] # SPACE
  <2>1. end \in i .. last
    BY <1>1, <1>2, <1>4, <1>5, <1>6
  <2>2. ASSUME NEW k \in i .. end
        PROVE  line[k] # SPACE
    <3>1. k - 1 \in p .. (end - 1) /\ (k - 1) + 1 = k
      BY <1>2, <2>1
    <3> QED
      BY <1>7, <3>1
  <2> QED
    BY <2>1, <2>2
<1>11. WordAt(line, i) = SubSeq(line, i, end)
  <2> DEFINE e == CHOOSE j \in i .. Len(line) :
               (\A k \in i .. j : line[k] # SPACE) /\ (j < Len(line) => line[j + 1] = SPACE)
  <2>1. e \in i .. last /\ (\A k \in i .. e : line[k] # SPACE) /\ (e < last => line[e + 1] = SPACE)
    BY <1>8, <1>10 DEF last
  <2>2. WordAt(line, i) = SubSeq(line, i, e)
    BY DEF WordAt
  <2> HIDE DEF e
  <2> QED
    BY <1>9, <2>1, <2>2
<1>12. \A k \in 1 .. (end - p) : Byte(mem, count, p + k - 1) = line[i + k - 1]
  <2> TAKE k \in 1 .. (end - p)
  <2>1. p + k - 1 \in p .. (end - 1) /\ p + k - 1 \in Nat /\ p + k - 1 < last
        /\ (p + k - 1) + 1 = i + k - 1
    BY <1>1, <1>2, <1>4, <1>5, <1>6
  <2>2. line[(p + k - 1) + 1] # SPACE
    BY <1>7, <2>1
  <2>3. Byte(mem, count, p + k - 1) = line[(p + k - 1) + 1]
    BY <1>1, <2>1, <2>2, BytesOfLine DEF last
  <2> QED
    BY <2>1, <2>3
<1>13. SubSeq(line, i, end) = [k \in 1 .. (end - p) |-> line[i + k - 1]]
  <2>1. end - p = end - i + 1
    BY <1>1, <1>2, <1>4
  <2>2. line \in Seq(Nat \ {0})
    BY DEF Texts
  <2> QED
    BY <1>1, <1>2, <1>10, <2>1, <2>2 DEF last
<1> QED
  BY <1>3, <1>11, <1>12, <1>13 DEF p

(* What the loop has reached after k passes. *)
Reached(line, k) == {s \in Parses :
  \/ /\ s.code = "running" /\ k <= s.at /\ s.at <= Len(line)
     /\ CutTo(line, s.mem, s.at) /\ FoundTo(line, s.starts, s.at)
  \/ /\ s.code = "ok"
     /\ CutTo(line, s.mem, Len(line)) /\ FoundTo(line, s.starts, Len(line))
  \/ /\ s.code = "too many" /\ MaxArgs < Len(s.starts)
     /\ FoundTo(line, s.starts, s.at)}

(* A space after a word is cut, the other spaces stay. *)
LEMMA CutSpaces ==
  ASSUME NEW line \in Texts, NEW mem, NEW at \in Nat, CutTo(line, mem, at), at < Len(line),
         line[at + 1] = SPACE, NEW next \in (at + 1) .. Len(line),
         \A k \in (at + 1) .. (next - 1) : line[k + 1] = SPACE
  PROVE  CutTo(line, [mem EXCEPT ![at] = 0], next)
<1> DEFINE cut == [mem EXCEPT ![at] = 0]
           last == Len(line)
<1>1. last \in Nat /\ last < NMax /\ NMax \in Nat /\ mem \in Buffers
  BY TextType, ConsoleAssumption DEF CutTo
<1>2. cut \in Buffers /\ cut[at] = 0 /\ \A i \in 0 .. last : i # at => cut[i] = mem[i]
  <2>1. at \in 0 .. (NMax - 1) /\ \A i \in 0 .. last : i \in 0 .. (NMax - 1)
    BY <1>1
  <2> QED
    BY <1>1, <2>1 DEF Buffers
<1> HIDE DEF cut, last
<1>3. cut[last] = 0
  <2>1. last \in 0 .. last /\ last # at
    BY <1>1 DEF last
  <2> QED
    BY <1>2, <2>1 DEF CutTo, last
<1>4. ASSUME NEW i \in 0 .. (last - 1), line[i + 1] # SPACE \/ next <= i
      PROVE  cut[i] = line[i + 1]
  <2>1. i # at /\ i \in 0 .. last
    BY <1>1, <1>4
  <2>2. line[i + 1] # SPACE \/ at <= i
    BY <1>4
  <2> QED
    BY <1>2, <2>1, <2>2 DEF CutTo, last
<1>5. ASSUME NEW i \in 1 .. (last - 1), i < next, line[i + 1] = SPACE, line[i] # SPACE
      PROVE  cut[i] = 0
  <2>1. CASE i = at
    BY <1>2, <2>1
  <2>2. CASE i < at
    <3>1. i \in 0 .. last /\ i # at
      BY <1>1, <2>2
    <3> QED
      BY <1>2, <1>5, <2>2, <3>1 DEF CutTo, last
  <2>3. ~(at < i)
    <3> SUFFICES ASSUME at < i
                 PROVE  FALSE
      OBVIOUS
    <3>1. CASE i = at + 1
      BY <1>5, <3>1
    <3>2. CASE i # at + 1
      <4>1. i - 1 \in (at + 1) .. (next - 1) /\ (i - 1) + 1 = i
        BY <1>1, <1>5, <3>2
      <4> QED
        BY <1>5, <4>1
    <3> QED
      BY <3>1, <3>2
  <2> QED
    BY <1>1, <2>1, <2>2, <2>3
<1> QED
  BY <1>2, <1>3, <1>4, <1>5 DEF CutTo, cut, last

(* No word begins among spaces, or behind a character of one. *)
LEMMA NoStart ==
  ASSUME NEW line \in Texts, NEW at \in Nat, at < Len(line),
         NEW next \in (at + 1) .. Len(line),
         next = at + 1 \/ \A k \in at .. (next - 1) : line[k + 1] = SPACE
  PROVE  /\ line[at + 1] # SPACE /\ next = at + 1 => StartsTo(line, next) = StartsTo(line, at)
         /\ line[at + 1] = SPACE /\ next < Len(line) /\ line[next + 1] # SPACE =>
              StartsTo(line, next) = StartsTo(line, at) \cup {next + 1}
         /\ line[at + 1] = SPACE /\ next = Len(line) => StartsTo(line, next) = StartsTo(line, at)
<1>1. Len(line) \in Nat /\ next \in Nat /\ at + 1 <= next
  BY TextType
<1>2. ASSUME line[at + 1] # SPACE, next = at + 1
      PROVE  StartsTo(line, next) = StartsTo(line, at)
  <2>1. ASSUME NEW i \in Starts(line), i <= next + 1
        PROVE  i <= at + 1
    <3>1. i \in Nat /\ (i = 1 \/ line[i - 1] = SPACE)
      BY DEF Starts
    <3>2. i = at + 2 => i - 1 = at + 1 /\ i # 1
      OBVIOUS
    <3> QED
      BY <1>1, <1>2, <2>1, <3>1, <3>2
  <2>2. \A i \in Starts(line) : i <= next + 1 <=> i <= at + 1
    <3> TAKE i \in Starts(line)
    <3>1. i \in Nat
      BY DEF Starts
    <3> QED
      BY <1>1, <2>1, <3>1
  <2> QED
    BY <2>2 DEF StartsTo
<1>3. ASSUME line[at + 1] = SPACE, NEW i \in Starts(line), i <= next, ~(i <= at + 1)
      PROVE  FALSE
  <2>1. i \in 1 .. Len(line) /\ line[i] # SPACE
    BY DEF Starts
  <2>2. i - 1 \in at .. (next - 1) /\ (i - 1) + 1 = i /\ next # at + 1
    BY <1>1, <1>3, <2>1
  <2> QED
    BY <2>1, <2>2
<1>4. ASSUME line[at + 1] = SPACE, next < Len(line), line[next + 1] # SPACE
      PROVE  StartsTo(line, next) = StartsTo(line, at) \cup {next + 1}
  <2>1. line[next] = SPACE
    <3>1. CASE next = at + 1
      BY <1>4, <3>1
    <3>2. CASE next # at + 1
      <4>1. next - 1 \in at .. (next - 1) /\ (next - 1) + 1 = next
        BY <1>1
      <4> QED
        BY <3>2, <4>1
    <3> QED
      BY <3>1, <3>2
  <2>2. next + 1 \in Starts(line) /\ next + 1 \in StartsTo(line, next)
    <3>1. next + 1 \in 1 .. Len(line) /\ (next + 1) - 1 = next
      BY <1>1, <1>4
    <3> QED
      BY <1>1, <1>4, <2>1, <3>1 DEF Starts, StartsTo
  <2>3. ASSUME NEW i \in Starts(line), i <= next + 1
        PROVE  i <= at + 1 \/ i = next + 1
    <3>1. i \in Nat
      BY DEF Starts
    <3>2. i <= next => i <= at + 1
      BY <1>3, <1>4
    <3> QED
      BY <1>1, <2>3, <3>1, <3>2
  <2>4. \A i \in Starts(line) : i \in Nat
    BY DEF Starts
  <2> QED
    BY <1>1, <2>2, <2>3, <2>4 DEF StartsTo
<1>5. ASSUME line[at + 1] = SPACE, next = Len(line)
      PROVE  StartsTo(line, next) = StartsTo(line, at)
  <2>1. \A i \in Starts(line) : i \in Nat /\ i <= next
    BY <1>5 DEF Starts
  <2>2. \A i \in Starts(line) : i <= next + 1 => i <= at + 1
    BY <1>1, <1>3, <1>5, <2>1
  <2> QED
    BY <1>1, <2>1, <2>2 DEF StartsTo
<1> QED
  BY <1>2, <1>4, <1>5

(* One word more is found. *)
LEMMA OneMore ==
  ASSUME NEW line \in Texts, NEW starts \in Seq(0 .. (NMax + 1)), NEW at \in Nat, NEW next \in Nat,
         next \in 0 .. (NMax + 1), at < next,
         FoundTo(line, starts, at), Len(starts) <= MaxArgs,
         StartsTo(line, next) = StartsTo(line, at) \cup {next + 1}
  PROVE  FoundTo(line, Append(starts, next), next)
<1> DEFINE more == Append(starts, next)
           k == Len(starts)
<1>1. /\ Len(more) = k + 1 /\ k \in Nat /\ more[k + 1] = next
      /\ \A w \in 1 .. k : more[w] = starts[w] /\ starts[w] \in 0 .. (NMax + 1)
  <2>1. ASSUME NEW S, NEW q \in Seq(S), NEW e \in S
        PROVE  /\ Len(Append(q, e)) = Len(q) + 1 /\ Len(q) \in Nat /\ Append(q, e)[Len(q) + 1] = e
               /\ \A w \in 1 .. Len(q) : Append(q, e)[w] = q[w] /\ q[w] \in S
    BY <2>1, AppendProperties
  <2> QED
    BY <2>1
<1> HIDE DEF more
<1>2. \A w \in 1 .. k : starts[w] < next
  <2> TAKE w \in 1 .. k
  <2>1. starts[w] + 1 \in StartsTo(line, at)
    BY DEF FoundTo
  <2>2. starts[w] + 1 <= at + 1
    BY <2>1, Zenon DEF StartsTo
  <2>3. starts[w] \in 0 .. (NMax + 1)
    BY <1>1, Zenon
  <2>4. starts[w] \in Nat
    BY <2>3, ConsoleAssumption
  <2> HIDE DEF k
  <2> QED
    BY <2>2, <2>4
<1>3. {more[w] + 1 : w \in 1 .. Len(more)} = {starts[w] + 1 : w \in 1 .. k} \cup {next + 1}
  <2>1. \A w \in 1 .. (k + 1) : w \in 1 .. k \/ w = k + 1
    BY <1>1
  <2>2. \A w \in 1 .. k : w \in 1 .. (k + 1)
    BY <1>1
  <2>3. k + 1 \in 1 .. (k + 1)
    BY <1>1
  <2> HIDE DEF k
  <2> QED
    BY <1>1, <2>1, <2>2, <2>3
<1>4. ASSUME NEW v \in 1 .. (k + 1), NEW w \in 1 .. (k + 1), v < w
      PROVE  more[v] < more[w]
  <2>1. v \in 1 .. k
    BY <1>1, <1>4
  <2>2. CASE w = k + 1
    BY <1>1, <1>2, <2>1, <2>2
  <2>3. CASE w # k + 1
    <3>1. w \in 1 .. k
      BY <1>1, <2>3
    <3>2. starts[v] < starts[w]
      BY <1>4, <2>1, <3>1 DEF FoundTo
    <3> QED
      BY <1>1, <2>1, <3>1, <3>2
  <2> QED
    BY <2>2, <2>3
<1>5. Len(more) <= MaxArgs + 1
  BY <1>1, ConsoleAssumption
<1> QED
  BY <1>1, <1>3, <1>4, <1>5 DEF FoundTo, more

(* A pass of the loop cuts one more word off, or ends the loop. *)
LEMMA PassReaches ==
  ASSUME NEW line \in Texts, NEW k \in Nat, NEW s \in Reached(line, k)
  PROVE  On(s) \in Reached(line, k + 1)
<1> DEFINE last == Len(line)
           at == s.at
           count == Len(s.starts)
           byte == Byte(s.mem, count, at)
           cut == [s EXCEPT !.mem[at] = 0]
           next == SkipSpaces(cut.mem, count, at + 1)
<1>1. s \in Parses /\ s.starts \in Seq(0 .. (NMax + 1)) /\ at \in 0 .. (NMax + 1)
      /\ s.code \in {"running", "ok", "too many"}
  BY DEF Reached, Parses
<1>2. last \in Nat /\ last < NMax /\ NMax \in Nat /\ count \in Nat /\ at \in Nat
  <2>1. last \in Nat /\ last < NMax /\ NMax \in Nat
    BY TextType, ConsoleAssumption
  <2>2. count \in Nat
    <3>1. ASSUME NEW S, NEW q \in Seq(S)
          PROVE  Len(q) \in Nat
      OBVIOUS
    <3> QED
      BY <1>1, <3>1
  <2>3. \A i \in 0 .. (NMax + 1) : i \in Nat
    BY <2>1
  <2> QED
    BY <1>1, <2>1, <2>2, <2>3
<1>3. CASE s.code # "running"
  BY <1>3 DEF On, Reached
<1>4. CASE s.code = "running"
  <2>1. /\ k <= at /\ at <= last
        /\ CutTo(line, s.mem, at) /\ FoundTo(line, s.starts, at)
    BY <1>4 DEF Reached
  <2>2. On(s) = Pass(s)
    BY <1>4 DEF On
  <2>3. On(s) \in Parses
    BY <1>1, <2>2, PassInBuffer
  <2>4. at < NMax /\ Cut(s) = cut
    <3>1. at < NMax
      BY <1>2, <2>1
    <3> QED
      BY <3>1 DEF Cut
  <2>5. CASE at = last
    <3>1. byte = 0
      BY <1>2, <2>1, <2>5, BytesOfLine
    <3>2. Pass(s) = [s EXCEPT !.code = "ok"]
      BY <3>1 DEF Pass
    <3> DEFINE r == [s EXCEPT !.code = "ok"]
    <3>3. r.code = "ok" /\ r.mem = s.mem /\ r.starts = s.starts /\ r.at = at
      BY <1>1 DEF Parses
    <3> HIDE DEF r
    <3> QED
      BY <2>1, <2>2, <2>3, <2>5, <3>2, <3>3 DEF Reached, r
  <2>6. CASE at < last /\ line[at + 1] # SPACE
    <3>1. byte = line[at + 1] /\ byte # 0
      BY <1>2, <2>1, <2>6, BytesOfLine
    <3>2. Pass(s) = [s EXCEPT !.at = s.at + 1]
      BY <2>6, <3>1 DEF Pass
    <3> DEFINE r == [s EXCEPT !.at = s.at + 1]
    <3>3. r.code = "running" /\ r.mem = s.mem /\ r.starts = s.starts /\ r.at = at + 1
      BY <1>1, <1>4 DEF Parses
    <3>4. FoundTo(line, s.starts, at + 1)
      <4>1. StartsTo(line, at + 1) = StartsTo(line, at)
        BY <1>2, <2>6, NoStart
      <4> QED
        BY <2>1, <4>1 DEF FoundTo
    <3>5. CutTo(line, s.mem, at + 1)
      <4>1. \A i \in 0 .. (last - 1) : at + 1 <= i => at <= i
        BY <1>2
      <4>2. ASSUME NEW i \in 1 .. (last - 1), i < at + 1, line[i + 1] = SPACE
            PROVE  i < at
        <5>1. i # at
          BY <2>6, <4>2
        <5> QED
          BY <1>2, <4>2, <5>1
      <4> QED
        BY <2>1, <4>1, <4>2 DEF CutTo
    <3>6. k + 1 <= at + 1 /\ at + 1 <= last
      BY <1>2, <2>1, <2>6
    <3> HIDE DEF r
    <3> QED
      BY <2>2, <2>3, <3>2, <3>3, <3>4, <3>5, <3>6 DEF Reached, r
  <2>7. CASE at < last /\ line[at + 1] = SPACE
    <3>1. byte = line[at + 1] /\ byte # 0
      BY <1>2, <2>1, <2>7, BytesOfLine
    <3>2. s.at + 1 # NMax
      BY <1>2, <2>7
    <3>3. cut.starts = s.starts /\ cut.mem = [s.mem EXCEPT ![at] = 0] /\ cut.code = "running"
      BY <1>1, <1>4 DEF Parses
    <3>4. Pass(s) = IF count > MaxArgs THEN [cut EXCEPT !.code = "too many"]
                    ELSE IF Byte(cut.mem, count, next) = 0 THEN [cut EXCEPT !.code = "ok"]
                    ELSE [cut EXCEPT !.starts = Append(s.starts, next), !.at = next]
      BY <2>4, <2>7, <3>1, <3>2, <3>3 DEF Pass, BufferEnds
    <3>5. cut.at = at /\ cut \in Parses
      <4>1. cut = Cut(s)
        BY <2>4
      <4> HIDE DEF cut
      <4> QED
        BY <1>1, <4>1, CutInBuffer
    <3>6. CutTo(line, cut.mem, at + 1)
      <4>1. at + 1 \in (at + 1) .. last /\ \A i \in (at + 1) .. ((at + 1) - 1) : line[i + 1] = SPACE
        BY <1>2, <2>7
      <4> HIDE DEF cut
      <4>2. CutTo(line, [s.mem EXCEPT ![at] = 0], at + 1)
        BY <1>2, <2>1, <2>7, <4>1, CutSpaces, Zenon
      <4> QED
        BY <3>3, <4>2, Zenon
    <3> HIDE DEF cut
    <3>7. /\ next \in (at + 1) .. last
          /\ \A i \in (at + 1) .. (next - 1) : line[i + 1] = SPACE
          /\ next < last => line[next + 1] # SPACE
          /\ Byte(cut.mem, count, next) = 0 <=> next = last
      <4>1. at + 1 \in Nat /\ at + 1 <= last
        BY <1>2, <2>7
      <4>2. SkippedTo(line, cut.mem, count, at + 1, next)
        BY <1>2, <3>6, <4>1, SkipInLine
      <4> HIDE DEF next
      <4> QED
        BY <4>2 DEF SkippedTo
    <3> HIDE DEF next
    <3>8. CutTo(line, cut.mem, next)
      <4>1. CutTo(line, [s.mem EXCEPT ![at] = 0], next)
        BY <1>2, <2>1, <2>7, <3>7, CutSpaces, Zenon
      <4> QED
        BY <3>3, <4>1, Zenon
    <3>9. next = at + 1 \/ \A i \in at .. (next - 1) : line[i + 1] = SPACE
      <4>1. \A i \in at .. (next - 1) : i = at \/ i \in (at + 1) .. (next - 1)
        BY <1>2, <3>7
      <4> QED
        BY <2>7, <3>7, <4>1
    <3>10. CASE count > MaxArgs
      <4> DEFINE r == [cut EXCEPT !.code = "too many"]
      <4>1. r.code = "too many" /\ r.starts = s.starts /\ r.at = at
        BY <3>3, <3>5 DEF Parses
      <4>2. MaxArgs < count
        BY <1>2, <3>10, ConsoleAssumption
      <4>3. Pass(s) = r
        BY <3>4, <3>10
      <4> HIDE DEF r
      <4> QED
        BY <2>1, <2>2, <2>3, <4>1, <4>2, <4>3 DEF Reached
    <3>11. CASE ~(count > MaxArgs) /\ next = last
      <4> DEFINE r == [cut EXCEPT !.code = "ok"]
      <4>1. r.code = "ok" /\ r.starts = s.starts /\ r.mem = cut.mem
        BY <3>3, <3>5 DEF Parses
      <4>2. FoundTo(line, s.starts, last)
        <5>1. StartsTo(line, next) = StartsTo(line, at)
          <6>1. line[at + 1] = SPACE /\ next = Len(line) /\ at < Len(line)
            BY <2>7, <3>11
          <6>2. next \in (at + 1) .. Len(line)
            BY <3>7
          <6>3. line[at + 1] = SPACE /\ next = Len(line) => StartsTo(line, next) = StartsTo(line, at)
            <7>1. at \in Nat /\ (next = at + 1 \/ \A i \in at .. (next - 1) : line[i + 1] = SPACE)
              BY <1>2, <3>9
            <7> HIDE DEF at, last
            <7> QED
              BY <6>1, <6>2, <7>1, NoStart
          <6> QED
            BY <6>1, <6>3, Zenon
        <5> QED
          BY <2>1, <3>11, <5>1 DEF FoundTo
      <4>3. Pass(s) = r
        BY <3>4, <3>7, <3>11
      <4> HIDE DEF r
      <4> QED
        BY <2>2, <2>3, <3>8, <3>11, <4>1, <4>2, <4>3 DEF Reached
    <3>12. CASE ~(count > MaxArgs) /\ next # last
      <4> DEFINE r == [cut EXCEPT !.starts = Append(s.starts, next), !.at = next]
      <4>1. r.code = "running" /\ r.starts = Append(s.starts, next) /\ r.mem = cut.mem /\ r.at = next
        BY <3>3, <3>5 DEF Parses
      <4>2. next < last /\ next \in Nat /\ next \in 0 .. (NMax + 1) /\ at < next /\ k + 1 <= next
            /\ next <= last
        BY <1>2, <2>1, <3>7, <3>12
      <4>3. FoundTo(line, Append(s.starts, next), next)
        <5>1. StartsTo(line, next) = StartsTo(line, at) \cup {next + 1}
          BY <1>2, <2>7, <3>7, <3>9, <4>2, NoStart
        <5>2. count <= MaxArgs
          BY <1>2, <3>12, ConsoleAssumption, SMTT(30)
        <5> QED
          BY <1>1, <1>2, <2>1, <4>2, <5>1, <5>2, OneMore
      <4>4. Pass(s) = r
        BY <3>4, <3>7, <3>12
      <4> HIDE DEF r
      <4> QED
        BY <2>2, <2>3, <3>8, <4>1, <4>2, <4>3, <4>4 DEF Reached
    <3> QED
      BY <3>10, <3>11, <3>12
  <2> QED
    BY <1>2, <2>1, <2>5, <2>6, <2>7
<1> QED
  BY <1>3, <1>4

(* Before the first pass: only spaces lie before the first word. *)
LEMMA BeginsAtWord ==
  ASSUME NEW line \in Texts, NEW mem, CutTo(line, mem, 0)
  PROVE  LET first == SkipSpaces(mem, 0, 0) IN
         /\ CutTo(line, mem, first)
         /\ first \in 0 .. Len(line)
         /\ Byte(mem, 0, first) = 0 => first = Len(line) /\ Starts(line) = {}
         /\ Byte(mem, 0, first) # 0 => StartsTo(line, first) = {first + 1}
<1> DEFINE first == SkipSpaces(mem, 0, 0)
<1>1. Len(line) \in Nat /\ \A i \in 0 .. (Len(line) - 1) : line[i + 1] \in Nat
  BY TextType
<1>2. SkippedTo(line, mem, 0, 0, first)
  BY <1>1, SkipInLine
<1> HIDE DEF first
<1>3. /\ first \in 0 .. Len(line) /\ first \in Nat
      /\ \A k \in 0 .. (first - 1) : line[k + 1] = SPACE
      /\ first < Len(line) => line[first + 1] # SPACE
      /\ Byte(mem, 0, first) = 0 <=> first = Len(line)
  BY <1>1, <1>2 DEF SkippedTo
<1>4. \A i \in 1 .. first : line[i] = SPACE
  <2> TAKE i \in 1 .. first
  <2>1. i - 1 \in 0 .. (first - 1) /\ (i - 1) + 1 = i
    BY <1>3
  <2> QED
    BY <1>3, <2>1
<1>5. CutTo(line, mem, first)
  <2>1. \A i \in 0 .. (Len(line) - 1) : mem[i] = line[i + 1]
    BY DEF CutTo
  <2>2. \A i \in 1 .. (Len(line) - 1) : i < first => line[i] = SPACE
    BY <1>3, <1>4
  <2> QED
    BY <2>1, <2>2 DEF CutTo
<1>6. ASSUME NEW i \in Starts(line)
      PROVE  i \in 1 .. Len(line) /\ ~(i <= first)
  <2>1. i \in 1 .. Len(line) /\ line[i] # SPACE
    BY DEF Starts
  <2> QED
    BY <1>3, <1>4, <2>1
<1>7. ASSUME first = Len(line)
      PROVE  Starts(line) = {}
  <2>1. \A i \in Starts(line) : FALSE
    BY <1>1, <1>6, <1>7
  <2> QED
    BY <2>1
<1>8. ASSUME first # Len(line)
      PROVE  StartsTo(line, first) = {first + 1}
  <2>1. first + 1 \in Starts(line)
    <3>1. first + 1 \in 1 .. Len(line) /\ (first + 1) - 1 = first /\ first < Len(line)
      BY <1>1, <1>3, <1>8
    <3>2. first = 0 \/ line[first] = SPACE
      BY <1>3, <1>4
    <3> QED
      BY <1>3, <3>1, <3>2 DEF Starts
  <2>2. \A i \in Starts(line) : i <= first + 1 <=> i = first + 1
    BY <1>1, <1>3, <1>6
  <2> QED
    BY <2>1, <2>2 DEF StartsTo
<1> QED
  BY <1>3, <1>5, <1>7, <1>8 DEF first

(* The loop ends within as many passes as the buffer has bytes. *)
LEMMA ParseReaches ==
  ASSUME NEW line \in Texts, NEW mem, CutTo(line, mem, 0)
  PROVE  /\ parse_args(mem) \in Reached(line, NMax + 2)
         /\ parse_args(mem).code # "running"
<1> DEFINE first == SkipSpaces(mem, 0, 0)
           N == NMax + 2
           g == Loop(mem)
           r == [code |-> "ok", mem |-> mem, starts |-> <<>>, at |-> first]
<1>1. mem \in Buffers /\ N \in Nat /\ NMax \in Nat /\ Len(line) \in Nat /\ Len(line) < NMax
      /\ MaxArgs \in Nat
  BY TextType, ConsoleAssumption DEF CutTo
<1>2. /\ CutTo(line, mem, first) /\ first \in 0 .. Len(line)
      /\ Byte(mem, 0, first) = 0 => first = Len(line) /\ Starts(line) = {}
      /\ Byte(mem, 0, first) # 0 => StartsTo(line, first) = {first + 1}
  BY BeginsAtWord
<1>3. parse_args(mem) = IF Byte(mem, 0, first) = 0 THEN r ELSE g[N]
  BY LoopIsUsed
<1>4. /\ g[0] = Begun(mem) /\ Begun(mem) \in Parses
      /\ \A i \in 1 .. N : g[i] = On(g[i - 1])
  BY <1>1, LoopRuns
<1>5. Begun(mem) = [code |-> "running", mem |-> mem, starts |-> <<first>>, at |-> first]
  BY DEF Begun
<1> HIDE DEF first, g, N
<1>6. CASE Byte(mem, 0, first) = 0
  <2>1. r \in Parses
    <3>1. first \in 0 .. (NMax + 1)
      BY <1>1, <1>2
    <3> HIDE DEF first
    <3> QED
      BY <1>1, <3>1 DEF Parses
  <2>2. FoundTo(line, <<>>, Len(line))
    <3>1. StartsTo(line, Len(line)) = {}
      BY <1>2, <1>6 DEF StartsTo
    <3>2. {<<>>[w] + 1 : w \in 1 .. Len(<<>>)} = {}
      OBVIOUS
    <3> QED
      BY <1>1, <3>1, <3>2 DEF FoundTo
  <2>3. r.code = "ok" /\ r.mem = mem /\ r.starts = <<>>
    OBVIOUS
  <2> HIDE DEF r
  <2>4. r \in Reached(line, N) /\ r.code # "running"
    BY <1>2, <1>6, <2>1, <2>2, <2>3 DEF Reached
  <2> QED
    BY <1>3, <1>6, <2>4 DEF N
<1>7. CASE Byte(mem, 0, first) # 0
  <2>1. Begun(mem) \in Reached(line, 0)
    <3> DEFINE b == Begun(mem)
    <3>1. b.code = "running" /\ b.mem = mem /\ b.starts = <<first>> /\ b.at = first
      BY <1>5
    <3>2. FoundTo(line, <<first>>, first)
      <4>1. Len(<<first>>) = 1 /\ <<first>>[1] = first
        OBVIOUS
      <4>2. {<<first>>[w] + 1 : w \in 1 .. Len(<<first>>)} = {first + 1}
        BY <4>1
      <4>3. \A v, w \in 1 .. Len(<<first>>) : ~(v < w)
        BY <4>1
      <4> QED
        BY <1>1, <1>2, <1>7, <4>1, <4>2, <4>3 DEF FoundTo
    <3>3. 0 <= first /\ first <= Len(line)
      BY <1>1, <1>2
    <3> HIDE DEF b
    <3>4. b \in Reached(line, 0)
      BY <1>2, <1>4, <3>1, <3>2, <3>3 DEF Reached, b
    <3> QED
      BY <3>4 DEF b
  <2> DEFINE I == {i \in 0 .. N : g[i] \in Reached(line, i)}
  <2>2. \A i \in 0 .. N : i \in I
    <3>1. 0 \in I
      BY <1>1, <1>4, <2>1
    <3>2. ASSUME NEW i \in 1 .. N, i - 1 \in I
          PROVE  i \in I
      <4>1. i - 1 \in Nat /\ (i - 1) + 1 = i /\ g[i - 1] \in Reached(line, i - 1)
        BY <1>1, <3>2
      <4>2. On(g[i - 1]) \in Reached(line, (i - 1) + 1)
        BY <4>1, PassReaches
      <4>3. i \in 0 .. N
        BY <1>1
      <4> QED
        BY <1>4, <4>1, <4>2, <4>3
    <3> HIDE DEF I
    <3> QED
      BY <1>1, <3>1, <3>2, Induction
  <2>3. g[N] \in Reached(line, N)
    BY <1>1, <2>2
  <2>4. g[N].code # "running"
    <3>1. g[N].code = "running" => N <= g[N].at /\ g[N].at <= Len(line) /\ g[N].at \in 0 .. (NMax + 1)
      BY <2>3 DEF Reached, Parses
    <3> QED
      BY <1>1, <3>1 DEF N
  <2> QED
    BY <1>3, <1>7, <2>3, <2>4 DEF N
<1> QED
  BY <1>6, <1>7

(* There is room for the arguments: one more than MaxArgs at most. *)
LEMMA PassFew ==
  ASSUME NEW s \in Parses, Len(s.starts) <= MaxArgs + 1
  PROVE  Len(On(s).starts) <= MaxArgs + 1
<1> DEFINE cut == Cut(s)
           next == SkipSpaces(cut.mem, Len(cut.starts), s.at + 1)
<1>1. ASSUME NEW r \in Parses
      PROVE  Len(r.starts) \in Nat /\ r.starts \in Seq(0 .. (NMax + 1))
  <2>1. ASSUME NEW S, NEW q \in Seq(S)
        PROVE  Len(q) \in Nat
    OBVIOUS
  <2>2. r.starts \in Seq(0 .. (NMax + 1))
    BY DEF Parses
  <2> QED
    BY <2>1, <2>2
<1>2. cut \in Parses /\ Len(cut.starts) <= MaxArgs + 1
  <2>1. cut \in Parses
    BY CutInBuffer
  <2>2. cut.starts = s.starts \/ cut.starts = <<>>
    BY DEF Cut, Parses
  <2> HIDE DEF cut
  <2>3. Len(<<>>) <= MaxArgs + 1
    BY ConsoleAssumption
  <2> QED
    BY <2>1, <2>2, <2>3
<1>3. \/ On(s) = s
      \/ On(s) = [s EXCEPT !.code = "ok"]
      \/ On(s) = [s EXCEPT !.at = s.at + 1]
      \/ On(s) = [cut EXCEPT !.code = "ok"]
      \/ On(s) = [cut EXCEPT !.code = "too many"]
      \/ Len(cut.starts) <= MaxArgs /\ On(s) = [cut EXCEPT !.starts = Append(@, next), !.at = next]
  <2>1. On(s) = s \/ On(s) = Pass(s)
    BY DEF On
  <2>2. Len(cut.starts) > MaxArgs \/ Len(cut.starts) <= MaxArgs
    BY <1>1, <1>2, ConsoleAssumption
  <2> QED
    BY <2>1, <2>2 DEF Pass
<1> HIDE DEF cut, next
<1>4. [s EXCEPT !.code = "ok"].starts = s.starts /\ [s EXCEPT !.at = s.at + 1].starts = s.starts
  BY DEF Parses
<1>5. [cut EXCEPT !.code = "ok"].starts = cut.starts /\ [cut EXCEPT !.code = "too many"].starts = cut.starts
      /\ [cut EXCEPT !.starts = Append(@, next), !.at = next].starts = Append(cut.starts, next)
  BY <1>2 DEF Parses
<1>6. Len(Append(cut.starts, next)) = Len(cut.starts) + 1
  <2>1. ASSUME NEW S, NEW q \in Seq(S)
        PROVE  Len(Append(q, next)) = Len(q) + 1
    OBVIOUS
  <2> QED
    BY <1>1, <1>2, <2>1
<1>7. \/ On(s).starts = s.starts
      \/ On(s).starts = cut.starts
      \/ Len(cut.starts) <= MaxArgs /\ On(s).starts = Append(cut.starts, next)
  BY <1>3, <1>4, <1>5, Zenon
<1>8. Len(cut.starts) \in Nat /\ MaxArgs \in Nat
  BY <1>1, <1>2, ConsoleAssumption
<1>9. Len(cut.starts) <= MaxArgs => Len(Append(cut.starts, next)) <= MaxArgs + 1
  BY <1>6, <1>8
<1> QED
  BY <1>2, <1>7, <1>9, Zenon

(* No more arguments are stored than args has room for. *)
LEMMA ParseFew ==
  ASSUME NEW mem \in Buffers
  PROVE  Len(parse_args(mem).starts) <= MaxArgs + 1
<1> DEFINE first == SkipSpaces(mem, 0, 0)
           N == NMax + 2
           g == Loop(mem)
           r == [code |-> "ok", mem |-> mem, starts |-> <<>>, at |-> first]
           I == {i \in 0 .. N : Len(g[i].starts) <= MaxArgs + 1}
<1>1. N \in Nat /\ MaxArgs \in Nat
  BY ConsoleAssumption
<1>2. parse_args(mem) = r \/ parse_args(mem) = g[N]
  BY LoopIsUsed
<1>3. g[0] = Begun(mem) /\ g \in [0 .. N -> Parses] /\ \A i \in 1 .. N : g[i] = On(g[i - 1])
  BY LoopRuns
<1>4. Begun(mem).starts = <<first>>
  BY DEF Begun
<1> HIDE DEF first, N, g
<1>5. 0 \in I
  <2>1. Len(<<first>>) = 1 /\ 1 <= MaxArgs + 1 /\ 0 \in 0 .. N
    BY <1>1
  <2>2. g[0].starts = <<first>>
    BY <1>3, <1>4, Zenon
  <2>3. Len(g[0].starts) <= MaxArgs + 1
    BY <2>1, <2>2, Zenon
  <2> QED
    BY <2>1, <2>3
<1>6. ASSUME NEW i \in 1 .. N, i - 1 \in I
      PROVE  i \in I
  <2>1. i \in 0 .. N /\ g[i - 1] \in Parses
    BY <1>1, <1>3, <1>6
  <2> QED
    BY <1>3, <1>6, <2>1, PassFew
<1>7. N \in I
  <2> HIDE DEF I
  <2>1. \A i \in 0 .. N : i \in I
    BY <1>1, <1>5, <1>6, Induction
  <2> QED
    BY <1>1, <2>1
<1>8. Len(r.starts) <= MaxArgs + 1
  <2>1. r.starts = <<>> /\ Len(<<>>) = 0
    OBVIOUS
  <2> QED
    BY <1>1, <2>1
<1> HIDE DEF r
<1> QED
  BY <1>2, <1>7, <1>8

(* What Found says of the positions. *)
LEMMA FoundPositions ==
  ASSUME NEW line \in Texts, NEW r \in Parses, NEW at, FoundTo(line, r.starts, at)
  PROVE  /\ Len(r.starts) \in Nat /\ DOMAIN r.starts = 1 .. Len(r.starts)
         /\ \A w \in 1 .. Len(r.starts) : r.starts[w] \in Nat /\ r.starts[w] + 1 \in Starts(line)
<1>1. r.starts \in Seq(0 .. (NMax + 1))
  BY DEF Parses
<1>2. /\ Len(r.starts) \in Nat /\ DOMAIN r.starts = 1 .. Len(r.starts)
      /\ \A w \in 1 .. Len(r.starts) : r.starts[w] \in 0 .. (NMax + 1)
  <2>1. ASSUME NEW S, NEW q \in Seq(S)
        PROVE  /\ Len(q) \in Nat /\ DOMAIN q = 1 .. Len(q)
               /\ \A w \in 1 .. Len(q) : q[w] \in S
    OBVIOUS
  <2> QED
    BY <1>1, <2>1, Zenon
<1>3. \A w \in 1 .. Len(r.starts) : r.starts[w] + 1 \in Starts(line)
  BY DEF FoundTo, StartsTo
<1>4. \A i \in 0 .. (NMax + 1) : i \in Nat
  BY ConsoleAssumption
<1> QED
  BY <1>2, <1>3, <1>4

(* The strings at the positions found are the words of the line. *)
LEMMA FoundAreWords ==
  ASSUME NEW line \in Texts, NEW r \in Parses,
         CutTo(line, r.mem, Len(line)), FoundTo(line, r.starts, Len(line))
  PROVE  AreWords([w \in DOMAIN r.starts |-> String(r.mem, Len(r.starts), r.starts[w])], line)
<1> DEFINE k == Len(r.starts)
           words == [w \in DOMAIN r.starts |-> String(r.mem, k, r.starts[w])]
           starts == [w \in 1 .. k |-> r.starts[w] + 1]
<1>1. /\ k \in Nat /\ DOMAIN r.starts = 1 .. k
      /\ \A w \in 1 .. k : r.starts[w] \in Nat /\ r.starts[w] + 1 \in Starts(line)
  BY FoundPositions, Zenon
<1>2. DOMAIN words = 1 .. k /\ \A w \in 1 .. k : words[w] = String(r.mem, k, r.starts[w])
  BY <1>1
<1>3. starts \in [1 .. k -> Starts(line)] /\ \A w \in 1 .. k : starts[w] = r.starts[w] + 1
  BY <1>1
<1> HIDE DEF words, starts
<1>4. Starts(line) = {starts[w] : w \in 1 .. k}
  <2>1. StartsTo(line, Len(line)) = {r.starts[w] + 1 : w \in 1 .. k}
    BY DEF FoundTo
  <2>2. \A i \in Starts(line) : i <= Len(line) + 1
    BY TextType DEF Starts
  <2>3. StartsTo(line, Len(line)) = Starts(line)
    BY <2>2 DEF StartsTo
  <2> HIDE DEF k
  <2> QED
    BY <1>3, <2>1, <2>3
<1>5. \A v, w \in 1 .. k : v < w => starts[v] < starts[w]
  <2>1. \A v, w \in 1 .. k : v < w => r.starts[v] < r.starts[w]
    BY DEF FoundTo
  <2> HIDE DEF k
  <2> QED
    BY <1>1, <1>3, <2>1
<1>6. \A w \in 1 .. k : words[w] = WordAt(line, starts[w])
  <2> TAKE w \in 1 .. k
  <2>1. starts[w] \in Starts(line) /\ starts[w] - 1 = r.starts[w]
    BY <1>1, <1>3
  <2>2. String(r.mem, k, starts[w] - 1) = WordAt(line, starts[w])
    BY <1>1, <2>1, WordIsString
  <2> QED
    BY <1>2, <2>1, <2>2
<1>7. AreWords(words, line)
  BY <1>2, <1>3, <1>4, <1>5, <1>6 DEF AreWords
<1> QED
  BY <1>7 DEF words

(* More positions than MaxArgs are more words than MaxArgs. *)
LEMMA FoundAreMany ==
  ASSUME NEW line \in Texts, NEW r \in Parses, NEW at, FoundTo(line, r.starts, at),
         MaxArgs < Len(r.starts)
  PROVE  Cardinality(Starts(line)) > MaxArgs
<1> DEFINE k == Len(r.starts)
           starts == [w \in 1 .. k |-> r.starts[w] + 1]
           S == Starts(line)
<1>1. /\ k \in Nat
      /\ \A w \in 1 .. k : r.starts[w] \in Nat /\ r.starts[w] + 1 \in S
  BY FoundPositions, Zenon
<1>2. IsFiniteSet(S) /\ Cardinality(S) \in Nat
  <2>1. Len(line) \in Int /\ 1 \in Int /\ S \in SUBSET (1 .. Len(line))
    BY TextType DEF Starts
  <2> HIDE DEF S
  <2>2. IsFiniteSet(S)
    BY <2>1, FS_Interval, FS_Subset
  <2> QED
    BY <2>2, FS_CardinalityType
<1> HIDE DEF S
<1>3. starts \in Injection(1 .. k, S)
  <2>1. starts \in [1 .. k -> S]
    BY <1>1
  <2>2. \A v, w \in 1 .. k : v < w => r.starts[v] < r.starts[w]
    BY DEF FoundTo
  <2> HIDE DEF k
  <2>3. \A v, w \in 1 .. k : v # w => starts[v] # starts[w]
    <3> TAKE v, w \in 1 .. k
    <3>1. v < w \/ w < v \/ v = w
      BY <1>1
    <3> QED
      BY <1>1, <2>2, <3>1
  <2> HIDE DEF starts
  <2> QED
    BY <2>1, <2>3 DEF Injection, IsInjective
<1> HIDE DEF k, starts
<1>4. Cardinality(1 .. k) <= Cardinality(S)
  BY <1>2, <1>3, FS_Injection, Zenon
<1>5. Cardinality(1 .. k) = k
  BY <1>1, FS_Interval
<1> QED
  BY <1>1, <1>2, <1>4, <1>5, ConsoleAssumption DEF k, S

(* The arguments are the words of the line, or there are too many of them. *)
LEMMA ArgsOfText ==
  ASSUME NEW line \in Texts, NEW mem, CutTo(line, mem, 0)
  PROVE  LET r == parse_args(mem) IN
         IF r.code = "ok"
           THEN AreWords([w \in DOMAIN r.starts |-> String(r.mem, Len(r.starts), r.starts[w])], line)
           ELSE Cardinality(Starts(line)) > MaxArgs
<1> DEFINE r == parse_args(mem)
<1>1. r \in Reached(line, NMax + 2) /\ r.code # "running"
  BY ParseReaches
<1> HIDE DEF r
<1>2. r \in Parses
  BY <1>1 DEF Reached
<1>3. CASE r.code = "ok"
  <2>1. CutTo(line, r.mem, Len(line)) /\ FoundTo(line, r.starts, Len(line))
    BY <1>1, <1>3 DEF Reached
  <2> QED
    BY <1>2, <1>3, <2>1, FoundAreWords DEF r
<1>4. CASE r.code # "ok"
  <2>1. MaxArgs < Len(r.starts) /\ FoundTo(line, r.starts, r.at)
    BY <1>1, <1>4 DEF Reached
  <2>2. Cardinality(Starts(line)) > MaxArgs
    BY <1>2, <2>1, FoundAreMany
  <2> QED
    BY <1>4, <2>2 DEF r
<1> QED
  BY <1>3, <1>4

(***************************************************************************)
(* A line that fills the buffer up to a single space is parsed as the same *)
(* line without that space: what differs until the end is one byte.        *)
(***************************************************************************)
Shortened(line) == SubSeq(line, 1, NMax - 1)

EndsInSpace(line) ==
  /\ line \in Seq(Nat \ {0}) /\ Len(line) = NMax
  /\ NMax > 1 /\ line[NMax] = SPACE /\ line[NMax - 1] # SPACE

OneByteApart(mem, short) ==
  mem \in Buffers /\ mem[NMax - 1] = SPACE /\ short = [mem EXCEPT ![NMax - 1] = 0]

(* s and t are the passes over the line and over the shortened one. *)
Alike(s, t) ==
  /\ s \in Parses /\ t \in Parses /\ s.code = t.code /\ s.starts = t.starts
  /\ s.code = "running" => s.at = t.at /\ OneByteApart(s.mem, t.mem)
  /\ s.code = "ok" => s.mem = t.mem

LEMMA ShortenedIsText ==
  ASSUME NEW line, EndsInSpace(line)
  PROVE  /\ Shortened(line) \in Texts /\ Len(Shortened(line)) = NMax - 1
         /\ \A i \in 1 .. (NMax - 1) : Shortened(line)[i] = line[i]
<1>1. NMax \in Nat /\ line \in Seq(Nat \ {0}) /\ Len(line) = NMax /\ NMax > 1
  BY ConsoleAssumption DEF EndsInSpace
<1>2. /\ Shortened(line) \in Seq(Nat \ {0}) /\ Len(Shortened(line)) = NMax - 1
      /\ \A i \in 1 .. (NMax - 1) : Shortened(line)[i] = line[i]
  BY <1>1, SubSeqProperties DEF Shortened
<1> QED
  BY <1>1, <1>2 DEF Texts

(* Its words are the same. *)
LEMMA ShortenedHasWords ==
  ASSUME NEW line, EndsInSpace(line)
  PROVE  /\ Starts(Shortened(line)) = Starts(line)
         /\ \A i \in Starts(line) : WordAt(Shortened(line), i) = WordAt(line, i)
<1> DEFINE short == Shortened(line)
<1>1. /\ NMax \in Nat /\ NMax > 1 /\ line \in Seq(Nat \ {0}) /\ Len(line) = NMax
      /\ line[NMax] = SPACE
  BY ConsoleAssumption DEF EndsInSpace
<1>2. /\ short \in Seq(Nat \ {0}) /\ Len(short) = NMax - 1
      /\ \A i \in 1 .. (NMax - 1) : short[i] = line[i]
  BY ShortenedIsText DEF Texts
<1> HIDE DEF short
<1>3. Starts(short) = Starts(line)
  <2>1. ASSUME NEW i \in 1 .. NMax, line[i] # SPACE
        PROVE  i \in 1 .. (NMax - 1)
    BY <1>1, <2>1
  <2>2. \A i \in 1 .. (NMax - 1) : i = 1 \/ i - 1 \in 1 .. (NMax - 1)
    BY <1>1
  <2>3. \A i \in 1 .. (NMax - 1) : i \in 1 .. NMax
    BY <1>1
  <2> QED
    BY <1>1, <1>2, <2>1, <2>2, <2>3 DEF Starts
<1>4. ASSUME NEW i \in Starts(line)
      PROVE  WordAt(short, i) = WordAt(line, i)
  <2> DEFINE LastIs(text, j) == (\A k \in i .. j : text[k] # SPACE)
                              /\ (j < Len(text) => text[j + 1] = SPACE)
             e == CHOOSE j \in i .. Len(line) : LastIs(line, j)
             d == CHOOSE j \in i .. Len(short) : LastIs(short, j)
  <2>1. i \in Nat /\ 1 <= i /\ i <= NMax - 1
    <3>1. i \in 1 .. (NMax - 1)
      BY <1>2, <1>3 DEF Starts
    <3> QED
      BY <1>1, <3>1
  <2>2. \A j \in i .. (NMax - 1) : LastIs(line, j) <=> LastIs(short, j)
    <3> TAKE j \in i .. (NMax - 1)
    <3>1. \A k \in i .. j : short[k] = line[k]
      BY <1>1, <1>2, <2>1
    <3>2. j < NMax - 1 => short[j + 1] = line[j + 1]
      BY <1>1, <1>2, <2>1
    <3>3. j = NMax - 1 => line[j + 1] = SPACE
      BY <1>1
    <3>4. (j < NMax => line[j + 1] = SPACE) <=> (j < NMax - 1 => short[j + 1] = SPACE)
      BY <1>1, <2>1, <3>2, <3>3
    <3> QED
      BY <1>1, <1>2, <3>1, <3>4
  <2>3. ~LastIs(line, NMax)
    BY <1>1, <2>1
  <2>4. \A j : j \in i .. Len(line) /\ LastIs(line, j) <=> j \in i .. Len(short) /\ LastIs(short, j)
    <3>1. \A j : j \in i .. NMax <=> j \in i .. (NMax - 1) \/ j = NMax
      BY <1>1, <2>1
    <3>2. NMax \notin i .. (NMax - 1)
      BY <1>1
    <3> HIDE DEF LastIs
    <3> QED
      BY <1>1, <1>2, <2>2, <2>3, <3>1, <3>2
  <2>5. d = e
    <3> HIDE DEF LastIs
    <3> QED
      BY <2>4
  <2>6. SubSeq(short, i, e) = SubSeq(line, i, e)
    <3>1. \E j \in i .. (NMax - 1) : LastIs(line, j)
      <4> DEFINE T == {j \in i .. NMax : line[j] = SPACE}
      <4>1. NMax \in T /\ T \subseteq Nat
        BY <1>1, <2>1
      <4>2. PICK j \in T : \A k \in T : j <= k
        BY <4>1, Least
      <4>3. j # i
        BY DEF Starts
      <4>4. j - 1 \in i .. (NMax - 1) /\ (j - 1) + 1 = j
        BY <1>1, <2>1, <4>3
      <4>5. \A k \in i .. (j - 1) : line[k] # SPACE
        <5> TAKE k \in i .. (j - 1)
        <5>1. k \in i .. NMax /\ ~(j <= k)
          BY <1>1, <2>1
        <5> QED
          BY <4>2, <5>1
      <4>6. line[j] = SPACE
        BY <4>2
      <4> QED
        BY <4>4, <4>5, <4>6
    <3>2. e \in i .. (NMax - 1)
      <4>1. \E j \in i .. Len(line) : LastIs(line, j)
        <5>1. \A j \in i .. (NMax - 1) : j \in i .. Len(line)
          BY <1>1, <2>1
        <5> HIDE DEF LastIs
        <5> QED
          BY <3>1, <5>1
      <4>2. e \in i .. Len(line) /\ LastIs(line, e)
        <5> HIDE DEF LastIs
        <5> QED
          BY <4>1
      <4> HIDE DEF e
      <4>3. e # NMax
        BY <2>3, <4>2
      <4> QED
        BY <1>1, <2>1, <4>2, <4>3
    <3> HIDE DEF e
    <3>3. \A k \in 1 .. (e - i + 1) : short[i + k - 1] = line[i + k - 1]
      <4> TAKE k \in 1 .. (e - i + 1)
      <4>1. i + k - 1 \in 1 .. (NMax - 1)
        BY <1>1, <2>1, <3>2
      <4> QED
        BY <1>2, <4>1
    <3> QED
      BY <1>1, <1>2, <2>1, <3>2, <3>3
  <2>7. WordAt(line, i) = SubSeq(line, i, e) /\ WordAt(short, i) = SubSeq(short, i, d)
    BY DEF WordAt
  <2> HIDE DEF d, e
  <2> QED
    BY <2>5, <2>6, <2>7
<1> QED
  BY <1>3, <1>4 DEF short

(* The bytes of the two buffers. *)
LEMMA BytesAlike ==
  ASSUME NEW mem, NEW short, OneByteApart(mem, short), NMax > 1,
         NEW count \in Nat, NEW i \in Nat, i # NMax - 1
  PROVE  short \in Buffers /\ Byte(short, count, i) = Byte(mem, count, i)
<1>1. NMax \in Nat /\ NMax - 1 \in 0 .. (NMax - 1)
  BY ConsoleAssumption
<1>2. short \in Buffers /\ \A j \in 0 .. (NMax - 1) : j # NMax - 1 => short[j] = mem[j]
  BY <1>1 DEF OneByteApart, Buffers
<1>3. i < NMax => i \in 0 .. (NMax - 1)
  BY <1>1
<1> QED
  BY <1>1, <1>2, <1>3 DEF Byte

(* Neither scan passes the last character of the word before the space. *)
LEMMA SkipsAlike ==
  ASSUME NEW mem, NEW short, OneByteApart(mem, short), NMax > 1,
         NEW count \in Nat, NEW i \in 0 .. (NMax - 2), mem[NMax - 2] # SPACE
  PROVE  /\ SkipSpaces(short, count, i) = SkipSpaces(mem, count, i)
         /\ SkipSpaces(mem, count, i) \in i .. (NMax - 2)
<1> DEFINE Stop(m, j) == Byte(m, count, j) # SPACE /\ \A k \in i .. (j - 1) : Byte(m, count, k) = SPACE
           a == SkipSpaces(mem, count, i)
<1>1. NMax \in Nat /\ i \in Nat /\ i \in 0 .. (NMax + 1) /\ mem \in Buffers
  BY ConsoleAssumption DEF OneByteApart
<1>2. \A j \in Nat : j # NMax - 1 => Byte(short, count, j) = Byte(mem, count, j)
  BY BytesAlike
<1>3. Byte(mem, count, NMax - 2) # SPACE
  BY <1>1 DEF Byte
<1>4. \A j \in i .. (NMax + 1) : Stop(mem, j) => j <= NMax - 2
  <2> SUFFICES ASSUME NEW j \in i .. (NMax + 1), Stop(mem, j), ~(j <= NMax - 2)
               PROVE  FALSE
    OBVIOUS
  <2>1. NMax - 2 \in i .. (j - 1)
    BY <1>1
  <2> QED
    BY <1>3, <2>1
<1>5. \A j \in i .. (NMax + 1) : Stop(short, j) => j <= NMax - 2
  <2> SUFFICES ASSUME NEW j \in i .. (NMax + 1), Stop(short, j), ~(j <= NMax - 2)
               PROVE  FALSE
    OBVIOUS
  <2>1. NMax - 2 \in i .. (j - 1) /\ NMax - 2 \in Nat /\ NMax - 2 # NMax - 1
    BY <1>1
  <2>2. Byte(short, count, NMax - 2) # SPACE
    BY <1>2, <1>3, <2>1
  <2> QED
    BY <2>1, <2>2
<1>6. \A j \in i .. (NMax - 2) : Stop(short, j) <=> Stop(mem, j)
  <2> TAKE j \in i .. (NMax - 2)
  <2>1. Byte(short, count, j) = Byte(mem, count, j)
    BY <1>1, <1>2
  <2>2. \A k \in i .. (j - 1) : Byte(short, count, k) = Byte(mem, count, k)
    BY <1>1, <1>2
  <2> QED
    BY <2>1, <2>2
<1>7. \A j : j \in i .. (NMax + 1) /\ j <= NMax - 2 => j \in i .. (NMax - 2)
  BY <1>1
<1> HIDE DEF Stop
<1>8. \A j : j \in i .. (NMax + 1) /\ Stop(short, j) <=> j \in i .. (NMax + 1) /\ Stop(mem, j)
  BY <1>4, <1>5, <1>6, <1>7
<1>9. /\ a = CHOOSE j \in i .. (NMax + 1) : Stop(mem, j)
      /\ SkipSpaces(short, count, i) = CHOOSE j \in i .. (NMax + 1) : Stop(short, j)
  BY Zenon DEF SkipSpaces, Stop
<1>10. a \in i .. (NMax + 1) /\ Stop(mem, a)
  BY <1>1, SkipSpacesStops DEF Stop
<1> HIDE DEF a
<1>11. SkipSpaces(short, count, i) = a
  BY <1>8, <1>9
<1> QED
  BY <1>4, <1>7, <1>10, <1>11 DEF a

(* So the passes go alike, *)
LEMMA PassAlike ==
  ASSUME NEW line, EndsInSpace(line), NEW k \in Nat, NEW s, NEW t \in Reached(Shortened(line), k),
         Alike(s, t)
  PROVE  Alike(On(s), On(t))
<1> DEFINE T == Shortened(line)
           at == t.at
           count == Len(t.starts)
           cutS == Cut(s)
           cutT == Cut(t)
           next == SkipSpaces(cutT.mem, count, at + 1)
<1>1. CASE t.code # "running"
  BY <1>1 DEF On, Alike
<1>2. CASE t.code = "running"
  <2>1. /\ s \in Parses /\ t \in Parses /\ s.code = "running" /\ s.starts = t.starts /\ s.at = at
        /\ OneByteApart(s.mem, t.mem)
    BY <1>2 DEF Alike
  <2>2. /\ s.mem \in Buffers /\ t.mem \in Buffers /\ t.mem = [s.mem EXCEPT ![NMax - 1] = 0]
        /\ s.mem[NMax - 1] = SPACE
    BY <2>1 DEF OneByteApart, Parses
  <2>3. /\ T \in Texts /\ Len(T) = NMax - 1 /\ NMax \in Nat /\ NMax > 1
        /\ \A i \in 1 .. (NMax - 1) : T[i] = line[i]
        /\ line[NMax - 1] # SPACE
    BY ShortenedIsText, ConsoleAssumption DEF EndsInSpace
  <2> HIDE DEF T
  <2>4. at <= NMax - 1 /\ CutTo(T, t.mem, at)
    BY <1>2, <2>3 DEF Reached, T
  <2>5. at \in Nat /\ count \in Nat
    <3>1. ASSUME NEW S, NEW q \in Seq(S)
          PROVE  Len(q) \in Nat
      OBVIOUS
    <3>2. t.starts \in Seq(0 .. (NMax + 1)) /\ at \in 0 .. (NMax + 1)
      BY <2>1 DEF Parses
    <3> QED
      BY <2>3, <3>1, <3>2
  <2>6. On(s) = Pass(s) /\ On(t) = Pass(t) /\ Pass(s) \in Parses /\ Pass(t) \in Parses
    BY <1>2, <2>1, PassInBuffer DEF On
  <2>7. cutS = [s EXCEPT !.mem[at] = 0] /\ cutT = [t EXCEPT !.mem[at] = 0]
    BY <2>1, <2>3, <2>4, <2>5 DEF Cut
  <2>8. /\ cutS \in Parses /\ cutT \in Parses /\ cutS.at = at /\ cutT.at = at
        /\ cutS.starts = t.starts /\ cutT.starts = t.starts
        /\ cutS.code = "running" /\ cutT.code = "running"
        /\ cutS.mem = [s.mem EXCEPT ![at] = 0] /\ cutT.mem = [t.mem EXCEPT ![at] = 0]
    <3>1. cutS \in Parses /\ cutT \in Parses /\ cutS.at = at /\ cutT.at = at
      BY <2>1, CutInBuffer
    <3>2. ASSUME NEW r \in Parses
          PROVE  LET c == [r EXCEPT !.mem[at] = 0] IN
                 c.starts = r.starts /\ c.code = r.code /\ c.mem = [r.mem EXCEPT ![at] = 0]
      BY DEF Parses
    <3> QED
      BY <1>2, <2>1, <2>7, <3>1, <3>2
  <2> HIDE DEF cutS, cutT
  <2>9. Byte(t.mem, count, NMax - 1) = 0 /\ Byte(s.mem, count, NMax - 1) = SPACE
    BY <2>2, <2>3, ConsoleAssumption DEF Byte, Buffers
  <2>10. at # NMax - 1 => Byte(t.mem, count, at) = Byte(s.mem, count, at)
    BY <2>1, <2>3, <2>5, BytesAlike
  <2>11. CASE at = NMax - 1
    <3>1. Pass(t) = [t EXCEPT !.code = "ok"]
      BY <2>9, <2>11 DEF Pass
    <3>2. Pass(s) = [cutS EXCEPT !.code = "ok"]
      <4>1. Byte(s.mem, Len(s.starts), s.at) = SPACE /\ SPACE # 0 /\ BufferEnds(s.at)
        BY <2>1, <2>3, <2>9, <2>11 DEF BufferEnds, SPACE
      <4> QED
        BY <4>1 DEF Pass, cutS
    <3>3. cutS.mem = t.mem
      BY <2>2, <2>8, <2>11
    <3>4. ASSUME NEW r \in Parses
          PROVE  LET c == [r EXCEPT !.code = "ok"] IN
                 c.code = "ok" /\ c.starts = r.starts /\ c.mem = r.mem
      BY DEF Parses
    <3> QED
      BY <2>1, <2>6, <2>8, <3>1, <3>2, <3>3, <3>4 DEF Alike
  <2>12. CASE at # NMax - 1 /\ Byte(t.mem, count, at) # SPACE
    <3>1. Byte(t.mem, count, at) # 0
      <4>1. at < Len(T) /\ at <= at
        BY <2>3, <2>4, <2>5, <2>12
      <4> QED
        BY <2>3, <2>4, <2>5, <4>1, BytesOfLine
    <3>2. Pass(s) = [s EXCEPT !.at = at + 1] /\ Pass(t) = [t EXCEPT !.at = at + 1]
      BY <2>1, <2>10, <2>12, <3>1 DEF Pass
    <3>3. ASSUME NEW r \in Parses, NEW j
          PROVE  LET c == [r EXCEPT !.at = j] IN
                 c.code = r.code /\ c.starts = r.starts /\ c.mem = r.mem /\ c.at = j
      BY DEF Parses
    <3> QED
      BY <1>2, <2>1, <2>6, <3>2, <3>3 DEF Alike
  <2>13. CASE at # NMax - 1 /\ Byte(t.mem, count, at) = SPACE
    <3>1. at \in 0 .. (NMax - 2) /\ at < Len(T)
      BY <2>3, <2>4, <2>5, <2>13
    <3>2. T[at + 1] = SPACE
      BY <2>3, <2>4, <2>5, <2>13, <3>1, BytesOfLine
    <3>3. at + 1 \in 0 .. (NMax - 2) /\ at + 1 <= NMax - 2
      <4>1. T[NMax - 1] # SPACE
        BY <2>3
      <4>2. at + 1 # NMax - 1
        BY <3>2, <4>1
      <4> QED
        BY <2>3, <2>5, <3>1, <4>2
    <3>4. OneByteApart(cutS.mem, cutT.mem)
      <4>1. cutS.mem \in Buffers
        BY <2>8, Zenon DEF Parses
      <4>2. NMax - 1 \in 0 .. (NMax - 1) /\ at \in 0 .. (NMax - 1)
        BY <2>3, <3>1
      <4> QED
        BY <4>2, <2>2, <2>8, <2>13, <4>1 DEF OneByteApart, Buffers
    <3>5. cutS.mem[NMax - 2] # SPACE
      <4>1. NMax - 2 \in 0 .. (NMax - 2) /\ (NMax - 2) + 1 = NMax - 1 /\ NMax - 2 \in Nat
        BY <2>3
      <4>2. T[(NMax - 2) + 1] # SPACE
        BY <2>3, <4>1
      <4>3. t.mem[NMax - 2] # SPACE
        BY <2>3, <2>4, <4>1, <4>2 DEF CutTo
      <4>4. s.mem[NMax - 2] = t.mem[NMax - 2]
        <5>1. NMax - 2 \in 0 .. (NMax - 1) /\ NMax - 2 # NMax - 1
          BY <2>3
        <5> QED
          BY <2>2, <5>1 DEF Buffers
      <4>5. at # NMax - 2
        BY <3>1, <3>2, <4>1, <4>2
      <4> QED
        BY <2>2, <2>3, <2>8, <4>1, <4>3, <4>4, <4>5 DEF Buffers
    <3>6. SkipSpaces(cutS.mem, count, at + 1) = next /\ next \in (at + 1) .. (NMax - 2)
      <4> DEFINE j == at + 1
      <4>1. j \in 0 .. (NMax - 2) /\ NMax > 1
        BY <2>3, <3>3
      <4> HIDE DEF j
      <4>2. /\ SkipSpaces(cutT.mem, count, j) = SkipSpaces(cutS.mem, count, j)
            /\ SkipSpaces(cutS.mem, count, j) \in j .. (NMax - 2)
        BY <2>5, <3>4, <3>5, <4>1, SkipsAlike, Zenon
      <4> QED
        BY <4>2 DEF j
    <3> HIDE DEF next
    <3>7. Byte(cutS.mem, count, next) = Byte(cutT.mem, count, next)
      BY <2>3, <2>5, <3>4, <3>6, BytesAlike
    <3>8. Pass(t) = IF count > MaxArgs THEN [cutT EXCEPT !.code = "too many"]
                    ELSE IF Byte(cutT.mem, count, next) = 0 THEN [cutT EXCEPT !.code = "ok"]
                    ELSE [cutT EXCEPT !.starts = Append(@, next), !.at = next]
      <4>1. ~BufferEnds(t.at) /\ SPACE # 0
        BY <2>3, <2>5, <2>13 DEF BufferEnds, SPACE
      <4> QED
        BY <2>8, <2>13, <4>1 DEF Pass, next, cutT
    <3>9. Pass(s) = IF count > MaxArgs THEN [cutS EXCEPT !.code = "too many"]
                    ELSE IF Byte(cutS.mem, count, next) = 0 THEN [cutS EXCEPT !.code = "ok"]
                    ELSE [cutS EXCEPT !.starts = Append(@, next), !.at = next]
      <4>1. ~BufferEnds(s.at) /\ SPACE # 0
        BY <2>1, <2>3, <2>5, <2>13 DEF BufferEnds, SPACE
      <4>2. Byte(s.mem, Len(s.starts), s.at) = SPACE
        BY <2>1, <2>10, <2>13
      <4> QED
        BY <2>1, <2>8, <3>6, <4>1, <4>2 DEF Pass, cutS
    <3>10. count > MaxArgs \/ Byte(cutT.mem, count, next) # 0
      <4> SUFFICES ASSUME ~(count > MaxArgs)
                   PROVE  Byte(cutT.mem, count, next) # 0
        OBVIOUS
      <4>1. CutTo(T, cutT.mem, at + 1)
        <5>1. at + 1 \in (at + 1) .. Len(T) /\ \A i \in (at + 1) .. ((at + 1) - 1) : T[i + 1] = SPACE
          BY <2>3, <2>5, <3>3
        <5>2. CutTo(T, [t.mem EXCEPT ![at] = 0], at + 1)
          BY <2>3, <2>4, <2>5, <3>1, <3>2, <5>1, CutSpaces, Zenon
        <5> QED
          BY <2>8, <5>2
      <4>2. SkippedTo(T, cutT.mem, count, at + 1, next)
        BY <2>3, <2>5, <3>3, <4>1, SkipInLine DEF next
      <4> QED
        BY <2>3, <3>6, <4>2 DEF SkippedTo
    <3>11. ASSUME NEW r \in Parses, NEW many, many = [r EXCEPT !.code = "too many"]
           PROVE  many.code = "too many" /\ many.starts = r.starts
      BY <3>11 DEF Parses
    <3>12. ASSUME NEW r \in Parses, NEW more, more = [r EXCEPT !.starts = Append(@, next), !.at = next]
           PROVE  /\ more.code = r.code /\ more.starts = Append(r.starts, next)
                  /\ more.at = next /\ more.mem = r.mem
      <4>1. PICK q : q = Append(r.starts, next)
        OBVIOUS
      <4>2. DOMAIN r = {"code", "mem", "starts", "at"}
        BY DEF Parses
      <4>3. PICK some : some = [r EXCEPT !.starts = q]
        OBVIOUS
      <4>4. /\ some.code = r.code /\ some.starts = q /\ some.at = r.at /\ some.mem = r.mem
            /\ DOMAIN some = {"code", "mem", "starts", "at"}
        BY <4>2, <4>3
      <4>5. more = [some EXCEPT !.at = next]
        BY <3>12, <4>1, <4>3
      <4>6. more.code = some.code /\ more.starts = some.starts /\ more.at = next /\ more.mem = some.mem
        BY <4>4, <4>5
      <4> QED
        BY <4>1, <4>4, <4>6
    <3>13. CASE count > MaxArgs
      <4>1. /\ Pass(t) = [cutT EXCEPT !.code = "too many"]
            /\ Pass(s) = [cutS EXCEPT !.code = "too many"]
        BY <3>8, <3>9, <3>13
      <4>2. /\ Pass(t).code = "too many" /\ Pass(t).starts = cutT.starts
            /\ Pass(s).code = "too many" /\ Pass(s).starts = cutS.starts
        BY <2>8, <3>11, <4>1, Zenon
      <4> QED
        BY <2>6, <2>8, <4>2 DEF Alike
    <3>14. CASE ~(count > MaxArgs)
      <4>1. /\ Pass(t) = [cutT EXCEPT !.starts = Append(@, next), !.at = next]
            /\ Pass(s) = [cutS EXCEPT !.starts = Append(@, next), !.at = next]
        BY <3>7, <3>8, <3>9, <3>10, <3>14
      <4>2. /\ Pass(t).code = cutT.code /\ Pass(t).starts = Append(cutT.starts, next)
            /\ Pass(t).at = next /\ Pass(t).mem = cutT.mem
        BY <2>8, <3>12, <4>1, Zenon
      <4>3. /\ Pass(s).code = cutS.code /\ Pass(s).starts = Append(cutS.starts, next)
            /\ Pass(s).at = next /\ Pass(s).mem = cutS.mem
        BY <2>8, <3>12, <4>1, Zenon
      <4> QED
        BY <2>6, <2>8, <3>4, <4>2, <4>3 DEF Alike
    <3> QED
      BY <3>13, <3>14
  <2> QED
    BY <2>11, <2>12, <2>13
<1> QED
  BY <1>1, <1>2

(* and so do the loops. *)
LEMMA ParseAlike ==
  ASSUME NEW line, EndsInSpace(line), NEW mem, NEW short, OneByteApart(mem, short),
         CutTo(Shortened(line), short, 0)
  PROVE  Alike(parse_args(mem), parse_args(short))
<1> DEFINE T == Shortened(line)
           N == NMax + 2
           first == SkipSpaces(mem, 0, 0)
           g == Loop(mem)
           h == Loop(short)
<1>1. /\ T \in Texts /\ Len(T) = NMax - 1 /\ NMax \in Nat /\ N \in Nat /\ NMax > 1
      /\ mem \in Buffers /\ short \in Buffers /\ short = [mem EXCEPT ![NMax - 1] = 0]
      /\ T[NMax - 1] # SPACE
  <2>1. line[NMax - 1] # SPACE /\ NMax > 1 /\ NMax \in Nat
    BY ConsoleAssumption DEF EndsInSpace
  <2>2. NMax - 1 \in 1 .. (NMax - 1)
    BY <2>1
  <2>3. T \in Texts /\ Len(T) = NMax - 1 /\ T[NMax - 1] = line[NMax - 1]
    BY <2>2, ShortenedIsText, Zenon
  <2>4. mem \in Buffers /\ short \in Buffers /\ short = [mem EXCEPT ![NMax - 1] = 0]
    BY DEF OneByteApart, CutTo
  <2> HIDE DEF T
  <2> QED
    BY <2>1, <2>3, <2>4
<1> HIDE DEF T
<1>2. mem[NMax - 2] # SPACE
  <2>1. NMax - 2 \in 0 .. (NMax - 2) /\ (NMax - 2) + 1 = NMax - 1 /\ NMax - 2 \in 0 .. (NMax - 1)
        /\ NMax - 2 # NMax - 1 /\ Len(T) - 1 = NMax - 2
    BY <1>1
  <2>2. short[NMax - 2] = T[(NMax - 2) + 1]
    BY <1>1, <2>1 DEF CutTo, T
  <2> QED
    BY <1>1, <2>1, <2>2 DEF Buffers
<1>3. SkipSpaces(short, 0, 0) = first /\ first \in 0 .. (NMax - 2)
  <2>1. 0 \in 0 .. (NMax - 2) /\ 0 \in Nat
    BY <1>1
  <2> QED
    BY <1>1, <1>2, <2>1, SkipsAlike
<1> HIDE DEF first
<1>4. Byte(short, 0, first) # 0 /\ Byte(mem, 0, first) = Byte(short, 0, first)
  <2>1. first \in Nat /\ first # NMax - 1 /\ first # Len(T)
    BY <1>1, <1>3
  <2>2. Byte(short, 0, SkipSpaces(short, 0, 0)) = 0 => SkipSpaces(short, 0, 0) = Len(T)
    BY <1>1, BeginsAtWord DEF T
  <2>3. Byte(short, 0, first) # 0
    BY <1>3, <2>1, <2>2
  <2> QED
    BY <1>1, <2>1, <2>3, BytesAlike
<1>5. parse_args(mem) = g[N] /\ parse_args(short) = h[N]
  BY <1>3, <1>4, LoopIsUsed DEF first
<1>6. /\ g[0] = Begun(mem) /\ Begun(mem) \in Parses /\ h[0] = Begun(short) /\ Begun(short) \in Parses
      /\ \A i \in 1 .. N : g[i] = On(g[i - 1]) /\ h[i] = On(h[i - 1])
  BY <1>1, LoopRuns
<1>7. Alike(Begun(mem), Begun(short))
  BY <1>3, <1>6 DEF Alike, Begun, first
<1>8. Begun(short) \in Reached(T, 0)
  <2> DEFINE b == Begun(short)
  <2>1. b.code = "running" /\ b.mem = short /\ b.starts = <<first>> /\ b.at = first
    BY <1>3 DEF Begun
  <2>2. CutTo(T, short, first) /\ StartsTo(T, first) = {first + 1}
    BY <1>1, <1>3, <1>4, BeginsAtWord DEF T
  <2>3. FoundTo(T, <<first>>, first)
    <3>1. Len(<<first>>) = 1 /\ <<first>>[1] = first
      OBVIOUS
    <3>2. {<<first>>[w] + 1 : w \in 1 .. Len(<<first>>)} = {first + 1}
      BY <3>1
    <3>3. \A v, w \in 1 .. Len(<<first>>) : ~(v < w)
      BY <3>1
    <3> QED
      BY <2>2, <3>1, <3>2, <3>3, ConsoleAssumption DEF FoundTo
  <2>4. 0 <= first /\ first <= Len(T)
    BY <1>1, <1>3
  <2>5. b \in Parses
    BY <1>6
  <2> HIDE DEF b
  <2>6. b \in Reached(T, 0)
    BY <2>1, <2>2, <2>3, <2>4, <2>5 DEF Reached
  <2> QED
    BY <2>6 DEF b
<1> HIDE DEF g, h, N
<1> DEFINE I == {i \in 0 .. N : h[i] \in Reached(T, i) /\ Alike(g[i], h[i])}
<1>9. 0 \in I
  BY <1>1, <1>6, <1>7, <1>8
<1>10. ASSUME NEW i \in 1 .. N, i - 1 \in I
       PROVE  i \in I
  <2>1. /\ i - 1 \in Nat /\ (i - 1) + 1 = i /\ i \in 0 .. N
        /\ h[i - 1] \in Reached(T, i - 1) /\ Alike(g[i - 1], h[i - 1])
    BY <1>1, <1>10
  <2>2. On(h[i - 1]) \in Reached(T, (i - 1) + 1)
    BY <1>1, <2>1, PassReaches
  <2>3. Alike(On(g[i - 1]), On(h[i - 1]))
    BY <2>1, PassAlike DEF T
  <2> QED
    BY <1>6, <2>1, <2>2, <2>3
<1> HIDE DEF I
<1>11. \A i \in 0 .. N : i \in I
  BY <1>1, <1>9, <1>10, Induction
<1>12. Alike(g[N], h[N])
  BY <1>1, <1>11 DEF I
<1> QED
  BY <1>5, <1>12

(* The arguments of a line that fills the buffer up to a single space, *)
LEMMA ArgsOfFullText ==
  ASSUME NEW line, EndsInSpace(line), NEW mem \in Buffers,
         \A i \in 0 .. (NMax - 1) : mem[i] = line[i + 1]
  PROVE  LET r == parse_args(mem) IN
         IF r.code = "ok"
           THEN AreWords([w \in DOMAIN r.starts |-> String(r.mem, Len(r.starts), r.starts[w])], line)
           ELSE Cardinality(Starts(line)) > MaxArgs
<1> DEFINE T == Shortened(line)
           short == [mem EXCEPT ![NMax - 1] = 0]
           r == parse_args(mem)
           q == parse_args(short)
           words == [w \in DOMAIN r.starts |-> String(r.mem, Len(r.starts), r.starts[w])]
<1>1. /\ NMax \in Nat /\ NMax > 1 /\ line[NMax] = SPACE
      /\ T \in Texts /\ Len(T) = NMax - 1 /\ \A i \in 1 .. (NMax - 1) : T[i] = line[i]
  BY ShortenedIsText, ConsoleAssumption DEF EndsInSpace
<1> HIDE DEF T
<1>2. OneByteApart(mem, short)
  <2>1. NMax - 1 \in 0 .. (NMax - 1) /\ (NMax - 1) + 1 = NMax
    BY <1>1
  <2>2. mem[NMax - 1] = SPACE
    BY <1>1, <2>1
  <2> QED
    BY <2>2 DEF OneByteApart
<1>3. CutTo(T, short, 0)
  <2>1. short \in Buffers /\ short[NMax - 1] = 0
    BY <1>1 DEF Buffers
  <2>2. ASSUME NEW i \in 0 .. (Len(T) - 1)
        PROVE  short[i] = T[i + 1]
    <3>1. i \in 0 .. (NMax - 1) /\ i # NMax - 1 /\ i + 1 \in 1 .. (NMax - 1)
      BY <1>1
    <3> QED
      BY <1>1, <3>1 DEF Buffers
  <2>3. \A i \in 1 .. (Len(T) - 1) : ~(i < 0)
    BY <1>1
  <2> HIDE DEF short
  <2> QED
    BY <1>1, <2>1, <2>2, <2>3 DEF CutTo
<1>4. Alike(r, q)
  BY <1>2, <1>3, ParseAlike DEF T
<1>5. IF q.code = "ok"
        THEN AreWords([w \in DOMAIN q.starts |-> String(q.mem, Len(q.starts), q.starts[w])], T)
        ELSE Cardinality(Starts(T)) > MaxArgs
  BY <1>1, <1>3, ArgsOfText
<1> HIDE DEF short, r, q
<1>6. Starts(T) = Starts(line) /\ \A i \in Starts(line) : WordAt(T, i) = WordAt(line, i)
  BY ShortenedHasWords DEF T
<1>7. r.code = q.code /\ r.starts = q.starts /\ (r.code = "ok" => r.mem = q.mem)
  BY <1>4 DEF Alike
<1>8. r.code = "ok" => AreWords(words, T)
  BY <1>5, <1>7
<1> HIDE DEF words
<1>9. AreWords(words, T) => AreWords(words, line)
  BY <1>6, Zenon DEF AreWords
<1>10. IF r.code = "ok" THEN AreWords(words, line) ELSE Cardinality(Starts(line)) > MaxArgs
  BY <1>5, <1>6, <1>7, <1>8, <1>9
<1> QED
  BY <1>10 DEF r, words

(* and those of a buffer full of spaces. *)
LEMMA ArgsOfSpaces ==
  ASSUME NEW line \in Seq(Nat), Len(line) = NMax, \A i \in 1 .. NMax : line[i] = SPACE,
         NEW mem \in Buffers, \A i \in 0 .. (NMax - 1) : mem[i] = line[i + 1]
  PROVE  LET r == parse_args(mem) IN
         r.code = "ok" /\ r.starts = <<>> /\ Starts(line) = {}
<1> DEFINE first == SkipSpaces(mem, 0, 0)
<1>1. NMax \in Nat
  BY ConsoleAssumption
<1>2. \A i \in 0 .. (NMax - 1) : Byte(mem, 0, i) = SPACE
  <2> TAKE i \in 0 .. (NMax - 1)
  <2>1. i + 1 \in 1 .. NMax /\ i < NMax
    BY <1>1
  <2> QED
    BY <2>1 DEF Byte
<1>3. first \in 0 .. (NMax + 1) /\ Byte(mem, 0, first) # SPACE
  <2>1. 0 \in 0 .. (NMax + 1) /\ 0 \in Nat
    BY <1>1
  <2> QED
    BY <2>1, SkipSpacesStops, Zenon
<1> HIDE DEF first
<1>4. Byte(mem, 0, first) = 0
  <2>1. first \notin 0 .. (NMax - 1)
    BY <1>2, <1>3
  <2>2. ~(first < NMax)
    BY <1>1, <1>3, <2>1
  <2> QED
    BY <2>2 DEF Byte
<1>5. Starts(line) = {}
  BY DEF Starts
<1> QED
  BY <1>4, <1>5, LoopIsUsed DEF first

(* The buffer, its terminator stored, has the line and nothing is cut. *)
LEMMA LineIsCutTo ==
  ASSUME ConsoleInv, n < NMax
  PROVE  Line \in Texts /\ CutTo(Line, Terminated(buffer, n), 0)
<1> DEFINE mem == Terminated(buffer, n)
<1>1. n \in Nat /\ NMax \in Nat /\ buffer \in Buffers /\ \A i \in 0 .. (n - 1) : buffer[i] # 0
  BY ConsoleAssumption DEF ConsoleInv, LineStored
<1>2. Line \in Seq(Nat) /\ Len(Line) = n /\ \A i \in 1 .. n : Line[i] = buffer[i - 1]
  BY LineIsText
<1>3. mem \in Buffers /\ mem[n] = 0 /\ \A i \in 0 .. (n - 1) : mem[i] = buffer[i]
  <2>1. mem = [buffer EXCEPT ![n] = 0]
    BY DEF Terminated
  <2> HIDE DEF mem
  <2>2. n \in 0 .. (NMax - 1) /\ \A i \in 0 .. (n - 1) : i \in 0 .. (NMax - 1) /\ i # n
    BY <1>1
  <2> QED
    BY <1>1, <2>1, <2>2 DEF Buffers
<1> HIDE DEF mem
<1>4. \A i \in 0 .. (n - 1) : Line[i + 1] = buffer[i]
  <2> TAKE i \in 0 .. (n - 1)
  <2>1. i + 1 \in 1 .. n /\ (i + 1) - 1 = i
    BY <1>1
  <2> QED
    BY <1>2, <2>1
<1>5. Line \in Texts
  <2>1. \A i \in 1 .. n : Line[i] \in Nat \ {0}
    <3> TAKE i \in 1 .. n
    <3>1. i - 1 \in 0 .. (n - 1) /\ i - 1 \in 0 .. (NMax - 1)
      BY <1>1
    <3> QED
      BY <1>1, <1>2, <3>1 DEF Buffers
  <2>2. ASSUME NEW q \in Seq(Nat), \A i \in 1 .. Len(q) : q[i] \in Nat \ {0}
        PROVE  q \in Seq(Nat \ {0})
    BY <2>2
  <2>3. Line \in Seq(Nat \ {0})
    BY <1>2, <2>1, <2>2
  <2> QED
    BY <1>2, <2>3 DEF Texts
<1>6. CutTo(Line, mem, 0)
  <2>1. \A i \in 0 .. (Len(Line) - 1) : mem[i] = Line[i + 1]
    BY <1>2, <1>3, <1>4
  <2>2. \A i \in 1 .. (Len(Line) - 1) : ~(i < 0)
    BY <1>1, <1>2
  <2> QED
    BY <1>2, <1>3, <2>1, <2>2 DEF CutTo
<1> QED
  BY <1>5, <1>6 DEF mem

(* A full buffer has the line too. *)
LEMMA FullLine ==
  ASSUME ConsoleInv, n = NMax
  PROVE  /\ Line \in Seq(Nat \ {0}) /\ Len(Line) = NMax
         /\ Terminated(buffer, n) = buffer /\ buffer \in Buffers
         /\ \A i \in 0 .. (NMax - 1) : buffer[i] = Line[i + 1]
<1>1. n \in Nat /\ NMax \in Nat /\ buffer \in Buffers /\ \A i \in 0 .. (n - 1) : buffer[i] # 0
  BY ConsoleAssumption DEF ConsoleInv, LineStored
<1>2. Line \in Seq(Nat) /\ Len(Line) = n /\ \A i \in 1 .. n : Line[i] = buffer[i - 1]
  BY LineIsText
<1>3. Terminated(buffer, n) = buffer
  BY <1>1 DEF Terminated
<1>4. \A i \in 0 .. (NMax - 1) : buffer[i] = Line[i + 1]
  <2> TAKE i \in 0 .. (NMax - 1)
  <2>1. i + 1 \in 1 .. n /\ (i + 1) - 1 = i
    BY <1>1
  <2> QED
    BY <1>2, <2>1
<1>5. \A i \in 1 .. n : Line[i] \in Nat \ {0}
  <2> TAKE i \in 1 .. n
  <2>1. i - 1 \in 0 .. (n - 1) /\ i - 1 \in 0 .. (NMax - 1)
    BY <1>1
  <2> QED
    BY <1>1, <1>2, <2>1 DEF Buffers
<1>6. ASSUME NEW q \in Seq(Nat), \A i \in 1 .. Len(q) : q[i] \in Nat \ {0}
      PROVE  q \in Seq(Nat \ {0})
  BY <1>6
<1>7. Line \in Seq(Nat \ {0})
  BY <1>2, <1>5, <1>6
<1> QED
  BY <1>1, <1>2, <1>3, <1>4, <1>7

(* The arguments are the words of the line at the start. *)
LEMMA ArgsInit ==
  ASSUME Init
  PROVE  ArgsAreWords
<1>1. argv = <<>> /\ entered = <<>> /\ code = "ok"
  BY DEF Init
<1>2. Starts(<<>>) = {} /\ DOMAIN <<>> = {} /\ Len(<<>>) = 0
  BY DEF Starts
<1>3. AreWords(<<>>, <<>>)
  <2>1. <<>> \in [{} -> {}] /\ {<<>>[w] : w \in {}} = {}
    OBVIOUS
  <2> QED
    BY <1>2, <2>1 DEF AreWords
<1> QED
  BY <1>1, <1>2, <1>3, ConsoleAssumption DEF ArgsAreWords

(* So are those of the line just entered. *)
LEMMA ArgsEnter ==
  ASSUME ConsoleInv, Enter
  PROVE  ArgsAreWords'
<1> DEFINE line == Terminated(buffer, n)
           r == parse_args(line)
           words == [w \in DOMAIN r.starts |-> String(r.mem, Len(r.starts), r.starts[w])]
<1>1. code' = r.code /\ argv' = words
  BY DEF Enter
<1>2. entered' = Line /\ Len(Line) = n
  BY EditorEnter, LineIsText DEF Editor!Enter
<1>3. line \in Buffers
  <2>1. buffer \in Buffers
    BY DEF ConsoleInv, LineStored
  <2> QED
    BY <2>1 DEF Terminated, Buffers
<1>4. ~Overruns(Line) => IF r.code = "ok" THEN AreWords(words, Line)
                         ELSE Cardinality(Starts(Line)) > MaxArgs
  <2>1. n \in Nat /\ n <= NMax /\ NMax \in Nat
    BY ConsoleAssumption DEF ConsoleInv, LineStored
  <2>2. CASE n < NMax
    BY <2>2, LineIsCutTo, ArgsOfText
  <2>3. CASE n = NMax /\ \A i \in 1 .. NMax : Line[i] = SPACE
    <3>1. r.code = "ok" /\ r.starts = <<>> /\ Starts(Line) = {}
      BY <2>3, FullLine, LineIsText, ArgsOfSpaces
    <3> HIDE DEF r
    <3>2. DOMAIN words = {}
      BY <3>1
    <3>3. words \in [{} -> {}] /\ {words[w] : w \in {}} = {}
      BY <3>2
    <3> HIDE DEF words
    <3>4. AreWords(words, Line)
      BY <3>1, <3>2, <3>3 DEF AreWords
    <3> QED
      BY <3>1, <3>4
  <2>4. CASE n = NMax /\ ~(\A i \in 1 .. NMax : Line[i] = SPACE) /\ ~Overruns(Line)
    <3>1. Line[NMax] = SPACE /\ Line[NMax - 1] # SPACE
      BY <1>2, <2>4 DEF Overruns
    <3>2. NMax > 1
      BY <2>1, <2>4, <3>1
    <3>3. EndsInSpace(Line)
      BY <2>4, <3>1, <3>2, FullLine DEF EndsInSpace
    <3> QED
      BY <2>4, <3>3, FullLine, ArgsOfFullText
  <2> QED
    BY <2>1, <2>2, <2>3, <2>4
<1> HIDE DEF line
<1>5. r \in Parses /\ Len(r.starts) <= MaxArgs + 1
  BY <1>3, ParseInBuffer, ParseFew
<1> HIDE DEF r
<1>6. Len(words) <= MaxArgs + 1
  <2>1. ASSUME NEW S, NEW q \in Seq(S)
        PROVE  DOMAIN q = 1 .. Len(q) /\ Len(q) \in Nat
    OBVIOUS
  <2>2. r.starts \in Seq(0 .. (NMax + 1))
    BY <1>5 DEF Parses
  <2>3. DOMAIN words = 1 .. Len(r.starts) /\ Len(r.starts) \in Nat
    BY <2>1, <2>2
  <2> HIDE DEF words
  <2>4. Len(words) = Len(r.starts)
    <3> PICK k \in Nat : k = Len(r.starts)
      BY <2>3
    <3>1. DOMAIN words = 1 .. k
      BY <2>3
    <3>2. Len(words) = k
      BY <3>1, LenProperties
    <3> QED
      BY <3>2
  <2> QED
    BY <1>5, <2>4
<1> HIDE DEF words
<1> QED
  BY <1>1, <1>2, <1>4, <1>6 DEF ArgsAreWords

(***************************************************************************)
(* kexec_cmd is given the words of the line that was entered, in their     *)
(* order and whatever spaces lie around them, or parse_args has found more *)
(* than MaxArgs of them, for every line but those which Overruns names;    *)
(* and argv has room for what it is given, whatever the line.              *)
(***************************************************************************)
THEOREM ConsoleArgsAreWords == Spec => []ArgsAreWords
<1>1. ASSUME ConsoleInv, ArgsAreWords, [Next]_vars
      PROVE  ArgsAreWords'
  <2>1. ASSUME UNCHANGED <<argv, code, entered>>
        PROVE  ArgsAreWords'
    BY <1>1, <2>1 DEF ArgsAreWords
  <2>2. CASE \E c \in Printable : Type(c)
    BY <2>1, <2>2 DEF Type
  <2>3. CASE Erase
    BY <2>1, <2>3 DEF Erase
  <2>4. CASE Enter
    BY <1>1, <2>4, ArgsEnter
  <2>5. CASE UNCHANGED vars
    BY <2>1, <2>5 DEF vars
  <2> QED
    BY <1>1, <2>2, <2>3, <2>4, <2>5 DEF Next
<1> QED
  BY <1>1, ArgsInit, ConsoleInvariant, PTL DEF Spec

-----------------------------------------------------------------------------
(***************************************************************************)
(* Display.  A call of set_text_mode is 179 accesses in a row.  The lemmas *)
(* below say first which access is at which place (CallPlaced), from the   *)
(* sequences that write_regs and write_font are put together of; then what *)
(* the VGA holds before each place (ChipAt), and that every access takes   *)
(* ChipAt one place further (TablesGo, FontGoes).  DisplayInv adds what is *)
(* so between the calls.                                                   *)
(***************************************************************************)

(* The accesses of set_text_mode, one after the other. *)

(* What concatenated sequences hold. *)
LEMMA Concatenated ==
  ASSUME NEW S, NEW s \in Seq(S), NEW t \in Seq(S)
  PROVE  /\ s \o t \in Seq(S)
         /\ Len(s \o t) = Len(s) + Len(t)
         /\ \A i \in 1 .. Len(s) + Len(t) : (s \o t)[i] = IF i <= Len(s) THEN s[i] ELSE t[i - Len(s)]
<1>1. s \o t \in Seq(S)
  BY ConcatProperties
<1>2. Len(s \o t) = Len(s) + Len(t)
  BY ConcatProperties
<1>3. \A i \in 1 .. Len(s) + Len(t) : (s \o t)[i] = IF i <= Len(s) THEN s[i] ELSE t[i - Len(s)]
  BY ConcatProperties
<1> QED
  BY <1>1, <1>2, <1>3

(* Sequences of k elements, one after the other. *)
Rows(S, len, k) == {q \in [1 .. len -> Seq(S)] : \A i \in 1 .. len : Len(q[i]) = k}

RowsIn(w, q, S, len, k) ==
  /\ w \in Seq(S) /\ Len(w) = len * k
  /\ \A i \in 1 .. len, j \in 1 .. k : w[(i - 1) * k + j] = q[i][j]

(* Element number j of row number i is where the rows put it. *)
LEMMA Flattened ==
  ASSUME NEW S, NEW len \in Nat \ {0}, NEW k \in Nat \ {0}, NEW q \in Rows(S, len, k)
  PROVE  RowsIn(FlattenSeq(q), q, S, len, k)
<1> DEFINE next == [p \in (1 .. len) \X Seq(S) |-> p[2] \o q[p[1]]]
           Joins(f) == \A i \in 1 .. len : f[i] = IF i = 1 THEN q[i] ELSE f[i - 1] \o q[i]
           F(f) == [i \in 1 .. len |-> IF i = 1 THEN q[i] ELSE f[i - 1] \o q[i]]
           flatten == CHOOSE f : f = F(f)
<1>0. (\A i \in 1 .. len : q[i] \in Seq(S)) /\ (\A i \in 1 .. len : Len(q[i]) = k) /\ Len(q) = len
  BY DEF Rows
<1>1. next \in [(1 .. len) \X Seq(S) -> Seq(S)]
  BY <1>0, ConcatProperties
<1>2. PICK f \in [0 .. len -> Seq(S)] : f[0] = <<>> /\ \A i \in 1 .. len : f[i] = next[<<i, f[i - 1]>>]
  <2>1. <<>> \in Seq(S)
    BY EmptySeq
  <2> HIDE DEF next
  <2>2. len \in Nat
    OBVIOUS
  <2>3. Passes(len, Seq(S), <<>>, next) # {}
    BY <1>1, <2>1, <2>2, Iteration
  <2> QED
    BY <2>3 DEF Passes
<1>3. \A i \in 1 .. len : f[i - 1] \in Seq(S) /\ f[i] = f[i - 1] \o q[i]
  <2> SUFFICES ASSUME NEW i \in 1 .. len
               PROVE  f[i - 1] \in Seq(S) /\ f[i] = f[i - 1] \o q[i]
    OBVIOUS
  <2>1. i - 1 \in 0 .. len
    OBVIOUS
  <2>2. f[i - 1] \in Seq(S)
    BY <1>2, <2>1
  <2>3. next[<<i, f[i - 1]>>] = f[i - 1] \o q[i]
    BY <2>2
  <2> QED
    BY <1>2, <2>2, <2>3
<1> HIDE DEF next
<1>4. f[1] = q[1]
  <2>1. 1 \in 1 .. len /\ 1 - 1 = 0
    OBVIOUS
  <2>2. f[1] = <<>> \o q[1]
    BY <1>2, <1>3, <2>1
  <2> QED
    BY <1>0, <2>1, <2>2, ConcatEmptySeq
<1>5. [i \in 1 .. len |-> f[i]] = F([i \in 1 .. len |-> f[i]])
  <2> DEFINE g == [i \in 1 .. len |-> f[i]]
  <2>1. \A i \in 1 .. len : g[i] = IF i = 1 THEN q[i] ELSE g[i - 1] \o q[i]
    <3> SUFFICES ASSUME NEW i \in 1 .. len
                 PROVE  g[i] = IF i = 1 THEN q[i] ELSE g[i - 1] \o q[i]
      OBVIOUS
    <3>1. i # 1 => i - 1 \in 1 .. len
      OBVIOUS
    <3> QED
      BY <1>3, <1>4, <3>1
  <2>2. g = [i \in 1 .. len |-> g[i]]
    OBVIOUS
  <2> HIDE DEF g
  <2>3. g = F(g)
    BY <2>1, <2>2
  <2> QED
    BY <2>3 DEF g
<1>6. flatten = F(flatten)
  <2> HIDE DEF F
  <2> QED
    BY <1>5
<1>7. /\ \A i \in 1 .. len : flatten[i] = IF i = 1 THEN q[i] ELSE flatten[i - 1] \o q[i]
      /\ FlattenSeq(q) = flatten[len]
  <2>1. FlattenSeq(q) = flatten[len]
    BY <1>0 DEF FlattenSeq
  <2> HIDE DEF flatten
  <2> QED
    BY <1>6, <2>1
<1> HIDE DEF flatten
<1> DEFINE I == {i \in 0 .. len : i = 0 \/
                   /\ flatten[i] \in Seq(S) /\ Len(flatten[i]) = i * k
                   /\ \A u \in 1 .. i, j \in 1 .. k : flatten[i][(u - 1) * k + j] = q[u][j]}
<1>8. 1 \in I
  BY <1>0, <1>7
<1>9. ASSUME NEW i \in 2 .. len, i - 1 \in I
      PROVE  i \in I
  <2> DEFINE s == flatten[i - 1]
             t == q[i]
  <2>1. /\ s \in Seq(S) /\ Len(s) = (i - 1) * k
        /\ \A u \in 1 .. (i - 1), j \in 1 .. k : s[(u - 1) * k + j] = q[u][j]
    BY <1>9
  <2>2. t \in Seq(S) /\ Len(t) = k
    BY <1>0
  <2>3. flatten[i] = s \o t
    <3>1. i \in 1 .. len /\ i # 1
      OBVIOUS
    <3> QED
      BY <1>7, <3>1
  <2> HIDE DEF s, t
  <2>4. i * k = (i - 1) * k + k /\ (i - 1) * k \in Nat
    OBVIOUS
  <2> DEFINE m == (i - 1) * k
  <2> HIDE DEF m
  <2>5. /\ flatten[i] \in Seq(S) /\ Len(flatten[i]) = i * k
        /\ \A p \in 1 .. m + k : flatten[i][p] = IF p <= m THEN s[p] ELSE t[p - m]
    <3>1. Len(s) = m
      BY <2>1 DEF m
    <3>2. /\ s \o t \in Seq(S) /\ Len(s \o t) = Len(s) + Len(t)
          /\ \A p \in 1 .. Len(s) + Len(t) : (s \o t)[p] = IF p <= Len(s) THEN s[p] ELSE t[p - Len(s)]
      <4>1. s \in Seq(S) /\ t \in Seq(S)
        BY <2>1, <2>2
      <4> QED
        BY <4>1, Concatenated
    <3>3. i * k = m + k
      BY <2>4 DEF m
    <3> QED
      BY <2>2, <2>3, <3>1, <3>2, <3>3
  <2>6. ASSUME NEW u \in 1 .. i, NEW j \in 1 .. k
        PROVE  flatten[i][(u - 1) * k + j] = q[u][j]
    <3>1. CASE u = i
      <4>1. (u - 1) * k + j = m + j /\ m \in Nat
        BY <2>4, <3>1 DEF m
      <4> DEFINE p == m + j
      <4>2. p \in 1 .. m + k /\ ~(p <= m) /\ p - m = j
        BY <4>1
      <4>3. flatten[i][p] = t[j]
        <5> HIDE DEF p
        <5>1. \A o \in 1 .. m + k : flatten[i][o] = IF o <= m THEN s[o] ELSE t[o - m]
          BY <2>5
        <5> QED
          BY <4>2, <5>1
      <4>4. t[j] = q[u][j]
        BY <3>1 DEF t
      <4> QED
        BY <4>1, <4>2, <4>3, <4>4
    <3>2. CASE u < i
      <4>1. u * k <= (i - 1) * k /\ u * k = (u - 1) * k + k /\ (u - 1) * k \in Nat
        <5>1. PICK d \in Nat : i - 1 = u + d
          <6>1. i - 1 - u \in Nat
            BY <3>2
          <6> QED
            BY <6>1
        <5>2. (i - 1) * k = u * k + d * k /\ d * k \in Nat
          BY <5>1
        <5>3. u * k = (u - 1) * k + k /\ (u - 1) * k \in Nat
          OBVIOUS
        <5> QED
          BY <5>2, <5>3
      <4> DEFINE p == (u - 1) * k + j
      <4>2. p \in 1 .. m + k /\ p <= m
        <5>1. PICK a \in Nat : a = (u - 1) * k
          BY <4>1
        <5>2. PICK b \in Nat : b = u * k /\ b = a + k
          BY <4>1, <5>1
        <5>3. m \in Nat /\ b <= m
          BY <2>4, <4>1, <5>2 DEF m
        <5>4. p = a + j /\ b = a + k
          BY <5>1, <5>2
        <5> HIDE DEF p
        <5> QED
          BY <5>3, <5>4
      <4>3. flatten[i][p] = s[p]
        <5> HIDE DEF p
        <5> QED
          BY <2>5, <4>2
      <4>4. u \in 1 .. (i - 1)
        BY <3>2
      <4> QED
        BY <2>1, <4>3, <4>4
    <3> QED
      BY <3>1, <3>2
  <2> QED
    BY <2>5, <2>6
<1> HIDE DEF I
<1>10. \A i \in 0 .. len : i \in I
  <2>1. 0 \in I
    BY DEF I
  <2>2. \A i \in 1 .. len : i - 1 \in I => i \in I
    BY <1>8, <1>9
  <2> QED
    BY <2>1, <2>2, Induction
<1>11. len \in I
  BY <1>10
<1> QED
  BY <1>7, <1>11 DEF I, RowsIn

-----------------------------------------------------------------------------
(* The registers of the units, and the VGA. *)
RegisterSets ==
  [misc : [0 .. 0 -> Int], seq : [0 .. 4 -> Int], crtc : [0 .. 24 -> Int], gc : [0 .. 8 -> Int],
   ac : [0 .. 20 -> Int]]

Units == {"misc", "seq", "crtc", "gc", "ac"}

(* Every access a program may consist of. *)
Accesses ==
  {Out(u, p, b) : u \in Units, p \in {"index", "data", "both"}, b \in Int}
  \cup {In(u, v) : u \in Units, v \in {"seq2", "seq4", "gc4", "gc5", "gc6", "tmp"}}
  \cup {OutLocal(u, v, set, clear) : u \in Units, v \in {"seq2", "seq4", "gc4", "gc5", "gc6", "tmp"},
                                     set \in Int, clear \in Int}
  \cup {InstatRead} \cup {LoadFont(h) : h \in Int} \cup {SetSize(c, l) : c \in Int, l \in Int}

(* The operators that build accesses build accesses. *)
LEMMA AccessKinds ==
  /\ \A u \in Units, p \in {"index", "data", "both"}, b \in Int : Out(u, p, b) \in Accesses
  /\ \A u \in Units, v \in {"seq2", "seq4", "gc4", "gc5", "gc6", "tmp"} : In(u, v) \in Accesses
  /\ \A u \in Units, v \in {"seq2", "seq4", "gc4", "gc5", "gc6", "tmp"}, set, clear \in Int :
       OutLocal(u, v, set, clear) \in Accesses
  /\ InstatRead \in Accesses
  /\ \A h \in Int : LoadFont(h) \in Accesses
  /\ \A c, l \in Int : SetSize(c, l) \in Accesses
BY DEF Accesses

(* The values of len registers, and the pairs and triples of accesses that write them. *)
Tables(len) == [0 .. (len - 1) -> Int]

Pairs(w, unit, len, values) ==
  /\ w \in Seq(Accesses) /\ Len(w) = 2 * len
  /\ \A i \in 0 .. (len - 1) : w[2 * i + 1] = Out(unit, "index", i) /\ w[2 * i + 2] = Out(unit, "data", values[i])

Triples(w, len, values) ==
  /\ w \in Seq(Accesses) /\ Len(w) = 3 * len
  /\ \A i \in 0 .. (len - 1) : /\ w[3 * i + 1] = InstatRead
                             /\ w[3 * i + 2] = Out("ac", "both", i)
                             /\ w[3 * i + 3] = Out("ac", "both", values[i])

(* A table written through an index port: an index and a byte for each register. *)
LEMMA IndexedAccesses ==
  ASSUME NEW unit \in Units, NEW len \in Nat \ {0}, NEW values \in Tables(len)
  PROVE  Pairs(Indexed(unit, values), unit, len, values)
<1>0. values \in [0 .. (len - 1) -> Int]
  BY DEF Tables
<1> DEFINE pair(i) == <<Out(unit, "index", i), Out(unit, "data", values[i])>>
           q == [i \in 1 .. len |-> pair(i - 1)]
<1>1. ASSUME NEW i \in 0 .. (len - 1)
      PROVE  pair(i) \in Seq(Accesses) /\ Len(pair(i)) = 2
  <2>1. values[i] \in Int
    BY <1>0
  <2>2. Out(unit, "index", i) \in Accesses /\ Out(unit, "data", values[i]) \in Accesses
    BY <2>1, AccessKinds
  <2> QED
    BY <2>2
<1> HIDE DEF pair
<1>2. q \in Rows(Accesses, len, 2)
  BY <1>1 DEF Rows
<1>3. Indexed(unit, values) = FlattenSeq(q)
  <2>1. DOMAIN values = 0 .. (len - 1) /\ Cardinality(0 .. (len - 1)) = len
    BY <1>0, FS_Interval
  <2> QED
    BY <2>1 DEF Indexed, Each, pair
<1> HIDE DEF q
<1>4. /\ FlattenSeq(q) \in Seq(Accesses) /\ Len(FlattenSeq(q)) = len * 2
      /\ \A i \in 1 .. len, j \in 1 .. 2 : FlattenSeq(q)[(i - 1) * 2 + j] = q[i][j]
  <2>1. 2 \in Nat \ {0}
    OBVIOUS
  <2>2. RowsIn(FlattenSeq(q), q, Accesses, len, 2)
    BY <1>2, <2>1, Flattened
  <2> QED
    BY <2>2 DEF RowsIn
<1>5. ASSUME NEW i \in 0 .. (len - 1)
      PROVE  /\ FlattenSeq(q)[2 * i + 1] = Out(unit, "index", i)
             /\ FlattenSeq(q)[2 * i + 2] = Out(unit, "data", values[i])
  <2>1. i + 1 \in 1 .. len /\ ((i + 1) - 1) * 2 + 1 = 2 * i + 1 /\ ((i + 1) - 1) * 2 + 2 = 2 * i + 2
    OBVIOUS
  <2>2. q[i + 1] = pair(i)
    BY <2>1 DEF q
  <2>3. FlattenSeq(q)[2 * i + 1] = pair(i)[1] /\ FlattenSeq(q)[2 * i + 2] = pair(i)[2]
    <3>1. \A j \in 1 .. 2 : FlattenSeq(q)[((i + 1) - 1) * 2 + j] = q[i + 1][j]
      BY <1>4, <2>1
    <3>2. 1 \in 1 .. 2 /\ 2 \in 1 .. 2
      OBVIOUS
    <3> QED
      BY <2>1, <2>2, <3>1, <3>2
  <2> QED
    BY <2>3 DEF pair
<1> DEFINE w == FlattenSeq(q)
<1>6. w \in Seq(Accesses) /\ Len(w) = 2 * len
  BY <1>4
<1> HIDE DEF w
<1>7. Pairs(w, unit, len, values)
  <2>1. \A i \in 0 .. (len - 1) : w[2 * i + 1] = Out(unit, "index", i) /\ w[2 * i + 2] = Out(unit, "data", values[i])
    BY <1>5 DEF w
  <2> QED
    BY <1>6, <2>1 DEF Pairs
<1> QED
  BY <1>3, <1>7 DEF w

(* The attribute controller's table: a reset, an index and a byte for each register. *)
LEMMA AttributeAccesses ==
  ASSUME NEW len \in Nat \ {0}, NEW values \in Tables(len)
  PROVE  Triples(Attributes(values), len, values)
<1>0. values \in [0 .. (len - 1) -> Int]
  BY DEF Tables
<1> DEFINE triple(i) == <<InstatRead, Out("ac", "both", i), Out("ac", "both", values[i])>>
           q == [i \in 1 .. len |-> triple(i - 1)]
<1>1. ASSUME NEW i \in 0 .. (len - 1)
      PROVE  triple(i) \in Seq(Accesses) /\ Len(triple(i)) = 3
  <2>1. values[i] \in Int /\ "ac" \in Units
    BY <1>0 DEF Units
  <2>2. InstatRead \in Accesses /\ Out("ac", "both", i) \in Accesses /\ Out("ac", "both", values[i]) \in Accesses
    BY <2>1, AccessKinds
  <2> QED
    BY <2>2
<1> HIDE DEF triple
<1>2. q \in Rows(Accesses, len, 3)
  BY <1>1 DEF Rows
<1>3. Attributes(values) = FlattenSeq(q)
  <2>1. DOMAIN values = 0 .. (len - 1) /\ Cardinality(0 .. (len - 1)) = len
    BY <1>0, FS_Interval
  <2> QED
    BY <2>1 DEF Attributes, Each, triple
<1> HIDE DEF q
<1>4. /\ FlattenSeq(q) \in Seq(Accesses) /\ Len(FlattenSeq(q)) = len * 3
      /\ \A i \in 1 .. len, j \in 1 .. 3 : FlattenSeq(q)[(i - 1) * 3 + j] = q[i][j]
  <2>1. 3 \in Nat \ {0}
    OBVIOUS
  <2>2. RowsIn(FlattenSeq(q), q, Accesses, len, 3)
    BY <1>2, <2>1, Flattened
  <2> QED
    BY <2>2 DEF RowsIn
<1>5. ASSUME NEW i \in 0 .. (len - 1)
      PROVE  /\ FlattenSeq(q)[3 * i + 1] = InstatRead
             /\ FlattenSeq(q)[3 * i + 2] = Out("ac", "both", i)
             /\ FlattenSeq(q)[3 * i + 3] = Out("ac", "both", values[i])
  <2>1. /\ i + 1 \in 1 .. len /\ ((i + 1) - 1) * 3 + 1 = 3 * i + 1 /\ ((i + 1) - 1) * 3 + 2 = 3 * i + 2
        /\ ((i + 1) - 1) * 3 + 3 = 3 * i + 3
    OBVIOUS
  <2>2. q[i + 1] = triple(i)
    BY <2>1 DEF q
  <2>3. /\ FlattenSeq(q)[3 * i + 1] = triple(i)[1] /\ FlattenSeq(q)[3 * i + 2] = triple(i)[2]
        /\ FlattenSeq(q)[3 * i + 3] = triple(i)[3]
    <3>1. \A j \in 1 .. 3 : FlattenSeq(q)[((i + 1) - 1) * 3 + j] = q[i + 1][j]
      BY <1>4, <2>1
    <3>2. 1 \in 1 .. 3 /\ 2 \in 1 .. 3 /\ 3 \in 1 .. 3
      OBVIOUS
    <3> QED
      BY <2>1, <2>2, <3>1, <3>2
  <2> QED
    BY <2>3 DEF triple
<1> DEFINE w == FlattenSeq(q)
<1>6. w \in Seq(Accesses) /\ Len(w) = 3 * len
  BY <1>4
<1> HIDE DEF w
<1>7. Triples(w, len, values)
  <2>1. \A i \in 0 .. (len - 1) : w[3 * i + 1] = InstatRead /\ w[3 * i + 2] = Out("ac", "both", i) /\ w[3 * i + 3] = Out("ac", "both", values[i])
    BY <1>5 DEF w
  <2> QED
    BY <1>6, <2>1 DEF Triples
<1> QED
  BY <1>3, <1>7 DEF w

(* The accesses of UnlockCrtc, *)
LEMMA UnlockAccesses == UnlockCrtc \in Seq(Accesses) /\ Len(UnlockCrtc) = 6
BY AccessKinds DEF UnlockCrtc, Units

(* of write_font. *)
FontPart(height) ==
  <<Out("seq", "index", 2), In("seq", "seq2"),
    Out("seq", "index", 4), In("seq", "seq4"), OutLocal("seq", "seq4", 4, 0),
    Out("gc", "index", 4), In("gc", "gc4"),
    Out("gc", "index", 5), In("gc", "gc5"), OutLocal("gc", "gc5", 0, 16),
    Out("gc", "index", 6), In("gc", "gc6"), OutLocal("gc", "gc6", 0, 2),
    Out("gc", "index", 4), Out("gc", "data", 2), Out("seq", "index", 2), Out("seq", "data", 4),
    LoadFont(height),
    Out("seq", "index", 2), OutLocal("seq", "seq2", 0, 0),
    Out("seq", "index", 4), OutLocal("seq", "seq4", 0, 0),
    Out("gc", "index", 4), OutLocal("gc", "gc4", 0, 0),
    Out("gc", "index", 5), OutLocal("gc", "gc5", 0, 0),
    Out("gc", "index", 6), OutLocal("gc", "gc6", 0, 0)>>

(* w is what F begins with, up to len; and so w \o t. *)
Begins(w, F, len) == w \in Seq(Accesses) /\ Len(w) = len /\ \A i \in 1 .. len : w[i] = F[i]

(* A sequence that begins a list of accesses, extended by the ones that follow. *)
LEMMA GoesOn ==
  ASSUME NEW F, NEW len \in Nat, NEW m \in Nat, NEW w, Begins(w, F, len), NEW t \in Seq(Accesses), Len(t) = m,
         \A j \in 1 .. m : t[j] = F[len + j]
  PROVE  Begins(w \o t, F, len + m)
<1>1. w \in Seq(Accesses) /\ Len(w) = len /\ \A i \in 1 .. len : w[i] = F[i]
  BY DEF Begins
<1>2. /\ w \o t \in Seq(Accesses)
      /\ Len(w \o t) = Len(w) + Len(t)
      /\ \A i \in 1 .. Len(w) + Len(t) : (w \o t)[i] = IF i <= Len(w) THEN w[i] ELSE t[i - Len(w)]
  BY <1>1, Concatenated
<1> DEFINE u == w \o t
<1> HIDE DEF u
<1>3. \A i \in 1 .. len + m : u[i] = IF i <= len THEN w[i] ELSE t[i - len]
  BY <1>1, <1>2 DEF u
<1>4. ASSUME NEW i \in 1 .. len + m
      PROVE  u[i] = F[i]
  <2>1. CASE i <= len
    BY <1>1, <1>3, <2>1
  <2>2. CASE ~(i <= len)
    <3>1. i - len \in 1 .. m /\ len + (i - len) = i
      BY <2>2
    <3> QED
      BY <1>3, <2>2, <3>1
  <2> QED
    BY <2>1, <2>2
<1>5. u \in Seq(Accesses) /\ Len(u) = len + m
  BY <1>1, <1>2 DEF u
<1> QED
  BY <1>4, <1>5 DEF Begins, u

(* write_font is its 28 accesses. *)
LEMMA FontAccesses ==
  ASSUME NEW height \in Int
  PROVE  /\ write_font(height) = FontPart(height)
         /\ FontPart(height) \in Seq(Accesses) /\ Len(FontPart(height)) = 28
<1> DEFINE F == FontPart(height)
<1>1. F \in Seq(Accesses) /\ Len(F) = 28
  BY AccessKinds DEF FontPart, Units
<1> DEFINE
     w1 == Save("seq", 2, "seq2")
     w2 == w1 \o Save("seq", 4, "seq4")
     w3 == w2 \o <<OutLocal("seq", "seq4", 4, 0)>>
     w4 == w3 \o Save("gc", 4, "gc4")
     w5 == w4 \o Save("gc", 5, "gc5")
     w6 == w5 \o <<OutLocal("gc", "gc5", 0, 16)>>
     w7 == w6 \o Save("gc", 6, "gc6")
     w8 == w7 \o <<OutLocal("gc", "gc6", 0, 2)>>
     w9 == w8 \o set_plane(2)
     w10 == w9 \o <<LoadFont(height)>>
     w11 == w10 \o Restore("seq", 2, "seq2")
     w12 == w11 \o Restore("seq", 4, "seq4")
     w13 == w12 \o Restore("gc", 4, "gc4")
     w14 == w13 \o Restore("gc", 5, "gc5")
     w15 == w14 \o Restore("gc", 6, "gc6")
<1>2. Begins(w1, F, 2)
  <2> DEFINE t == Save("seq", 2, "seq2")
  <2>1. t \in Seq(Accesses) /\ Len(t) = 2
    BY AccessKinds DEF Save, Restore, set_plane, Units
  <2>2. t[1] = F[1] /\ t[2] = F[2]
    BY DEF Save, Restore, set_plane, FontPart
  <2> HIDE DEF F, t
  <2>3. \A j \in 1 .. 2 : t[j] = F[j]
    BY <2>2
  <2> QED
    BY <2>1, <2>3 DEF Begins, t
<1>3. Begins(w2, F, 4)
  <2> DEFINE t == Save("seq", 4, "seq4")
  <2>1. t \in Seq(Accesses) /\ Len(t) = 2
    BY AccessKinds DEF Save, Restore, set_plane, Units
  <2>2. t[1] = F[3] /\ t[2] = F[4]
    BY DEF Save, Restore, set_plane, FontPart
  <2> HIDE DEF F, t
  <2>3. \A j \in 1 .. 2 : t[j] = F[2 + j]
    BY <2>2
  <2> HIDE DEF w1
  <2>4. 2 \in Nat /\ 2 \in Nat /\ 2 + 2 = 4
    OBVIOUS
  <2>5. Begins(w1 \o t, F, 2 + 2)
    BY <1>2, <2>1, <2>3, <2>4, GoesOn
  <2> QED
    BY <2>4, <2>5 DEF t
<1>4. Begins(w3, F, 5)
  <2> DEFINE t == <<OutLocal("seq", "seq4", 4, 0)>>
  <2>1. t \in Seq(Accesses) /\ Len(t) = 1
    BY AccessKinds DEF Save, Restore, set_plane, Units
  <2>2. t[1] = F[5]
    BY DEF Save, Restore, set_plane, FontPart
  <2> HIDE DEF F, t
  <2>3. \A j \in 1 .. 1 : t[j] = F[4 + j]
    BY <2>2
  <2> HIDE DEF w2
  <2>4. 4 \in Nat /\ 1 \in Nat /\ 4 + 1 = 5
    OBVIOUS
  <2>5. Begins(w2 \o t, F, 4 + 1)
    BY <1>3, <2>1, <2>3, <2>4, GoesOn
  <2> QED
    BY <2>4, <2>5 DEF t
<1>5. Begins(w4, F, 7)
  <2> DEFINE t == Save("gc", 4, "gc4")
  <2>1. t \in Seq(Accesses) /\ Len(t) = 2
    BY AccessKinds DEF Save, Restore, set_plane, Units
  <2>2. t[1] = F[6] /\ t[2] = F[7]
    BY DEF Save, Restore, set_plane, FontPart
  <2> HIDE DEF F, t
  <2>3. \A j \in 1 .. 2 : t[j] = F[5 + j]
    BY <2>2
  <2> HIDE DEF w3
  <2>4. 5 \in Nat /\ 2 \in Nat /\ 5 + 2 = 7
    OBVIOUS
  <2>5. Begins(w3 \o t, F, 5 + 2)
    BY <1>4, <2>1, <2>3, <2>4, GoesOn
  <2> QED
    BY <2>4, <2>5 DEF t
<1>6. Begins(w5, F, 9)
  <2> DEFINE t == Save("gc", 5, "gc5")
  <2>1. t \in Seq(Accesses) /\ Len(t) = 2
    BY AccessKinds DEF Save, Restore, set_plane, Units
  <2>2. t[1] = F[8] /\ t[2] = F[9]
    BY DEF Save, Restore, set_plane, FontPart
  <2> HIDE DEF F, t
  <2>3. \A j \in 1 .. 2 : t[j] = F[7 + j]
    BY <2>2
  <2> HIDE DEF w4
  <2>4. 7 \in Nat /\ 2 \in Nat /\ 7 + 2 = 9
    OBVIOUS
  <2>5. Begins(w4 \o t, F, 7 + 2)
    BY <1>5, <2>1, <2>3, <2>4, GoesOn
  <2> QED
    BY <2>4, <2>5 DEF t
<1>7. Begins(w6, F, 10)
  <2> DEFINE t == <<OutLocal("gc", "gc5", 0, 16)>>
  <2>1. t \in Seq(Accesses) /\ Len(t) = 1
    BY AccessKinds DEF Save, Restore, set_plane, Units
  <2>2. t[1] = F[10]
    BY DEF Save, Restore, set_plane, FontPart
  <2> HIDE DEF F, t
  <2>3. \A j \in 1 .. 1 : t[j] = F[9 + j]
    BY <2>2
  <2> HIDE DEF w5
  <2>4. 9 \in Nat /\ 1 \in Nat /\ 9 + 1 = 10
    OBVIOUS
  <2>5. Begins(w5 \o t, F, 9 + 1)
    BY <1>6, <2>1, <2>3, <2>4, GoesOn
  <2> QED
    BY <2>4, <2>5 DEF t
<1>8. Begins(w7, F, 12)
  <2> DEFINE t == Save("gc", 6, "gc6")
  <2>1. t \in Seq(Accesses) /\ Len(t) = 2
    BY AccessKinds DEF Save, Restore, set_plane, Units
  <2>2. t[1] = F[11] /\ t[2] = F[12]
    BY DEF Save, Restore, set_plane, FontPart
  <2> HIDE DEF F, t
  <2>3. \A j \in 1 .. 2 : t[j] = F[10 + j]
    BY <2>2
  <2> HIDE DEF w6
  <2>4. 10 \in Nat /\ 2 \in Nat /\ 10 + 2 = 12
    OBVIOUS
  <2>5. Begins(w6 \o t, F, 10 + 2)
    BY <1>7, <2>1, <2>3, <2>4, GoesOn
  <2> QED
    BY <2>4, <2>5 DEF t
<1>9. Begins(w8, F, 13)
  <2> DEFINE t == <<OutLocal("gc", "gc6", 0, 2)>>
  <2>1. t \in Seq(Accesses) /\ Len(t) = 1
    BY AccessKinds DEF Save, Restore, set_plane, Units
  <2>2. t[1] = F[13]
    BY DEF Save, Restore, set_plane, FontPart
  <2> HIDE DEF F, t
  <2>3. \A j \in 1 .. 1 : t[j] = F[12 + j]
    BY <2>2
  <2> HIDE DEF w7
  <2>4. 12 \in Nat /\ 1 \in Nat /\ 12 + 1 = 13
    OBVIOUS
  <2>5. Begins(w7 \o t, F, 12 + 1)
    BY <1>8, <2>1, <2>3, <2>4, GoesOn
  <2> QED
    BY <2>4, <2>5 DEF t
<1>10. Begins(w9, F, 17)
  <2> DEFINE t == set_plane(2)
  <2>1. t \in Seq(Accesses) /\ Len(t) = 4
    BY AccessKinds DEF Save, Restore, set_plane, Units
  <2>2. t[1] = F[14] /\ t[2] = F[15] /\ t[3] = F[16] /\ t[4] = F[17]
    BY DEF Save, Restore, set_plane, FontPart
  <2> HIDE DEF F, t
  <2>3. \A j \in 1 .. 4 : t[j] = F[13 + j]
    BY <2>2
  <2> HIDE DEF w8
  <2>4. 13 \in Nat /\ 4 \in Nat /\ 13 + 4 = 17
    OBVIOUS
  <2>5. Begins(w8 \o t, F, 13 + 4)
    BY <1>9, <2>1, <2>3, <2>4, GoesOn
  <2> QED
    BY <2>4, <2>5 DEF t
<1>11. Begins(w10, F, 18)
  <2> DEFINE t == <<LoadFont(height)>>
  <2>1. t \in Seq(Accesses) /\ Len(t) = 1
    BY AccessKinds DEF Save, Restore, set_plane, Units
  <2>2. t[1] = F[18]
    BY DEF Save, Restore, set_plane, FontPart
  <2> HIDE DEF F, t
  <2>3. \A j \in 1 .. 1 : t[j] = F[17 + j]
    BY <2>2
  <2> HIDE DEF w9
  <2>4. 17 \in Nat /\ 1 \in Nat /\ 17 + 1 = 18
    OBVIOUS
  <2>5. Begins(w9 \o t, F, 17 + 1)
    BY <1>10, <2>1, <2>3, <2>4, GoesOn
  <2> QED
    BY <2>4, <2>5 DEF t
<1>12. Begins(w11, F, 20)
  <2> DEFINE t == Restore("seq", 2, "seq2")
  <2>1. t \in Seq(Accesses) /\ Len(t) = 2
    BY AccessKinds DEF Save, Restore, set_plane, Units
  <2>2. t[1] = F[19] /\ t[2] = F[20]
    BY DEF Save, Restore, set_plane, FontPart
  <2> HIDE DEF F, t
  <2>3. \A j \in 1 .. 2 : t[j] = F[18 + j]
    BY <2>2
  <2> HIDE DEF w10
  <2>4. 18 \in Nat /\ 2 \in Nat /\ 18 + 2 = 20
    OBVIOUS
  <2>5. Begins(w10 \o t, F, 18 + 2)
    BY <1>11, <2>1, <2>3, <2>4, GoesOn
  <2> QED
    BY <2>4, <2>5 DEF t
<1>13. Begins(w12, F, 22)
  <2> DEFINE t == Restore("seq", 4, "seq4")
  <2>1. t \in Seq(Accesses) /\ Len(t) = 2
    BY AccessKinds DEF Save, Restore, set_plane, Units
  <2>2. t[1] = F[21] /\ t[2] = F[22]
    BY DEF Save, Restore, set_plane, FontPart
  <2> HIDE DEF F, t
  <2>3. \A j \in 1 .. 2 : t[j] = F[20 + j]
    BY <2>2
  <2> HIDE DEF w11
  <2>4. 20 \in Nat /\ 2 \in Nat /\ 20 + 2 = 22
    OBVIOUS
  <2>5. Begins(w11 \o t, F, 20 + 2)
    BY <1>12, <2>1, <2>3, <2>4, GoesOn
  <2> QED
    BY <2>4, <2>5 DEF t
<1>14. Begins(w13, F, 24)
  <2> DEFINE t == Restore("gc", 4, "gc4")
  <2>1. t \in Seq(Accesses) /\ Len(t) = 2
    BY AccessKinds DEF Save, Restore, set_plane, Units
  <2>2. t[1] = F[23] /\ t[2] = F[24]
    BY DEF Save, Restore, set_plane, FontPart
  <2> HIDE DEF F, t
  <2>3. \A j \in 1 .. 2 : t[j] = F[22 + j]
    BY <2>2
  <2> HIDE DEF w12
  <2>4. 22 \in Nat /\ 2 \in Nat /\ 22 + 2 = 24
    OBVIOUS
  <2>5. Begins(w12 \o t, F, 22 + 2)
    BY <1>13, <2>1, <2>3, <2>4, GoesOn
  <2> QED
    BY <2>4, <2>5 DEF t
<1>15. Begins(w14, F, 26)
  <2> DEFINE t == Restore("gc", 5, "gc5")
  <2>1. t \in Seq(Accesses) /\ Len(t) = 2
    BY AccessKinds DEF Save, Restore, set_plane, Units
  <2>2. t[1] = F[25] /\ t[2] = F[26]
    BY DEF Save, Restore, set_plane, FontPart
  <2> HIDE DEF F, t
  <2>3. \A j \in 1 .. 2 : t[j] = F[24 + j]
    BY <2>2
  <2> HIDE DEF w13
  <2>4. 24 \in Nat /\ 2 \in Nat /\ 24 + 2 = 26
    OBVIOUS
  <2>5. Begins(w13 \o t, F, 24 + 2)
    BY <1>14, <2>1, <2>3, <2>4, GoesOn
  <2> QED
    BY <2>4, <2>5 DEF t
<1>16. Begins(w15, F, 28)
  <2> DEFINE t == Restore("gc", 6, "gc6")
  <2>1. t \in Seq(Accesses) /\ Len(t) = 2
    BY AccessKinds DEF Save, Restore, set_plane, Units
  <2>2. t[1] = F[27] /\ t[2] = F[28]
    BY DEF Save, Restore, set_plane, FontPart
  <2> HIDE DEF F, t
  <2>3. \A j \in 1 .. 2 : t[j] = F[26 + j]
    BY <2>2
  <2> HIDE DEF w14
  <2>4. 26 \in Nat /\ 2 \in Nat /\ 26 + 2 = 28
    OBVIOUS
  <2>5. Begins(w14 \o t, F, 26 + 2)
    BY <1>15, <2>1, <2>3, <2>4, GoesOn
  <2> QED
    BY <2>4, <2>5 DEF t
<1> HIDE DEF F
<1>17. w15 = F
  <2> HIDE DEF w15
  <2> QED
    BY <1>1, <1>16, SeqEqual DEF Begins
<1> QED
  BY <1>1, <1>17 DEF write_font, F

-----------------------------------------------------------------------------
(* The tables of a mode agree with its size, and leave text and font apart. *)
Fits(m) ==
  LET r == Registers(m.regs) IN
  /\ r \in RegisterSets
  /\ r.seq[2] = 3 /\ r.seq[4] = 2 /\ r.gc[5] = 16 /\ r.gc[6] = 14
  /\ r.crtc[17] \in 0 .. 255
  /\ m.cols \in 1 .. 90 /\ m.rows \in 1 .. 60
  /\ m.cols = r.crtc[1] + 1 /\ m.cols = r.crtc[19] * 2
  /\ LET height == (r.crtc[9] % 32) + 1 IN
       /\ FontFor(m.ht) = height /\ height \in 1 .. 32
       /\ m.rows * height = 1 + r.crtc[18] + (IF Has(r.crtc[7], 2) THEN 256 ELSE 0)
                              + (IF Has(r.crtc[7], 64) THEN 512 ELSE 0)

(* Any 61 numbers are the registers of some mode. *)
LEMMA RegistersAre ==
  ASSUME NEW regs, \A i \in 1 .. 61 : regs[i] \in Int
  PROVE  Registers(regs) \in RegisterSets
<1>1. Part(regs, 1, 1) \in [0 .. 0 -> Int]
  BY DEF Part
<1>2. Part(regs, 2, 5) \in [0 .. 4 -> Int]
  BY DEF Part
<1>3. Part(regs, 7, 25) \in [0 .. 24 -> Int]
  BY DEF Part
<1>4. Part(regs, 32, 9) \in [0 .. 8 -> Int]
  BY DEF Part
<1>5. Part(regs, 41, 21) \in [0 .. 20 -> Int]
  BY DEF Part
<1> QED
  BY <1>1, <1>2, <1>3, <1>4, <1>5 DEF Registers, RegisterSets

(* The registers that the text and the size depend on. *)
LEMMA RegisterAt ==
  ASSUME NEW regs
  PROVE  LET r == Registers(regs) IN
         /\ r.seq[2] = regs[4] /\ r.seq[4] = regs[6]
         /\ r.gc[5] = regs[37] /\ r.gc[6] = regs[38]
         /\ r.crtc[1] = regs[8] /\ r.crtc[7] = regs[14] /\ r.crtc[9] = regs[16]
         /\ r.crtc[17] = regs[24] /\ r.crtc[18] = regs[25] /\ r.crtc[19] = regs[26]
<1>1. 2 + 2 = 4 /\ 2 + 4 = 6 /\ 32 + 5 = 37 /\ 32 + 6 = 38 /\ 7 + 1 = 8 /\ 7 + 7 = 14 /\ 7 + 9 = 16
      /\ 7 + 17 = 24 /\ 7 + 18 = 25 /\ 7 + 19 = 26
  OBVIOUS
<1> QED
  BY <1>1 DEF Registers, Part

(* The six tables have the length their loops expect. *)
LEMMA ModesFit ==
  ASSUME NEW m \in {Mode(g_40x25_text, 40, 25, 16), Mode(g_40x50_text, 40, 50, 8),
                    Mode(g_80x50_text, 80, 50, 8), Mode(g_90x30_text, 90, 30, 16),
                    Mode(g_90x60_text, 90, 60, 8), Mode(g_80x25_text, 80, 25, 16)}
  PROVE  Fits(m)
<1>1. Fits(Mode(g_40x25_text, 40, 25, 16))
  <2>1. \A i \in 1 .. 61 : g_40x25_text[i] \in Int
    BY DEF g_40x25_text
  <2>2. /\ g_40x25_text[4] = 3 /\ g_40x25_text[6] = 2 /\ g_40x25_text[37] = 16 /\ g_40x25_text[38] = 14
        /\ g_40x25_text[8] = 39 /\ g_40x25_text[14] = 31 /\ g_40x25_text[16] = 79
        /\ g_40x25_text[24] = 142 /\ g_40x25_text[25] = 143 /\ g_40x25_text[26] = 20
    BY DEF g_40x25_text
  <2> DEFINE regs == g_40x25_text
             r == Registers(regs)
  <2> HIDE DEF regs
  <2>3. r \in RegisterSets
    BY <2>1, RegistersAre DEF regs
  <2>4. /\ r.seq[2] = 3 /\ r.seq[4] = 2 /\ r.gc[5] = 16 /\ r.gc[6] = 14
        /\ r.crtc[1] = 39 /\ r.crtc[7] = 31 /\ r.crtc[9] = 79
        /\ r.crtc[17] = 142 /\ r.crtc[18] = 143 /\ r.crtc[19] = 20
    BY <2>2, RegisterAt DEF regs
  <2> HIDE DEF r
  <2>5. LET q == Mode(regs, 40, 25, 16) IN
        q.regs = regs /\ q.cols = 40 /\ q.rows = 25 /\ q.ht = 16 /\ Registers(q.regs) = r
    BY DEF Mode, r
  <2> QED
    BY <2>3, <2>4, <2>5 DEF Fits, FontFor, Has, regs
<1>2. Fits(Mode(g_40x50_text, 40, 50, 8))
  <2>1. \A i \in 1 .. 61 : g_40x50_text[i] \in Int
    BY DEF g_40x50_text
  <2>2. /\ g_40x50_text[4] = 3 /\ g_40x50_text[6] = 2 /\ g_40x50_text[37] = 16 /\ g_40x50_text[38] = 14
        /\ g_40x50_text[8] = 39 /\ g_40x50_text[14] = 31 /\ g_40x50_text[16] = 71
        /\ g_40x50_text[24] = 142 /\ g_40x50_text[25] = 143 /\ g_40x50_text[26] = 20
    BY DEF g_40x50_text
  <2> DEFINE regs == g_40x50_text
             r == Registers(regs)
  <2> HIDE DEF regs
  <2>3. r \in RegisterSets
    BY <2>1, RegistersAre DEF regs
  <2>4. /\ r.seq[2] = 3 /\ r.seq[4] = 2 /\ r.gc[5] = 16 /\ r.gc[6] = 14
        /\ r.crtc[1] = 39 /\ r.crtc[7] = 31 /\ r.crtc[9] = 71
        /\ r.crtc[17] = 142 /\ r.crtc[18] = 143 /\ r.crtc[19] = 20
    BY <2>2, RegisterAt DEF regs
  <2> HIDE DEF r
  <2>5. LET q == Mode(regs, 40, 50, 8) IN
        q.regs = regs /\ q.cols = 40 /\ q.rows = 50 /\ q.ht = 8 /\ Registers(q.regs) = r
    BY DEF Mode, r
  <2> QED
    BY <2>3, <2>4, <2>5 DEF Fits, FontFor, Has, regs
<1>3. Fits(Mode(g_80x50_text, 80, 50, 8))
  <2>1. \A i \in 1 .. 61 : g_80x50_text[i] \in Int
    BY DEF g_80x50_text
  <2>2. /\ g_80x50_text[4] = 3 /\ g_80x50_text[6] = 2 /\ g_80x50_text[37] = 16 /\ g_80x50_text[38] = 14
        /\ g_80x50_text[8] = 79 /\ g_80x50_text[14] = 31 /\ g_80x50_text[16] = 71
        /\ g_80x50_text[24] = 142 /\ g_80x50_text[25] = 143 /\ g_80x50_text[26] = 40
    BY DEF g_80x50_text
  <2> DEFINE regs == g_80x50_text
             r == Registers(regs)
  <2> HIDE DEF regs
  <2>3. r \in RegisterSets
    BY <2>1, RegistersAre DEF regs
  <2>4. /\ r.seq[2] = 3 /\ r.seq[4] = 2 /\ r.gc[5] = 16 /\ r.gc[6] = 14
        /\ r.crtc[1] = 79 /\ r.crtc[7] = 31 /\ r.crtc[9] = 71
        /\ r.crtc[17] = 142 /\ r.crtc[18] = 143 /\ r.crtc[19] = 40
    BY <2>2, RegisterAt DEF regs
  <2> HIDE DEF r
  <2>5. LET q == Mode(regs, 80, 50, 8) IN
        q.regs = regs /\ q.cols = 80 /\ q.rows = 50 /\ q.ht = 8 /\ Registers(q.regs) = r
    BY DEF Mode, r
  <2> QED
    BY <2>3, <2>4, <2>5 DEF Fits, FontFor, Has, regs
<1>4. Fits(Mode(g_90x30_text, 90, 30, 16))
  <2>1. \A i \in 1 .. 61 : g_90x30_text[i] \in Int
    BY DEF g_90x30_text
  <2>2. /\ g_90x30_text[4] = 3 /\ g_90x30_text[6] = 2 /\ g_90x30_text[37] = 16 /\ g_90x30_text[38] = 14
        /\ g_90x30_text[8] = 89 /\ g_90x30_text[14] = 62 /\ g_90x30_text[16] = 79
        /\ g_90x30_text[24] = 12 /\ g_90x30_text[25] = 223 /\ g_90x30_text[26] = 45
    BY DEF g_90x30_text
  <2> DEFINE regs == g_90x30_text
             r == Registers(regs)
  <2> HIDE DEF regs
  <2>3. r \in RegisterSets
    BY <2>1, RegistersAre DEF regs
  <2>4. /\ r.seq[2] = 3 /\ r.seq[4] = 2 /\ r.gc[5] = 16 /\ r.gc[6] = 14
        /\ r.crtc[1] = 89 /\ r.crtc[7] = 62 /\ r.crtc[9] = 79
        /\ r.crtc[17] = 12 /\ r.crtc[18] = 223 /\ r.crtc[19] = 45
    BY <2>2, RegisterAt DEF regs
  <2> HIDE DEF r
  <2>5. LET q == Mode(regs, 90, 30, 16) IN
        q.regs = regs /\ q.cols = 90 /\ q.rows = 30 /\ q.ht = 16 /\ Registers(q.regs) = r
    BY DEF Mode, r
  <2> QED
    BY <2>3, <2>4, <2>5 DEF Fits, FontFor, Has, regs
<1>5. Fits(Mode(g_90x60_text, 90, 60, 8))
  <2>1. \A i \in 1 .. 61 : g_90x60_text[i] \in Int
    BY DEF g_90x60_text
  <2>2. /\ g_90x60_text[4] = 3 /\ g_90x60_text[6] = 2 /\ g_90x60_text[37] = 16 /\ g_90x60_text[38] = 14
        /\ g_90x60_text[8] = 89 /\ g_90x60_text[14] = 62 /\ g_90x60_text[16] = 71
        /\ g_90x60_text[24] = 12 /\ g_90x60_text[25] = 223 /\ g_90x60_text[26] = 45
    BY DEF g_90x60_text
  <2> DEFINE regs == g_90x60_text
             r == Registers(regs)
  <2> HIDE DEF regs
  <2>3. r \in RegisterSets
    BY <2>1, RegistersAre DEF regs
  <2>4. /\ r.seq[2] = 3 /\ r.seq[4] = 2 /\ r.gc[5] = 16 /\ r.gc[6] = 14
        /\ r.crtc[1] = 89 /\ r.crtc[7] = 62 /\ r.crtc[9] = 71
        /\ r.crtc[17] = 12 /\ r.crtc[18] = 223 /\ r.crtc[19] = 45
    BY <2>2, RegisterAt DEF regs
  <2> HIDE DEF r
  <2>5. LET q == Mode(regs, 90, 60, 8) IN
        q.regs = regs /\ q.cols = 90 /\ q.rows = 60 /\ q.ht = 8 /\ Registers(q.regs) = r
    BY DEF Mode, r
  <2> QED
    BY <2>3, <2>4, <2>5 DEF Fits, FontFor, Has, regs
<1>6. Fits(Mode(g_80x25_text, 80, 25, 16))
  <2>1. \A i \in 1 .. 61 : g_80x25_text[i] \in Int
    BY DEF g_80x25_text
  <2>2. /\ g_80x25_text[4] = 3 /\ g_80x25_text[6] = 2 /\ g_80x25_text[37] = 16 /\ g_80x25_text[38] = 14
        /\ g_80x25_text[8] = 79 /\ g_80x25_text[14] = 31 /\ g_80x25_text[16] = 79
        /\ g_80x25_text[24] = 14 /\ g_80x25_text[25] = 143 /\ g_80x25_text[26] = 40
    BY DEF g_80x25_text
  <2> DEFINE regs == g_80x25_text
             r == Registers(regs)
  <2> HIDE DEF regs
  <2>3. r \in RegisterSets
    BY <2>1, RegistersAre DEF regs
  <2>4. /\ r.seq[2] = 3 /\ r.seq[4] = 2 /\ r.gc[5] = 16 /\ r.gc[6] = 14
        /\ r.crtc[1] = 79 /\ r.crtc[7] = 31 /\ r.crtc[9] = 79
        /\ r.crtc[17] = 14 /\ r.crtc[18] = 143 /\ r.crtc[19] = 40
    BY <2>2, RegisterAt DEF regs
  <2> HIDE DEF r
  <2>5. LET q == Mode(regs, 80, 25, 16) IN
        q.regs = regs /\ q.cols = 80 /\ q.rows = 25 /\ q.ht = 16 /\ Registers(q.regs) = r
    BY DEF Mode, r
  <2> QED
    BY <2>3, <2>4, <2>5 DEF Fits, FontFor, Has, regs
<1> QED
  BY <1>1, <1>2, <1>3, <1>4, <1>5, <1>6

(* The registers and the height of the font of a call. *)
Wanted(mode) == Registers(TextMode(mode).regs)

Height(mode) == FontFor(TextMode(mode).ht)

(* Every text mode programs one of the six tables. *)
LEMMA ModeFits == ASSUME NEW mode PROVE Fits(TextMode(mode)) /\ Wanted(mode) \in RegisterSets
<1>1. TextMode(mode) \in {Mode(g_40x25_text, 40, 25, 16), Mode(g_40x50_text, 40, 50, 8),
                          Mode(g_80x50_text, 80, 50, 8), Mode(g_90x30_text, 90, 30, 16),
                          Mode(g_90x60_text, 90, 60, 8), Mode(g_80x25_text, 80, 25, 16)}
  BY DEF TextMode
<1>2. Fits(TextMode(mode))
  BY <1>1, ModesFit
<1> QED
  BY <1>2 DEF Fits, Wanted

(* A sequence of len accesses. *)
Long(w, len) == w \in Seq(Accesses) /\ Len(w) = len

(* Lengths add up. *)
LEMMA Longer ==
  ASSUME NEW len \in Nat, NEW m \in Nat, NEW s, NEW t, Long(s, len), Long(t, m)
  PROVE  Long(s \o t, len + m)
BY Concatenated DEF Long

(* p holds s at its beginning, t behind place len. *)
Leads(p, s, len) == \A i \in 1 .. len : p[i] = s[i]

Goes(p, len, t, m) == \A j \in 1 .. m : p[len + j] = t[j]

(* What a concatenation starts with, and what follows. *)
LEMMA Laid ==
  ASSUME NEW len \in Nat, NEW m \in Nat, NEW s, NEW t, Long(s, len), Long(t, m), NEW p, Leads(p, s \o t, len + m)
  PROVE  Leads(p, s, len) /\ Goes(p, len, t, m)
<1>1. \A i \in 1 .. len + m : p[i] = IF i <= len THEN s[i] ELSE t[i - len]
  BY Concatenated DEF Long, Leads
<1>2. ASSUME NEW j \in 1 .. m
      PROVE  p[len + j] = t[j]
  <2>1. len + j \in 1 .. len + m /\ ~(len + j <= len) /\ (len + j) - len = j
    OBVIOUS
  <2> QED
    BY <1>1, <2>1
<1> QED
  BY <1>1, <1>2 DEF Leads, Goes

(* The accesses of set_text_mode, by their place. *)
Placed(p, mode) ==
  LET r == Wanted(mode) IN
  /\ Len(p) = 179
  /\ p[1] = Out("misc", "data", r.misc[0])
  /\ \A k \in 0 .. 4 : /\ p[1 + (2 * k + 1)] = Out("seq", "index", k)
                       /\ p[1 + (2 * k + 2)] = Out("seq", "data", r.seq[k])
  /\ \A j \in 1 .. 6 : p[11 + j] = UnlockCrtc[j]
  /\ \A k \in 0 .. 24 : /\ p[17 + (2 * k + 1)] = Out("crtc", "index", k)
                        /\ p[17 + (2 * k + 2)] = Out("crtc", "data", StayUnlocked(r.crtc)[k])
  /\ \A k \in 0 .. 8 : /\ p[67 + (2 * k + 1)] = Out("gc", "index", k)
                       /\ p[67 + (2 * k + 2)] = Out("gc", "data", r.gc[k])
  /\ \A k \in 0 .. 20 : /\ p[85 + (3 * k + 1)] = InstatRead
                        /\ p[85 + (3 * k + 2)] = Out("ac", "both", k)
                        /\ p[85 + (3 * k + 3)] = Out("ac", "both", r.ac[k])
  /\ p[149] = InstatRead /\ p[150] = Out("ac", "both", 32)
  /\ \A j \in 1 .. 28 : p[150 + j] = FontPart(Height(mode))[j]
  /\ p[179] = SetSize(TextMode(mode).cols, TextMode(mode).rows)

(* Each access of set_text_mode is at its place among the 179. *)
LEMMA CallPlaced ==
  ASSUME NEW mode
  PROVE  Placed(set_text_mode(mode), mode)
<1> DEFINE
     r == Wanted(mode)
     t1 == <<Out("misc", "data", r.misc[0])>>
     t2 == Indexed("seq", r.seq)
     t3 == UnlockCrtc
     t4 == Indexed("crtc", StayUnlocked(r.crtc))
     t5 == Indexed("gc", r.gc)
     t6 == Attributes(r.ac)
     t7 == Unblank
     t8 == write_font(Height(mode))
     t9 == <<SetSize(TextMode(mode).cols, TextMode(mode).rows)>>
     w2 == t1 \o t2
     w3 == w2 \o t3
     w4 == w3 \o t4
     w5 == w4 \o t5
     w6 == w5 \o t6
     w7 == w6 \o t7
     w8 == w7 \o t8
     w9 == w8 \o t9
<1>1. r \in RegisterSets /\ Fits(TextMode(mode))
  BY ModeFits
<1>2. /\ r.misc \in [0 .. 0 -> Int] /\ r.seq \in [0 .. 4 -> Int] /\ r.crtc \in [0 .. 24 -> Int]
      /\ r.gc \in [0 .. 8 -> Int] /\ r.ac \in [0 .. 20 -> Int]
  BY <1>1 DEF RegisterSets
<1>3. Height(mode) \in Int /\ TextMode(mode).cols \in Int /\ TextMode(mode).rows \in Int
  BY <1>1 DEF Fits, Height
<1>4. set_text_mode(mode) = w9
  BY DEF set_text_mode, write_regs, Wanted, Height
<1>5. StayUnlocked(r.crtc) \in [0 .. 24 -> Int]
  BY <1>2 DEF StayUnlocked, With, Without
<1>6. {"misc", "seq", "crtc", "gc", "ac"} = Units
  BY DEF Units
<1> HIDE DEF r
<1>11. Long(t1, 1)
  <2>1. r.misc[0] \in Int /\ "misc" \in Units
    BY <1>2, <1>6
  <2>2. Out("misc", "data", r.misc[0]) \in Accesses
    BY <2>1, AccessKinds
  <2> QED
    BY <2>2 DEF Long
<1>12. Long(t2, 10) /\ Pairs(t2, "seq", 5, r.seq)
  <2>1. 5 \in Nat \ {0} /\ 2 * 5 = 10 /\ "seq" \in Units
    BY <1>6
  <2>2. r.seq \in Tables(5)
    BY <1>2 DEF Tables
  <2>3. Pairs(t2, "seq", 5, r.seq)
    BY <2>1, <2>2, IndexedAccesses
  <2> QED
    BY <2>1, <2>3 DEF Pairs, Long
<1>13. Long(t3, 6)
  BY UnlockAccesses DEF Long
<1>14. Long(t4, 50) /\ Pairs(t4, "crtc", 25, StayUnlocked(r.crtc))
  <2>1. 25 \in Nat \ {0} /\ 2 * 25 = 50 /\ "crtc" \in Units
    BY <1>6
  <2>2. StayUnlocked(r.crtc) \in Tables(25)
    BY <1>5 DEF Tables
  <2>3. Pairs(t4, "crtc", 25, StayUnlocked(r.crtc))
    BY <2>1, <2>2, IndexedAccesses
  <2> QED
    BY <2>1, <2>3 DEF Pairs, Long
<1>15. Long(t5, 18) /\ Pairs(t5, "gc", 9, r.gc)
  <2>1. 9 \in Nat \ {0} /\ 2 * 9 = 18 /\ "gc" \in Units
    BY <1>6
  <2>2. r.gc \in Tables(9)
    BY <1>2 DEF Tables
  <2>3. Pairs(t5, "gc", 9, r.gc)
    BY <2>1, <2>2, IndexedAccesses
  <2> QED
    BY <2>1, <2>3 DEF Pairs, Long
<1>16. Long(t6, 63) /\ Triples(t6, 21, r.ac)
  <2>1. 21 \in Nat \ {0} /\ 3 * 21 = 63
    OBVIOUS
  <2>2. r.ac \in Tables(21)
    BY <1>2 DEF Tables
  <2>3. Triples(t6, 21, r.ac)
    BY <2>1, <2>2, AttributeAccesses
  <2> QED
    BY <2>1, <2>3 DEF Triples, Long
<1>17. Long(t7, 2)
  BY AccessKinds DEF Unblank, Units, Long
<1>18. t8 = FontPart(Height(mode)) /\ Long(t8, 28)
  BY <1>3, FontAccesses DEF Long
<1>19. Long(t9, 1)
  <2>1. SetSize(TextMode(mode).cols, TextMode(mode).rows) \in Accesses
    BY <1>3, AccessKinds
  <2> QED
    BY <2>1 DEF Long
<1> HIDE DEF t1, t2, t3, t4, t5, t6, t7, t8, t9
<1>22. Long(w2, 11)
  <2>1. 1 \in Nat /\ 10 \in Nat /\ 1 + 10 = 11
    OBVIOUS
  <2> HIDE DEF t1
  <2> QED
    BY <1>11, <1>12, <2>1, Longer
<1> HIDE DEF w2
<1>23. Long(w3, 17)
  <2>1. 11 \in Nat /\ 6 \in Nat /\ 11 + 6 = 17
    OBVIOUS
  <2> HIDE DEF w2
  <2> QED
    BY <1>22, <1>13, <2>1, Longer
<1> HIDE DEF w3
<1>24. Long(w4, 67)
  <2>1. 17 \in Nat /\ 50 \in Nat /\ 17 + 50 = 67
    OBVIOUS
  <2> HIDE DEF w3
  <2> QED
    BY <1>23, <1>14, <2>1, Longer
<1> HIDE DEF w4
<1>25. Long(w5, 85)
  <2>1. 67 \in Nat /\ 18 \in Nat /\ 67 + 18 = 85
    OBVIOUS
  <2> HIDE DEF w4
  <2> QED
    BY <1>24, <1>15, <2>1, Longer
<1> HIDE DEF w5
<1>26. Long(w6, 148)
  <2>1. 85 \in Nat /\ 63 \in Nat /\ 85 + 63 = 148
    OBVIOUS
  <2> HIDE DEF w5
  <2> QED
    BY <1>25, <1>16, <2>1, Longer
<1> HIDE DEF w6
<1>27. Long(w7, 150)
  <2>1. 148 \in Nat /\ 2 \in Nat /\ 148 + 2 = 150
    OBVIOUS
  <2> HIDE DEF w6
  <2> QED
    BY <1>26, <1>17, <2>1, Longer
<1> HIDE DEF w7
<1>28. Long(w8, 178)
  <2>1. 150 \in Nat /\ 28 \in Nat /\ 150 + 28 = 178
    OBVIOUS
  <2> HIDE DEF w7
  <2> QED
    BY <1>27, <1>18, <2>1, Longer
<1> HIDE DEF w8
<1>29. Long(w9, 179)
  <2>1. 178 \in Nat /\ 1 \in Nat /\ 178 + 1 = 179
    OBVIOUS
  <2> HIDE DEF w8
  <2> QED
    BY <1>28, <1>19, <2>1, Longer
<1> HIDE DEF w9
<1> DEFINE p == w9
<1> HIDE DEF p
<1>39. Leads(p, w9, 179)
  BY DEF p, Leads
<1>38. Leads(p, w8, 178) /\ Goes(p, 178, t9, 1)
  <2>1. 178 + 1 = 179 /\ 178 \in Nat /\ 1 \in Nat
    OBVIOUS
  <2>2. Leads(p, w8 \o t9, 178 + 1)
    BY <1>39, <2>1 DEF w9
  <2>3. Long(w8, 178) /\ Long(t9, 1)
    BY <1>28, <1>19
  <2> QED
    BY <2>1, <2>2, <2>3, Laid
<1>37. Leads(p, w7, 150) /\ Goes(p, 150, t8, 28)
  <2>1. 150 + 28 = 178 /\ 150 \in Nat /\ 28 \in Nat
    OBVIOUS
  <2>2. Leads(p, w7 \o t8, 150 + 28)
    BY <1>38, <2>1 DEF w8
  <2>3. Long(w7, 150) /\ Long(t8, 28)
    BY <1>27, <1>18
  <2> QED
    BY <2>1, <2>2, <2>3, Laid
<1>36. Leads(p, w6, 148) /\ Goes(p, 148, t7, 2)
  <2>1. 148 + 2 = 150 /\ 148 \in Nat /\ 2 \in Nat
    OBVIOUS
  <2>2. Leads(p, w6 \o t7, 148 + 2)
    BY <1>37, <2>1 DEF w7
  <2>3. Long(w6, 148) /\ Long(t7, 2)
    BY <1>26, <1>17
  <2> QED
    BY <2>1, <2>2, <2>3, Laid
<1>35. Leads(p, w5, 85) /\ Goes(p, 85, t6, 63)
  <2>1. 85 + 63 = 148 /\ 85 \in Nat /\ 63 \in Nat
    OBVIOUS
  <2>2. Leads(p, w5 \o t6, 85 + 63)
    BY <1>36, <2>1 DEF w6
  <2>3. Long(w5, 85) /\ Long(t6, 63)
    BY <1>25, <1>16
  <2> QED
    BY <2>1, <2>2, <2>3, Laid
<1>34. Leads(p, w4, 67) /\ Goes(p, 67, t5, 18)
  <2>1. 67 + 18 = 85 /\ 67 \in Nat /\ 18 \in Nat
    OBVIOUS
  <2>2. Leads(p, w4 \o t5, 67 + 18)
    BY <1>35, <2>1 DEF w5
  <2>3. Long(w4, 67) /\ Long(t5, 18)
    BY <1>24, <1>15
  <2> QED
    BY <2>1, <2>2, <2>3, Laid
<1>33. Leads(p, w3, 17) /\ Goes(p, 17, t4, 50)
  <2>1. 17 + 50 = 67 /\ 17 \in Nat /\ 50 \in Nat
    OBVIOUS
  <2>2. Leads(p, w3 \o t4, 17 + 50)
    BY <1>34, <2>1 DEF w4
  <2>3. Long(w3, 17) /\ Long(t4, 50)
    BY <1>23, <1>14
  <2> QED
    BY <2>1, <2>2, <2>3, Laid
<1>32. Leads(p, w2, 11) /\ Goes(p, 11, t3, 6)
  <2>1. 11 + 6 = 17 /\ 11 \in Nat /\ 6 \in Nat
    OBVIOUS
  <2>2. Leads(p, w2 \o t3, 11 + 6)
    BY <1>33, <2>1 DEF w3
  <2>3. Long(w2, 11) /\ Long(t3, 6)
    BY <1>22, <1>13
  <2> QED
    BY <2>1, <2>2, <2>3, Laid
<1>31. Leads(p, t1, 1) /\ Goes(p, 1, t2, 10)
  <2>1. 1 + 10 = 11 /\ 1 \in Nat /\ 10 \in Nat
    OBVIOUS
  <2>2. Leads(p, t1 \o t2, 1 + 10)
    BY <1>32, <2>1 DEF w2
  <2>3. Long(t1, 1) /\ Long(t2, 10)
    BY <1>11, <1>12
  <2> QED
    BY <2>1, <2>2, <2>3, Laid
<1> QED
  <2>1. Len(p) = 179
    BY <1>29 DEF p, Long
  <2>2. p[1] = Out("misc", "data", r.misc[0])
    BY <1>31 DEF t1, Leads
  <2>3. \A k \in 0 .. 4 : /\ p[1 + (2 * k + 1)] = Out("seq", "index", k)
                          /\ p[1 + (2 * k + 2)] = Out("seq", "data", r.seq[k])
    <3>1. \A k \in 0 .. 4 : 2 * k + 1 \in 1 .. 10 /\ 2 * k + 2 \in 1 .. 10
      OBVIOUS
    <3> QED
      BY <1>12, <1>31, <3>1 DEF Pairs, Goes
  <2>4. \A j \in 1 .. 6 : p[11 + j] = UnlockCrtc[j]
    BY <1>32 DEF t3, Goes
  <2>5. \A k \in 0 .. 24 : /\ p[17 + (2 * k + 1)] = Out("crtc", "index", k)
                           /\ p[17 + (2 * k + 2)] = Out("crtc", "data", StayUnlocked(r.crtc)[k])
    <3> SUFFICES ASSUME NEW k \in 0 .. 24
                 PROVE  /\ p[17 + (2 * k + 1)] = Out("crtc", "index", k)
                        /\ p[17 + (2 * k + 2)] = Out("crtc", "data", StayUnlocked(r.crtc)[k])
      OBVIOUS
    <3>1. 2 * k + 1 \in 1 .. 50 /\ 2 * k + 2 \in 1 .. 50 /\ k \in 0 .. (25 - 1)
      OBVIOUS
    <3>2. t4[2 * k + 1] = Out("crtc", "index", k) /\ t4[2 * k + 2] = Out("crtc", "data", StayUnlocked(r.crtc)[k])
      BY <1>14, <3>1 DEF Pairs
    <3>3. p[17 + (2 * k + 1)] = t4[2 * k + 1] /\ p[17 + (2 * k + 2)] = t4[2 * k + 2]
      BY <1>33, <3>1 DEF Goes
    <3> QED
      BY <3>2, <3>3
  <2>6. \A k \in 0 .. 8 : /\ p[67 + (2 * k + 1)] = Out("gc", "index", k)
                           /\ p[67 + (2 * k + 2)] = Out("gc", "data", r.gc[k])
    <3> SUFFICES ASSUME NEW k \in 0 .. 8
                 PROVE  /\ p[67 + (2 * k + 1)] = Out("gc", "index", k)
                        /\ p[67 + (2 * k + 2)] = Out("gc", "data", r.gc[k])
      OBVIOUS
    <3>1. 2 * k + 1 \in 1 .. 18 /\ 2 * k + 2 \in 1 .. 18 /\ k \in 0 .. (9 - 1)
      OBVIOUS
    <3>2. t5[2 * k + 1] = Out("gc", "index", k) /\ t5[2 * k + 2] = Out("gc", "data", r.gc[k])
      BY <1>15, <3>1 DEF Pairs
    <3>3. p[67 + (2 * k + 1)] = t5[2 * k + 1] /\ p[67 + (2 * k + 2)] = t5[2 * k + 2]
      BY <1>34, <3>1 DEF Goes
    <3> QED
      BY <3>2, <3>3
  <2>7. \A k \in 0 .. 20 : /\ p[85 + (3 * k + 1)] = InstatRead
                           /\ p[85 + (3 * k + 2)] = Out("ac", "both", k)
                           /\ p[85 + (3 * k + 3)] = Out("ac", "both", r.ac[k])
    <3> SUFFICES ASSUME NEW k \in 0 .. 20
                 PROVE  /\ p[85 + (3 * k + 1)] = InstatRead
                        /\ p[85 + (3 * k + 2)] = Out("ac", "both", k)
                        /\ p[85 + (3 * k + 3)] = Out("ac", "both", r.ac[k])
      OBVIOUS
    <3>1. /\ 3 * k + 1 \in 1 .. 63 /\ 3 * k + 2 \in 1 .. 63 /\ 3 * k + 3 \in 1 .. 63
          /\ k \in 0 .. (21 - 1)
      OBVIOUS
    <3>2. /\ t6[3 * k + 1] = InstatRead /\ t6[3 * k + 2] = Out("ac", "both", k)
          /\ t6[3 * k + 3] = Out("ac", "both", r.ac[k])
      BY <1>16, <3>1 DEF Triples
    <3>3. /\ p[85 + (3 * k + 1)] = t6[3 * k + 1] /\ p[85 + (3 * k + 2)] = t6[3 * k + 2]
          /\ p[85 + (3 * k + 3)] = t6[3 * k + 3]
      BY <1>35, <3>1 DEF Goes
    <3> QED
      BY <3>2, <3>3
  <2>8. p[149] = InstatRead /\ p[150] = Out("ac", "both", 32)
    <3>1. p[148 + 1] = t7[1] /\ p[148 + 2] = t7[2] /\ 148 + 1 = 149 /\ 148 + 2 = 150
      BY <1>36 DEF Goes
    <3> QED
      BY <3>1 DEF t7, Unblank
  <2>9. \A j \in 1 .. 28 : p[150 + j] = FontPart(Height(mode))[j]
    BY <1>18, <1>37 DEF Goes
  <2>10. p[179] = SetSize(TextMode(mode).cols, TextMode(mode).rows)
    <3>1. p[178 + 1] = t9[1] /\ 178 + 1 = 179
      BY <1>38 DEF Goes
    <3> QED
      BY <3>1 DEF t9
  <2>11. Placed(p, mode)
    BY <2>1, <2>2, <2>3, <2>4, <2>5, <2>6, <2>7, <2>8, <2>9, <2>10 DEF Placed, r
  <2> QED
    BY <1>4, <2>11 DEF p, w9

-----------------------------------------------------------------------------
(* The VGA: its registers and what its ports are set to; and the local     *)
(* variables of set_text_mode and write_font.                              *)
Chips ==
  [regs : RegisterSets, acData : BOOLEAN,
   index : [misc : Int, seq : Int, crtc : Int, gc : Int, ac : Int]]

Locals == [{"seq2", "seq4", "gc4", "gc5", "gc6", "tmp"} -> Int]

-----------------------------------------------------------------------------
(* How far set_text_mode is before the access at place at: what a unit's   *)
(* registers s and its index i are then.  At place 181 it has returned.    *)

SeqAt(at, s, i, wanted) ==
  /\ \A k \in 0 .. 4 :
       /\ at > 2 * k + 3 => s[k] = IF k = 2 /\ at \in 168 .. 170 THEN 4
                                   ELSE IF k = 4 /\ at \in 156 .. 172 THEN With(wanted[4], 4)
                                   ELSE wanted[k]
       /\ at = 2 * k + 3 => i = k
  /\ at \in {152, 167, 170} => i = 2
  /\ at \in {154, 155, 172} => i = 4

CrtcAt(at, s, i, wanted) ==
  /\ s[17] \in 0 .. 255
  /\ at > 17 => ~Has(s[17], 128)
  /\ \A k \in 0 .. 24 :
       /\ at > 2 * k + 19 /\ (at = 181 => k \notin {14, 15}) => s[k] = StayUnlocked(wanted)[k]
       /\ at = 2 * k + 19 => i = k
  /\ at \in {13, 14} => i = 3
  /\ at \in {16, 17} => i = 17

GcAt(at, s, i, wanted) ==
  /\ \A k \in 0 .. 8 :
       /\ at > 2 * k + 69 => s[k] = IF k = 4 /\ at \in 166 .. 174 THEN 2
                                    ELSE IF k = 5 /\ at \in 161 .. 176 THEN Without(wanted[5], 16)
                                    ELSE IF k = 6 /\ at \in 164 .. 178 THEN Without(wanted[6], 2)
                                    ELSE wanted[k]
       /\ at = 2 * k + 69 => i = k
  /\ at \in {157, 165, 174} => i = 4
  /\ at \in {159, 160, 176} => i = 5
  /\ at \in {162, 163, 178} => i = 6

AcAt(at, s, i, data, wanted) ==
  /\ \A k \in 0 .. 20 :
       /\ at > 3 * k + 88 => s[k] = wanted[k]
       /\ at = 3 * k + 87 => ~data
       /\ at = 3 * k + 88 => data /\ i = k
  /\ at = 150 => ~data
  /\ at > 150 => i = 32

LocalsAt(at, l, wanted) ==
  /\ at = 17 => l["tmp"] \in 0 .. 255
  /\ at > 152 => l["seq2"] = wanted.seq[2]
  /\ at > 154 => l["seq4"] = wanted.seq[4]
  /\ at > 157 => l["gc4"] = wanted.gc[4]
  /\ at > 159 => l["gc5"] = wanted.gc[5]
  /\ at > 162 => l["gc6"] = wanted.gc[6]

ChipAt(at, c, l, wanted) ==
  /\ c \in Chips /\ l \in Locals
  /\ c.index.misc = 0
  /\ at > 1 => c.regs.misc[0] = wanted.misc[0]
  /\ SeqAt(at, c.regs.seq, c.index.seq, wanted.seq)
  /\ CrtcAt(at, c.regs.crtc, c.index.crtc, wanted.crtc)
  /\ GcAt(at, c.regs.gc, c.index.gc, wanted.gc)
  /\ AcAt(at, c.regs.ac, c.index.ac, c.acData, wanted.ac)
  /\ LocalsAt(at, l, wanted)

-----------------------------------------------------------------------------
(* Accesses to one unit leave the others as they are. *)

SeqPlaces == 2 .. 11 \cup {151, 153, 155, 166, 167, 169, 170, 171, 172}

CrtcPlaces == {12, 14, 15, 17} \cup 18 .. 67

GcPlaces == 68 .. 85 \cup {156, 158, 160, 161, 163, 164, 165, 173, 174, 175, 176, 177, 178}

AcPlaces == 86 .. 150

LocalPlaces == {16, 152, 154, 157, 159, 162}

(* An access to another unit leaves the sequencer as it was. *)
LEMMA SeqQuiet ==
  ASSUME NEW at \in 1 .. 180, at \notin SeqPlaces, NEW s, NEW i, NEW w, SeqAt(at, s, i, w)
  PROVE  SeqAt(at + 1, s, i, w)
BY DEF SeqPlaces, SeqAt

(* And the CRTC, *)
LEMMA CrtcQuiet ==
  ASSUME NEW at \in 1 .. 180, at \notin CrtcPlaces, NEW s, NEW i, NEW w, CrtcAt(at, s, i, w)
  PROVE  CrtcAt(at + 1, s, i, w)
BY DEF CrtcPlaces, CrtcAt

(* the graphics controller, *)
LEMMA GcQuiet ==
  ASSUME NEW at \in 1 .. 180, at \notin GcPlaces, NEW s, NEW i, NEW w, GcAt(at, s, i, w)
  PROVE  GcAt(at + 1, s, i, w)
BY DEF GcPlaces, GcAt

(* the attribute controller *)
LEMMA AcQuiet ==
  ASSUME NEW at \in 1 .. 180, at \notin AcPlaces, NEW s, NEW i, NEW d, NEW w, AcAt(at, s, i, d, w)
  PROVE  AcAt(at + 1, s, i, d, w)
BY DEF AcPlaces, AcAt

(* and the saved values. *)
LEMMA LocalsQuiet ==
  ASSUME NEW at \in 1 .. 180, at \notin LocalPlaces, NEW l, NEW w, LocalsAt(at, l, w)
  PROVE  LocalsAt(at + 1, l, w)
BY DEF LocalPlaces, LocalsAt

(* Registers are written in turn: the index first, *)
LEMMA SeqIndexed ==
  ASSUME NEW at \in 1 .. 180, NEW s, NEW i, NEW w, SeqAt(at, s, i, w),
         NEW k \in 0 .. 4,
         \/ at = 1 + (2 * k + 1)
         \/ at \in {151, 166, 169} /\ k = 2
         \/ at \in {153, 171} /\ k = 4
  PROVE  SeqAt(at + 1, s, k, w)
BY DEF SeqAt

(* The index written here is the one the next access uses: CRTC. *)
LEMMA CrtcIndexed ==
  ASSUME NEW at \in 1 .. 180, NEW s, NEW i, NEW w, CrtcAt(at, s, i, w),
         NEW k \in 0 .. 24,
         \/ at = 17 + (2 * k + 1)
         \/ at = 12 /\ k = 3
         \/ at = 15 /\ k = 17
  PROVE  CrtcAt(at + 1, s, k, w)
BY DEF CrtcAt

(* Graphics controller. *)
LEMMA GcIndexed ==
  ASSUME NEW at \in 1 .. 180, NEW s, NEW i, NEW w, GcAt(at, s, i, w),
         NEW k \in 0 .. 8,
         \/ at = 67 + (2 * k + 1)
         \/ at \in {156, 164, 173} /\ k = 4
         \/ at \in {158, 175} /\ k = 5
         \/ at \in {161, 177} /\ k = 6
  PROVE  GcAt(at + 1, s, k, w)
BY DEF GcAt

(* and then the value b that belongs to the place. *)
SeqWrite(at, k, b, w) ==
  \/ at = 1 + (2 * k + 2) /\ b = w[k]
  \/ at = 155 /\ k = 4 /\ b = With(w[4], 4)
  \/ at = 167 /\ k = 2 /\ b = 4
  \/ at = 170 /\ k = 2 /\ b = w[2]
  \/ at = 172 /\ k = 4 /\ b = w[4]

GcWrite(at, k, b, w) ==
  \/ at = 67 + (2 * k + 2) /\ b = w[k]
  \/ at = 160 /\ k = 5 /\ b = Without(w[5], 16)
  \/ at = 163 /\ k = 6 /\ b = Without(w[6], 2)
  \/ at = 165 /\ k = 4 /\ b = 2
  \/ at = 174 /\ k = 4 /\ b = w[4]
  \/ at = 176 /\ k = 5 /\ b = w[5]
  \/ at = 178 /\ k = 6 /\ b = w[6]

(* One more register of the sequencer holds its byte. *)
LEMMA SeqWritten ==
  ASSUME NEW at \in 1 .. 180, NEW s \in [0 .. 4 -> Int], NEW i, NEW w, SeqAt(at, s, i, w),
         NEW k \in 0 .. 4, NEW b,
         SeqWrite(at, k, b, w)
  PROVE  i = k /\ SeqAt(at + 1, [s EXCEPT ![i % 32] = b], i, w)
<1>1. i = k
  BY DEF SeqAt, SeqWrite
<1>2. i % 32 = k
  BY <1>1
<1> QED
  BY <1>1, <1>2 DEF SeqAt, SeqWrite

(* One more register of the graphics controller. *)
LEMMA GcWritten ==
  ASSUME NEW at \in 1 .. 180, NEW s \in [0 .. 8 -> Int], NEW i, NEW w, GcAt(at, s, i, w),
         NEW k \in 0 .. 8, NEW b,
         GcWrite(at, k, b, w)
  PROVE  i = k /\ GcAt(at + 1, [s EXCEPT ![i % 32] = b], i, w)
<1>1. i = k
  BY DEF GcAt, GcWrite
<1>2. i % 32 = k
  BY <1>1
<1> QED
  BY <1>1, <1>2 DEF GcAt, GcWrite

(* The CRTC's register k is to be written, with the lock off. *)
CrtcWrite(at, k, b, wanted) ==
  at = 17 + (2 * k + 2) /\ b = StayUnlocked(wanted)[k] /\ wanted[17] \in 0 .. 255

(* One more register of the CRTC, which stays unlocked. *)
LEMMA CrtcWritten ==
  ASSUME NEW at \in 1 .. 180, NEW s \in [0 .. 24 -> Int], NEW i, NEW w \in [0 .. 24 -> Int],
         CrtcAt(at, s, i, w), NEW k \in 0 .. 24, NEW b, CrtcWrite(at, k, b, w)
  PROVE  i = k /\ CrtcAt(at + 1, [s EXCEPT ![i % 32] = b], i, w)
<1>0. at = 17 + (2 * k + 2) /\ b = StayUnlocked(w)[k] /\ w[17] \in 0 .. 255
  BY DEF CrtcWrite
<1>1. i = k
  BY <1>0 DEF CrtcAt
<1>2. i % 32 = k
  BY <1>1
<1>3. StayUnlocked(w)[17] \in 0 .. 127
  BY <1>0 DEF StayUnlocked, Without, Has
<1>4. ~Has(StayUnlocked(w)[17], 128)
  BY <1>3 DEF Has
<1> HIDE DEF StayUnlocked, Has
<1> QED
  BY <1>0, <1>1, <1>2, <1>3, <1>4 DEF CrtcAt

(* The lock is taken off, even if the register does not show its value. *)
LEMMA Unlocked ==
  ASSUME NEW s \in [0 .. 24 -> Int], NEW w, CrtcAt(17, s, 17, w), NEW tmp \in 0 .. 255
  PROVE  CrtcAt(18, [s EXCEPT ![17 % 32] = Without(tmp, 128)], 17, w)
<1>1. Without(tmp, 128) \in 0 .. 127
  BY DEF Without, Has
<1>2. ~Has(Without(tmp, 128), 128)
  BY <1>1 DEF Has
<1> HIDE DEF Has
<1> QED
  BY <1>1, <1>2 DEF CrtcAt

(* The attribute controller: its port takes the index, and then the value. *)
LEMMA AcSynced ==
  ASSUME NEW at \in 1 .. 180, NEW s, NEW i, NEW d, NEW w, AcAt(at, s, i, d, w),
         at = 149 \/ \E k \in 0 .. 20 : at = 85 + (3 * k + 1),
         NEW e, e = FALSE
  PROVE  AcAt(at + 1, s, i, e, w)
BY DEF AcAt

(* The attribute controller expects a byte for the register just chosen. *)
LEMMA AcIndexed ==
  ASSUME NEW at \in 1 .. 180, NEW s, NEW i, NEW d, NEW w, AcAt(at, s, i, d, w),
         NEW k, (at = 150 /\ k = 32) \/ (k \in 0 .. 20 /\ at = 85 + (3 * k + 2)),
         NEW e, e = TRUE
  PROVE  AcAt(at + 1, s, k, e, w)
BY DEF AcAt

(* One more register of the attribute controller, which expects an index again. *)
LEMMA AcWritten ==
  ASSUME NEW at \in 1 .. 180, NEW s \in [0 .. 20 -> Int], NEW i, NEW d, NEW w, AcAt(at, s, i, d, w),
         NEW k \in 0 .. 20, at = 85 + (3 * k + 3),
         NEW e, e = FALSE
  PROVE  AcAt(at + 1, [s EXCEPT ![i % 32] = w[k]], i, e, w)
<1>1. i = k
  BY DEF AcAt
<1>2. i % 32 = k
  BY <1>1
<1> QED
  BY <1>1, <1>2 DEF AcAt

-----------------------------------------------------------------------------
(* What one port write does to the VGA. *)
IndexSet(c, d, u, b) ==
  /\ d \in Chips /\ d.regs = c.regs
  /\ d.index[u] = b /\ \A v \in Units \ {u} : d.index[v] = c.index[v]

RegisterSet(c, d, u, b) ==
  /\ d \in Chips /\ d.index = c.index
  /\ d.regs[u] = [c.regs[u] EXCEPT ![c.index[u] % 32] = b]
  /\ \A v \in Units \ {u} : d.regs[v] = c.regs[v]

(* A write to an index port. *)
LEMMA WriteIndex ==
  ASSUME NEW c \in Chips, NEW u \in {"seq", "crtc", "gc"}, NEW b \in Int,
         NEW d, d = Written(c, u, "index", b)
  PROVE  IndexSet(c, d, u, b) /\ d.acData = c.acData
BY DEF Chips, Written, Units, IndexSet

Loaded(c, u, t, a) == [c EXCEPT !.acData = a, !.regs[u] = t]

Loadable(c, u, t) == [c.regs EXCEPT ![u] = t] \in RegisterSets

(* The registers of one unit are replaced, and nothing else. *)
LEMMA Put ==
  ASSUME NEW c \in Chips, NEW u \in Units, NEW t, Loadable(c, u, t), NEW a \in BOOLEAN,
         NEW d, d = Loaded(c, u, t, a)
  PROVE  /\ d \in Chips /\ d.index = c.index /\ d.acData = a
         /\ d.regs[u] = t /\ \A v \in Units \ {u} : d.regs[v] = c.regs[v]
<1>1. c.regs \in RegisterSets
  BY DEF Chips
<1>2. d.regs = [c.regs EXCEPT ![u] = t] /\ d.index = c.index /\ d.acData = a /\ d \in Chips
  BY DEF Chips, Loaded, Loadable
<1>3. d.regs[u] = t /\ \A v \in Units \ {u} : d.regs[v] = c.regs[v]
  BY <1>1, <1>2 DEF RegisterSets, Units
<1> QED
  BY <1>2, <1>3

(* One register is replaced. *)
LEMMA PutOne ==
  ASSUME NEW r \in RegisterSets, NEW u \in Units, NEW i \in DOMAIN r[u], NEW b \in Int
  PROVE  [r EXCEPT ![u] = [r[u] EXCEPT ![i] = b]] \in RegisterSets
<1> DEFINE t == [r[u] EXCEPT ![i] = b]
<1>1. /\ u = "misc" => t \in [0 .. 0 -> Int]
      /\ u = "seq" => t \in [0 .. 4 -> Int]
      /\ u = "crtc" => t \in [0 .. 24 -> Int]
      /\ u = "gc" => t \in [0 .. 8 -> Int]
      /\ u = "ac" => t \in [0 .. 20 -> Int]
  BY DEF RegisterSets
<1> HIDE DEF t
<1> QED
  BY <1>1 DEF RegisterSets, Units

(* A write to a data port, where no lock is in the way. *)
LEMMA WriteData ==
  ASSUME NEW c \in Chips, NEW u \in {"misc", "seq", "crtc", "gc"}, NEW b \in Int,
         c.index[u] % 32 \in DOMAIN c.regs[u],
         u = "crtc" => ~Locked(c) \/ c.index.crtc >= 8,
         NEW d, d = Written(c, u, "data", b)
  PROVE  RegisterSet(c, d, u, b) /\ d.acData = c.acData
<1>1. Writable(c, u)
  BY DEF Writable, Chips
<1>2. d = [c EXCEPT !.acData = @, !.regs[u] = [@ EXCEPT ![c.index[u] % 32] = b]]
  BY <1>1 DEF Written
<1>3. c.regs \in RegisterSets /\ c.acData \in BOOLEAN /\ u \in Units
  BY DEF Chips, Units
<1> DEFINE t == [c.regs[u] EXCEPT ![c.index[u] % 32] = b]
<1>4. Loadable(c, u, t)
  BY <1>3, PutOne DEF Loadable
<1>5. d = Loaded(c, u, t, c.acData)
  BY <1>2 DEF Loaded
<1> HIDE DEF t
<1>6. /\ d \in Chips /\ d.index = c.index /\ d.acData = c.acData
      /\ d.regs[u] = t /\ \A v \in Units \ {u} : d.regs[v] = c.regs[v]
  BY <1>3, <1>4, <1>5, Put
<1> QED
  BY <1>6 DEF t, RegisterSet

(* Register 3 of the CRTC is written before the lock is taken off. *)
LEMMA WriteLocked ==
  ASSUME NEW c \in Chips, NEW b \in Int, c.index.crtc = 3,
         NEW d, d = Written(c, "crtc", "data", b)
  PROVE  /\ d \in Chips /\ d.index = c.index /\ d.acData = c.acData
         /\ d.regs.crtc[17] = c.regs.crtc[17]
         /\ \A v \in Units \ {"crtc"} : d.regs[v] = c.regs[v]
<1>1. CASE Writable(c, "crtc")
  <2>1. c.index["crtc"] % 32 = 3 /\ ~Locked(c) /\ 3 # 17
    BY <1>1 DEF Writable
  <2>2. 3 \in DOMAIN c.regs["crtc"] /\ c.regs.crtc \in [0 .. 24 -> Int]
    BY DEF Chips, RegisterSets
  <2> DEFINE t == [c.regs["crtc"] EXCEPT ![c.index["crtc"] % 32] = b]
  <2>3. RegisterSet(c, d, "crtc", b) /\ d.acData = c.acData
    <3>1. "crtc" \in {"misc", "seq", "crtc", "gc"} /\ c.index["crtc"] % 32 \in DOMAIN c.regs["crtc"]
      BY <2>1, <2>2
    <3>2. ~Locked(c) \/ c.index.crtc >= 8
      BY <2>1
    <3> QED
      BY <3>1, <3>2, WriteData
  <2>4. t[17] = c.regs["crtc"][17]
    BY <2>1, <2>2
  <2> QED
    BY <2>3, <2>4 DEF RegisterSet
<1>2. CASE ~Writable(c, "crtc")
  <2> DEFINE t == c.regs["crtc"]
  <2>1. d = [c EXCEPT !.acData = @, !.regs["crtc"] = @]
    BY <1>2 DEF Written
  <2>2. d = Loaded(c, "crtc", t, c.acData)
    BY <2>1 DEF Loaded
  <2>3. c.regs \in RegisterSets /\ c.acData \in BOOLEAN /\ "crtc" \in Units
    BY DEF Chips, Units
  <2>4. Loadable(c, "crtc", t)
    BY <2>3 DEF RegisterSets, Loadable
  <2> HIDE DEF t
  <2>5. /\ d \in Chips /\ d.index = c.index /\ d.acData = c.acData
        /\ d.regs["crtc"] = t /\ \A v \in Units \ {"crtc"} : d.regs[v] = c.regs[v]
    BY <2>2, <2>3, <2>4, Put
  <2> QED
    BY <2>5 DEF t
<1> QED
  BY <1>1, <1>2

(* A write to the attribute controller that is taken as an index. *)
LEMMA WriteAcIndex ==
  ASSUME NEW c \in Chips, NEW p \in {"data", "both"}, NEW b \in Int, ~c.acData,
         NEW d, d = Written(c, "ac", p, b)
  PROVE  IndexSet(c, d, "ac", b) /\ d.acData = TRUE
BY DEF Chips, Written, Units, IndexSet

(* A write to the attribute controller that is taken as a byte. *)
LEMMA WriteAcData ==
  ASSUME NEW c \in Chips, NEW b \in Int, c.acData, c.index.ac \in 0 .. 20,
         NEW d, d = Written(c, "ac", "both", b)
  PROVE  RegisterSet(c, d, "ac", b) /\ d.acData = FALSE
<1>1. Writable(c, "ac")
  BY DEF Writable, Chips, RegisterSets, Has
<1>2. d = [c EXCEPT !.acData = FALSE, !.regs["ac"] = [@ EXCEPT ![c.index.ac % 32] = b]]
  BY <1>1 DEF Written
<1>3. c.regs \in RegisterSets /\ "ac" \in Units /\ c.index.ac % 32 \in DOMAIN c.regs["ac"]
  BY DEF Chips, Units, RegisterSets
<1> DEFINE t == [c.regs["ac"] EXCEPT ![c.index.ac % 32] = b]
<1>4. Loadable(c, "ac", t)
  BY <1>3, PutOne DEF Loadable
<1>5. d = Loaded(c, "ac", t, FALSE)
  BY <1>2 DEF Loaded
<1> HIDE DEF t
<1> DEFINE a == FALSE
<1>0. a \in BOOLEAN /\ d = Loaded(c, "ac", t, a)
  BY <1>5
<1> HIDE DEF a
<1>6. /\ d \in Chips /\ d.index = c.index /\ d.acData = a
      /\ d.regs["ac"] = t /\ \A v \in Units \ {"ac"} : d.regs[v] = c.regs[v]
  BY <1>0, <1>3, <1>4, Put
<1> QED
  BY <1>6 DEF t, a, RegisterSet

-----------------------------------------------------------------------------
(* When only one unit changes, the rest is as far as before. *)

(* To follow an access to the sequencer is enough where only the sequencer changes. *)
LEMMA OnlySeq ==
  ASSUME NEW at \in SeqPlaces, NEW c, NEW l, NEW w, ChipAt(at, c, l, w), NEW d \in Chips, d.acData = c.acData,
         d.regs.misc = c.regs.misc, d.regs.crtc = c.regs.crtc, d.regs.gc = c.regs.gc, d.regs.ac = c.regs.ac,
         d.index.misc = c.index.misc, d.index.crtc = c.index.crtc, d.index.gc = c.index.gc, d.index.ac = c.index.ac,
         SeqAt(at + 1, d.regs.seq, d.index.seq, w.seq)
  PROVE  ChipAt(at + 1, d, l, w)
<1>1. at \in 2 .. 180 /\ at \notin CrtcPlaces /\ at \notin GcPlaces /\ at \notin AcPlaces /\ at \notin LocalPlaces
  BY DEF SeqPlaces, CrtcPlaces, GcPlaces, AcPlaces, LocalPlaces
<1>2. at \in 1 .. 180
  BY <1>1
<1> QED
  BY <1>1, <1>2, CrtcQuiet, GcQuiet, AcQuiet, LocalsQuiet DEF ChipAt

(* The same for the CRTC, *)
LEMMA OnlyCrtc ==
  ASSUME NEW at \in CrtcPlaces, NEW c, NEW l, NEW w, ChipAt(at, c, l, w), NEW d \in Chips, d.acData = c.acData,
         d.regs.misc = c.regs.misc, d.regs.seq = c.regs.seq, d.regs.gc = c.regs.gc, d.regs.ac = c.regs.ac,
         d.index.misc = c.index.misc, d.index.seq = c.index.seq, d.index.gc = c.index.gc, d.index.ac = c.index.ac,
         CrtcAt(at + 1, d.regs.crtc, d.index.crtc, w.crtc)
  PROVE  ChipAt(at + 1, d, l, w)
<1>1. at \in 2 .. 180 /\ at \notin SeqPlaces /\ at \notin GcPlaces /\ at \notin AcPlaces /\ at \notin LocalPlaces
  BY DEF SeqPlaces, CrtcPlaces, GcPlaces, AcPlaces, LocalPlaces
<1>2. at \in 1 .. 180
  BY <1>1
<1> QED
  BY <1>1, <1>2, SeqQuiet, GcQuiet, AcQuiet, LocalsQuiet DEF ChipAt

(* the graphics controller, *)
LEMMA OnlyGc ==
  ASSUME NEW at \in GcPlaces, NEW c, NEW l, NEW w, ChipAt(at, c, l, w), NEW d \in Chips, d.acData = c.acData,
         d.regs.misc = c.regs.misc, d.regs.seq = c.regs.seq, d.regs.crtc = c.regs.crtc, d.regs.ac = c.regs.ac,
         d.index.misc = c.index.misc, d.index.seq = c.index.seq, d.index.crtc = c.index.crtc, d.index.ac = c.index.ac,
         GcAt(at + 1, d.regs.gc, d.index.gc, w.gc)
  PROVE  ChipAt(at + 1, d, l, w)
<1>1. at \in 2 .. 180 /\ at \notin SeqPlaces /\ at \notin CrtcPlaces /\ at \notin AcPlaces /\ at \notin LocalPlaces
  BY DEF SeqPlaces, CrtcPlaces, GcPlaces, AcPlaces, LocalPlaces
<1>2. at \in 1 .. 180
  BY <1>1
<1> QED
  BY <1>1, <1>2, SeqQuiet, CrtcQuiet, AcQuiet, LocalsQuiet DEF ChipAt

(* the attribute controller *)
LEMMA OnlyAc ==
  ASSUME NEW at \in AcPlaces, NEW c, NEW l, NEW w, ChipAt(at, c, l, w), NEW d \in Chips,
         d.regs.misc = c.regs.misc, d.regs.seq = c.regs.seq, d.regs.crtc = c.regs.crtc, d.regs.gc = c.regs.gc,
         d.index.misc = c.index.misc, d.index.seq = c.index.seq, d.index.crtc = c.index.crtc, d.index.gc = c.index.gc,
         AcAt(at + 1, d.regs.ac, d.index.ac, d.acData, w.ac)
  PROVE  ChipAt(at + 1, d, l, w)
<1>1. at \in 2 .. 180 /\ at \notin SeqPlaces /\ at \notin CrtcPlaces /\ at \notin GcPlaces /\ at \notin LocalPlaces
  BY DEF SeqPlaces, CrtcPlaces, GcPlaces, AcPlaces, LocalPlaces
<1>2. at \in 1 .. 180
  BY <1>1
<1> QED
  BY <1>1, <1>2, SeqQuiet, CrtcQuiet, GcQuiet, LocalsQuiet DEF ChipAt

(* and the saved values. *)
LEMMA OnlyLocals ==
  ASSUME NEW at \in LocalPlaces, NEW c, NEW l, NEW w, ChipAt(at, c, l, w), NEW m \in Locals, LocalsAt(at + 1, m, w)
  PROVE  ChipAt(at + 1, c, m, w)
<1>1. at \in 2 .. 180 /\ at \notin SeqPlaces /\ at \notin CrtcPlaces /\ at \notin GcPlaces /\ at \notin AcPlaces
  BY DEF SeqPlaces, CrtcPlaces, GcPlaces, AcPlaces, LocalPlaces
<1>2. at \in 1 .. 180
  BY <1>1
<1> QED
  BY <1>1, <1>2, SeqQuiet, CrtcQuiet, GcQuiet, AcQuiet DEF ChipAt

SavesKept(l, m) == m \in Locals /\ \A v \in {"seq2", "seq4", "gc4", "gc5", "gc6"} : m[v] = l[v]

(* The accesses that write no register. *)
LEMMA AllQuiet ==
  ASSUME NEW at \in {13, 168, 179, 180}, NEW c, NEW l, NEW w, ChipAt(at, c, l, w), NEW m, SavesKept(l, m)
  PROVE  ChipAt(at + 1, c, m, w)
<1>1. /\ at \in 1 .. 180 /\ at # 1 /\ at \notin SeqPlaces /\ at \notin CrtcPlaces /\ at \notin GcPlaces
      /\ at \notin AcPlaces /\ at \notin LocalPlaces /\ at + 1 # 17
  BY DEF SeqPlaces, CrtcPlaces, GcPlaces, AcPlaces, LocalPlaces
<1>2. LocalsAt(at + 1, l, w)
  BY <1>1, LocalsQuiet DEF ChipAt
<1>3. LocalsAt(at + 1, m, w)
  BY <1>1, <1>2 DEF LocalsAt, SavesKept
<1>4. at > 1 /\ at + 1 > 1
  OBVIOUS
<1> QED
  BY <1>1, <1>3, <1>4, SeqQuiet, CrtcQuiet, GcQuiet, AcQuiet DEF ChipAt, SavesKept

-----------------------------------------------------------------------------
(* What one access does. *)
LEMMA DoOut ==
  ASSUME NEW u, NEW p, NEW b, Do(Out(u, p, b))
  PROVE  chip' = Written(chip, u, p, b) /\ UNCHANGED <<local, font, damaged, COLUMNS, LINES>>
BY DEF Do, Out

(* What each kind of access does: a register is read into a local variable. *)
LEMMA DoIn ==
  ASSUME NEW u, NEW v, Do(In(u, v))
  PROVE  /\ \E b \in ReadBack(chip, u) : local' = [local EXCEPT ![v] = b]
         /\ UNCHANGED <<chip, font, damaged, COLUMNS, LINES>>
BY DEF Do, In

(* A local variable is written back, with a bit set or cleared. *)
LEMMA DoOutLocal ==
  ASSUME NEW u, NEW v, NEW set, NEW clear, Do(OutLocal(u, v, set, clear))
  PROVE  /\ chip' = Written(chip, u, "data", IF set # 0 THEN With(local[v], set)
                                             ELSE IF clear # 0 THEN Without(local[v], clear)
                                             ELSE local[v])
         /\ UNCHANGED <<local, font, damaged, COLUMNS, LINES>>
BY DEF Do, OutLocal

(* The status register is read. *)
LEMMA DoInstat ==
  ASSUME Do(InstatRead)
  PROVE  chip' = [chip EXCEPT !.acData = FALSE] /\ UNCHANGED <<local, font, damaged, COLUMNS, LINES>>
BY DEF Do, InstatRead

(* The font is written to the plane the registers select. *)
LEMMA DoFont ==
  ASSUME NEW height, Do(LoadFont(height))
  PROVE  font' = height /\ damaged' = (damaged \/ ~ReachesFont(chip)) /\ UNCHANGED <<chip, local, COLUMNS, LINES>>
BY DEF Do, LoadFont

(* The size of the screen is set, and the text cleared. *)
LEMMA DoSize ==
  ASSUME NEW cols, NEW rows, Do(SetSize(cols, rows))
  PROVE  /\ COLUMNS' = cols /\ LINES' = rows /\ damaged' = (damaged \/ ~ReachesText(chip))
         /\ UNCHANGED <<chip, local, font>>
BY DEF Do, SetSize

-----------------------------------------------------------------------------
(* One more write takes set_text_mode one place further. *)

(* From place to place: the sequencer's index. *)
LEMMA SeqIndexGoes ==
  ASSUME NEW at \in SeqPlaces, NEW c, NEW l, NEW w, ChipAt(at, c, l, w),
         NEW k \in 0 .. 4,
         \/ at = 1 + (2 * k + 1)
         \/ at \in {151, 166, 169} /\ k = 2
         \/ at \in {153, 171} /\ k = 4,
         NEW d, d = Written(c, "seq", "index", k)
  PROVE  ChipAt(at + 1, d, l, w)
<1>1. c \in Chips /\ SeqAt(at, c.regs.seq, c.index.seq, w.seq) /\ at \in 1 .. 180
  BY DEF ChipAt, SeqPlaces
<1>2. "seq" \in {"seq", "crtc", "gc"} /\ k \in Int
  OBVIOUS
<1>3. IndexSet(c, d, "seq", k) /\ d.acData = c.acData
  BY <1>1, <1>2, WriteIndex
<1>4. SeqAt(at + 1, d.regs.seq, d.index.seq, w.seq)
  BY <1>1, <1>3, SeqIndexed DEF IndexSet
<1> QED
  BY <1>3, <1>4, OnlySeq DEF Units, IndexSet

(* The sequencer's data. *)
LEMMA SeqDataGoes ==
  ASSUME NEW at \in SeqPlaces, NEW c, NEW l, NEW w, ChipAt(at, c, l, w),
         NEW k \in 0 .. 4, NEW b \in Int,
         SeqWrite(at, k, b, w.seq),
         NEW d, d = Written(c, "seq", "data", b)
  PROVE  ChipAt(at + 1, d, l, w)
<1> DEFINE s == c.regs.seq
           i == c.index.seq
           v == w.seq
<1>1. c \in Chips /\ SeqAt(at, s, i, v) /\ at \in 1 .. 180
  BY DEF ChipAt, SeqPlaces
<1>2. s \in [0 .. 4 -> Int]
  BY <1>1 DEF Chips, RegisterSets
<1>0. SeqWrite(at, k, b, v)
  OBVIOUS
<1> HIDE DEF s, i, v
<1>3. i = k /\ SeqAt(at + 1, [s EXCEPT ![i % 32] = b], i, v)
  BY <1>0, <1>1, <1>2, SeqWritten
<1>4. c.index["seq"] % 32 \in DOMAIN c.regs["seq"]
  BY <1>2, <1>3 DEF s, i
<1>5. "seq" \in {"misc", "seq", "crtc", "gc"}
  OBVIOUS
<1>6. RegisterSet(c, d, "seq", b) /\ d.acData = c.acData
  BY <1>1, <1>4, <1>5, WriteData
<1>7. SeqAt(at + 1, d.regs.seq, d.index.seq, w.seq)
  BY <1>3, <1>6 DEF s, i, v, RegisterSet
<1> QED
  BY <1>6, <1>7, OnlySeq DEF Units, RegisterSet

(* The CRTC's index. *)
LEMMA CrtcIndexGoes ==
  ASSUME NEW at \in CrtcPlaces, NEW c, NEW l, NEW w, ChipAt(at, c, l, w),
         NEW k \in 0 .. 24,
         \/ at = 17 + (2 * k + 1)
         \/ at = 12 /\ k = 3
         \/ at = 15 /\ k = 17,
         NEW d, d = Written(c, "crtc", "index", k)
  PROVE  ChipAt(at + 1, d, l, w)
<1>1. c \in Chips /\ CrtcAt(at, c.regs.crtc, c.index.crtc, w.crtc) /\ at \in 1 .. 180
  BY DEF ChipAt, CrtcPlaces
<1>2. "crtc" \in {"seq", "crtc", "gc"} /\ k \in Int
  OBVIOUS
<1>3. IndexSet(c, d, "crtc", k) /\ d.acData = c.acData
  BY <1>1, <1>2, WriteIndex
<1>4. CrtcAt(at + 1, d.regs.crtc, d.index.crtc, w.crtc)
  BY <1>1, <1>3, CrtcIndexed DEF IndexSet
<1> QED
  BY <1>3, <1>4, OnlyCrtc DEF Units, IndexSet

(* The lock is off from place 18 on. *)
LEMMA CrtcDataGoes ==
  ASSUME NEW at \in CrtcPlaces, NEW c, NEW l, NEW w \in RegisterSets, ChipAt(at, c, l, w),
         w.crtc[17] \in 0 .. 255, NEW k \in 0 .. 24, at = 17 + (2 * k + 2),
         NEW d, d = Written(c, "crtc", "data", StayUnlocked(w.crtc)[k])
  PROVE  ChipAt(at + 1, d, l, w)
<1> DEFINE s == c.regs.crtc
           i == c.index.crtc
           v == w.crtc
           b == StayUnlocked(v)[k]
<1>1. c \in Chips /\ CrtcAt(at, s, i, v) /\ at \in 1 .. 180
  BY DEF ChipAt, CrtcPlaces
<1>2. s \in [0 .. 24 -> Int] /\ v \in [0 .. 24 -> Int] /\ CrtcWrite(at, k, b, v)
  BY <1>1 DEF Chips, RegisterSets, CrtcWrite
<1>3. b \in Int
  BY <1>2 DEF CrtcWrite, StayUnlocked, With, Without
<1>4. ~Locked(c)
  BY <1>1 DEF CrtcAt, Locked
<1>5. d = Written(c, "crtc", "data", b)
  OBVIOUS
<1> HIDE DEF s, i, v, b
<1>6. i = k /\ CrtcAt(at + 1, [s EXCEPT ![i % 32] = b], i, v)
  BY <1>1, <1>2, CrtcWritten
<1>7. c.index["crtc"] % 32 \in DOMAIN c.regs["crtc"]
  BY <1>2, <1>6 DEF s, i
<1>8. "crtc" \in {"misc", "seq", "crtc", "gc"}
  OBVIOUS
<1>9. RegisterSet(c, d, "crtc", b) /\ d.acData = c.acData
  BY <1>1, <1>3, <1>4, <1>5, <1>7, <1>8, WriteData
<1>10. CrtcAt(at + 1, d.regs.crtc, d.index.crtc, w.crtc)
  BY <1>6, <1>9 DEF s, i, v, RegisterSet
<1> QED
  BY <1>9, <1>10, OnlyCrtc DEF Units, RegisterSet

(* The graphics controller's index. *)
LEMMA GcIndexGoes ==
  ASSUME NEW at \in GcPlaces, NEW c, NEW l, NEW w, ChipAt(at, c, l, w),
         NEW k \in 0 .. 8,
         \/ at = 67 + (2 * k + 1)
         \/ at \in {156, 164, 173} /\ k = 4
         \/ at \in {158, 175} /\ k = 5
         \/ at \in {161, 177} /\ k = 6,
         NEW d, d = Written(c, "gc", "index", k)
  PROVE  ChipAt(at + 1, d, l, w)
<1>1. c \in Chips /\ GcAt(at, c.regs.gc, c.index.gc, w.gc) /\ at \in 1 .. 180
  BY DEF ChipAt, GcPlaces
<1>2. "gc" \in {"seq", "crtc", "gc"} /\ k \in Int
  OBVIOUS
<1>3. IndexSet(c, d, "gc", k) /\ d.acData = c.acData
  BY <1>1, <1>2, WriteIndex
<1>4. GcAt(at + 1, d.regs.gc, d.index.gc, w.gc)
  BY <1>1, <1>3, GcIndexed DEF IndexSet
<1> QED
  BY <1>3, <1>4, OnlyGc DEF Units, IndexSet

(* The graphics controller's data. *)
LEMMA GcDataGoes ==
  ASSUME NEW at \in GcPlaces, NEW c, NEW l, NEW w, ChipAt(at, c, l, w),
         NEW k \in 0 .. 8, NEW b \in Int,
         GcWrite(at, k, b, w.gc),
         NEW d, d = Written(c, "gc", "data", b)
  PROVE  ChipAt(at + 1, d, l, w)
<1> DEFINE s == c.regs.gc
           i == c.index.gc
           v == w.gc
<1>1. c \in Chips /\ GcAt(at, s, i, v) /\ at \in 1 .. 180
  BY DEF ChipAt, GcPlaces
<1>2. s \in [0 .. 8 -> Int]
  BY <1>1 DEF Chips, RegisterSets
<1>0. GcWrite(at, k, b, v)
  OBVIOUS
<1> HIDE DEF s, i, v
<1>3. i = k /\ GcAt(at + 1, [s EXCEPT ![i % 32] = b], i, v)
  BY <1>0, <1>1, <1>2, GcWritten
<1>4. c.index["gc"] % 32 \in DOMAIN c.regs["gc"]
  BY <1>2, <1>3 DEF s, i
<1>5. "gc" \in {"misc", "seq", "crtc", "gc"}
  OBVIOUS
<1>6. RegisterSet(c, d, "gc", b) /\ d.acData = c.acData
  BY <1>1, <1>4, <1>5, WriteData
<1>7. GcAt(at + 1, d.regs.gc, d.index.gc, w.gc)
  BY <1>3, <1>6 DEF s, i, v, RegisterSet
<1> QED
  BY <1>6, <1>7, OnlyGc DEF Units, RegisterSet

(* The port of the attribute controller is read, and written twice. *)
LEMMA AcSyncGoes ==
  ASSUME NEW at \in AcPlaces, NEW c, NEW l, NEW w, ChipAt(at, c, l, w),
         at = 149 \/ \E k \in 0 .. 20 : at = 85 + (3 * k + 1),
         NEW d, d = [c EXCEPT !.acData = FALSE]
  PROVE  ChipAt(at + 1, d, l, w)
<1> DEFINE s == c.regs.ac
           i == c.index.ac
           a == c.acData
           v == w.ac
           e == d.acData
<1>1. c \in Chips /\ AcAt(at, s, i, a, v) /\ at \in 1 .. 180
  BY DEF ChipAt, AcPlaces
<1>2. d \in Chips /\ d.regs = c.regs /\ d.index = c.index /\ e = FALSE
  BY <1>1 DEF Chips
<1> HIDE DEF s, i, a, v, e
<1>3. AcAt(at + 1, s, i, e, v)
  BY <1>1, <1>2, AcSynced
<1>4. AcAt(at + 1, d.regs.ac, d.index.ac, d.acData, w.ac)
  BY <1>2, <1>3 DEF s, i, v, e
<1> QED
  BY <1>2, <1>4, OnlyAc

(* The attribute controller's index. *)
LEMMA AcIndexGoes ==
  ASSUME NEW at \in AcPlaces, NEW c, NEW l, NEW w, ChipAt(at, c, l, w), NEW k \in Int,
         (at = 150 /\ k = 32) \/ (k \in 0 .. 20 /\ at = 85 + (3 * k + 2)),
         NEW d, d = Written(c, "ac", "both", k)
  PROVE  ChipAt(at + 1, d, l, w)
<1> DEFINE s == c.regs.ac
           i == c.index.ac
           a == c.acData
           v == w.ac
           e == d.acData
<1>1. c \in Chips /\ AcAt(at, s, i, a, v) /\ at \in 1 .. 180
  BY DEF ChipAt, AcPlaces
<1> HIDE DEF s, i, a, v, e
<1>2. ~a
  BY <1>1 DEF AcAt
<1>3. "both" \in {"data", "both"} /\ ~c.acData
  BY <1>2 DEF a
<1>4. IndexSet(c, d, "ac", k) /\ e = TRUE
  BY <1>1, <1>3, WriteAcIndex DEF e
<1>5. AcAt(at + 1, s, k, e, v)
  BY <1>1, <1>4, AcIndexed
<1>6. AcAt(at + 1, d.regs.ac, d.index.ac, d.acData, w.ac)
  BY <1>4, <1>5 DEF s, v, e, IndexSet
<1> QED
  BY <1>4, <1>6, OnlyAc DEF Units, IndexSet

(* The attribute controller's data. *)
LEMMA AcDataGoes ==
  ASSUME NEW at \in AcPlaces, NEW c, NEW l, NEW w \in RegisterSets, ChipAt(at, c, l, w),
         NEW k \in 0 .. 20, at = 85 + (3 * k + 3),
         NEW d, d = Written(c, "ac", "both", w.ac[k])
  PROVE  ChipAt(at + 1, d, l, w)
<1> DEFINE s == c.regs.ac
           i == c.index.ac
           a == c.acData
           v == w.ac
           e == d.acData
           b == w.ac[k]
<1>1. c \in Chips /\ AcAt(at, s, i, a, v) /\ at \in 1 .. 180
  BY DEF ChipAt, AcPlaces
<1>2. s \in [0 .. 20 -> Int] /\ b \in Int /\ d = Written(c, "ac", "both", b)
  BY <1>1 DEF Chips, RegisterSets
<1>3. b = v[k]
  OBVIOUS
<1> HIDE DEF s, i, a, v, e, b
<1>4. a /\ i = k
  BY <1>1 DEF AcAt
<1>5. c.acData /\ c.index.ac \in 0 .. 20
  BY <1>4 DEF a, i
<1>6. RegisterSet(c, d, "ac", b) /\ e = FALSE
  BY <1>1, <1>2, <1>5, WriteAcData DEF e
<1>7. AcAt(at + 1, [s EXCEPT ![i % 32] = b], i, e, v)
  BY <1>1, <1>2, <1>3, <1>6, AcWritten
<1>8. AcAt(at + 1, d.regs.ac, d.index.ac, d.acData, w.ac)
  BY <1>6, <1>7 DEF s, i, v, e, RegisterSet
<1> QED
  BY <1>6, <1>8, OnlyAc DEF Units, RegisterSet

-----------------------------------------------------------------------------
(* The miscellaneous output register. *)
LEMMA MiscGoes ==
  ASSUME NEW c, NEW l, NEW w \in RegisterSets, ChipAt(1, c, l, w),
         NEW d, d = Written(c, "misc", "data", w.misc[0])
  PROVE  ChipAt(2, d, l, w)
<1> DEFINE b == w.misc[0]
<1>1. c \in Chips /\ c.index.misc = 0 /\ c.regs.misc \in [0 .. 0 -> Int]
  BY DEF ChipAt, Chips, RegisterSets
<1>2. b \in Int /\ d = Written(c, "misc", "data", b)
  BY DEF RegisterSets
<1> HIDE DEF b
<1>3. c.index["misc"] % 32 \in DOMAIN c.regs["misc"] /\ "misc" \in {"misc", "seq", "crtc", "gc"} /\ "misc" # "crtc"
  BY <1>1
<1>4. RegisterSet(c, d, "misc", b) /\ d.acData = c.acData
  BY <1>1, <1>2, <1>3, WriteData
<1>5. /\ d \in Chips /\ d.index = c.index /\ d.regs.misc[0] = b
      /\ d.regs.seq = c.regs.seq /\ d.regs.crtc = c.regs.crtc /\ d.regs.gc = c.regs.gc /\ d.regs.ac = c.regs.ac
  BY <1>1, <1>4 DEF RegisterSet, Units
<1>6. 1 \in 1 .. 180 /\ 1 + 1 = 2 /\ 1 \notin SeqPlaces /\ 1 \notin CrtcPlaces /\ 1 \notin GcPlaces
      /\ 1 \notin AcPlaces /\ 1 \notin LocalPlaces
  BY DEF SeqPlaces, CrtcPlaces, GcPlaces, AcPlaces, LocalPlaces
<1>7. /\ SeqAt(2, c.regs.seq, c.index.seq, w.seq) /\ CrtcAt(2, c.regs.crtc, c.index.crtc, w.crtc)
      /\ GcAt(2, c.regs.gc, c.index.gc, w.gc) /\ LocalsAt(2, l, w)
  BY <1>6, SeqQuiet, CrtcQuiet, GcQuiet, LocalsQuiet DEF ChipAt
<1>8. AcAt(2, c.regs.ac, c.index.ac, c.acData, w.ac)
  BY <1>6, AcQuiet DEF ChipAt
<1> QED
  BY <1>1, <1>4, <1>5, <1>7, <1>8 DEF ChipAt, b

(* The first attempt to unlock may not reach its register, *)
LEMMA NoLockGoes ==
  ASSUME NEW c, NEW l, NEW w, ChipAt(14, c, l, w), NEW b \in Int,
         NEW d, d = Written(c, "crtc", "data", b)
  PROVE  ChipAt(15, d, l, w)
<1>1. c \in Chips /\ c.index.crtc = 3 /\ c.regs.crtc[17] \in 0 .. 255
  BY DEF ChipAt, CrtcAt
<1>2. /\ d \in Chips /\ d.index = c.index /\ d.acData = c.acData
      /\ d.regs.crtc[17] = c.regs.crtc[17]
      /\ \A u \in Units \ {"crtc"} : d.regs[u] = c.regs[u]
  BY <1>1, WriteLocked
<1>3. 14 \in CrtcPlaces /\ 14 + 1 = 15
  BY DEF CrtcPlaces
<1>4. CrtcAt(14 + 1, d.regs.crtc, d.index.crtc, w.crtc)
  BY <1>1, <1>2 DEF CrtcAt
<1>5. ChipAt(14 + 1, d, l, w)
  BY <1>2, <1>3, <1>4, OnlyCrtc DEF Units
<1> QED
  BY <1>5

(* the second does. *)
LEMMA UnlockGoes ==
  ASSUME NEW c, NEW l, NEW w, ChipAt(17, c, l, w), NEW b, b = Without(l["tmp"], 128),
         NEW d, d = Written(c, "crtc", "data", b)
  PROVE  ChipAt(18, d, l, w)
<1> DEFINE s == c.regs.crtc
           v == w.crtc
<1>1. c \in Chips /\ c.index.crtc = 17 /\ CrtcAt(17, s, 17, v) /\ l["tmp"] \in 0 .. 255
  BY DEF ChipAt, CrtcAt, LocalsAt
<1>2. s \in [0 .. 24 -> Int] /\ b \in Int
  BY <1>1 DEF Chips, RegisterSets, Without, Has
<1> HIDE DEF s, v
<1>3. CrtcAt(18, [s EXCEPT ![17 % 32] = b], 17, v)
  BY <1>1, <1>2, Unlocked
<1>4. c.index["crtc"] % 32 \in DOMAIN c.regs["crtc"] /\ "crtc" \in {"misc", "seq", "crtc", "gc"} /\ c.index.crtc >= 8
  BY <1>1, <1>2 DEF s
<1>5. RegisterSet(c, d, "crtc", b) /\ d.acData = c.acData
  BY <1>1, <1>2, <1>4, WriteData
<1>6. CrtcAt(17 + 1, d.regs.crtc, d.index.crtc, w.crtc)
  BY <1>1, <1>3, <1>5 DEF RegisterSet, s, v
<1>7. 17 \in CrtcPlaces /\ 17 + 1 = 18
  BY DEF CrtcPlaces
<1>8. ChipAt(17 + 1, d, l, w)
  BY <1>5, <1>6, <1>7, OnlyCrtc DEF RegisterSet, Units
<1> QED
  BY <1>8

(* A register is read into a local variable. *)
LEMMA ReadGoes ==
  ASSUME NEW at \in {13, 16}, NEW c, NEW l, NEW w, ChipAt(at, c, l, w), NEW b \in ReadBack(c, "crtc"),
         NEW m, m = [l EXCEPT !["tmp"] = b]
  PROVE  ChipAt(at + 1, c, m, w)
<1>1. /\ c \in Chips /\ l \in Locals /\ CrtcAt(at, c.regs.crtc, c.index.crtc, w.crtc)
      /\ c.regs.crtc \in [0 .. 24 -> Int]
  BY DEF ChipAt, Chips, RegisterSets
<1>2. CASE at = 13
  <2>1. c.index.crtc = 3
    BY <1>1, <1>2 DEF CrtcAt
  <2>2. b \in Int
    BY <1>1, <2>1 DEF ReadBack, LightPen
  <2>3. SavesKept(l, m)
    BY <1>1, <2>2 DEF Locals, SavesKept
  <2>4. at \in {13, 168, 179, 180}
    BY <1>2
  <2> QED
    BY <2>3, <2>4, AllQuiet
<1>3. CASE at = 16
  <2>1. c.index.crtc = 17 /\ c.regs.crtc[17] \in 0 .. 255
    BY <1>1, <1>3 DEF CrtcAt
  <2>2. b \in 0 .. 255
    BY <2>1 DEF ReadBack
  <2>3. m \in Locals /\ m["tmp"] \in 0 .. 255
    BY <1>1, <2>2 DEF Locals
  <2>4. LocalsAt(at + 1, m, w) /\ at \in LocalPlaces
    BY <1>3, <2>3 DEF LocalsAt, LocalPlaces
  <2> QED
    BY <2>3, <2>4, OnlyLocals
<1> QED
  BY <1>2, <1>3

(* write_font saves what the tables say. *)
LEMMA SeqSaved ==
  ASSUME NEW c, NEW l, NEW w, NEW at, NEW k, NEW b \in ReadBack(c, "seq"), ChipAt(at, c, l, w),
         \/ at = 152 /\ k = 2
         \/ at = 154 /\ k = 4
  PROVE  b = w.seq[k]
<1>1. c.index.seq = k /\ c.regs.seq[k] = w.seq[k]
  BY DEF ChipAt, SeqAt
<1> QED
  BY <1>1 DEF ReadBack

(* What write_font reads of the graphics controller is what the table put there. *)
LEMMA GcSaved ==
  ASSUME NEW c, NEW l, NEW w, NEW at, NEW k, NEW b \in ReadBack(c, "gc"), ChipAt(at, c, l, w),
         \/ at = 157 /\ k = 4
         \/ at = 159 /\ k = 5
         \/ at = 162 /\ k = 6
  PROVE  b = w.gc[k]
<1>1. c.index.gc = k /\ c.regs.gc[k] = w.gc[k]
  BY DEF ChipAt, GcAt
<1> QED
  BY <1>1 DEF ReadBack

SavedNow(at, v, b, w) ==
  \/ at = 152 /\ v = "seq2" /\ b = w.seq[2]
  \/ at = 154 /\ v = "seq4" /\ b = w.seq[4]
  \/ at = 157 /\ v = "gc4" /\ b = w.gc[4]
  \/ at = 159 /\ v = "gc5" /\ b = w.gc[5]
  \/ at = 162 /\ v = "gc6" /\ b = w.gc[6]

(* A register saved by write_font. *)
LEMMA SaveGoes ==
  ASSUME NEW c, NEW l, NEW w \in RegisterSets, NEW at, ChipAt(at, c, l, w), NEW v, NEW b,
         SavedNow(at, v, b, w),
         NEW m, m = [l EXCEPT ![v] = b]
  PROVE  ChipAt(at + 1, c, m, w)
<1>1. l \in Locals /\ LocalsAt(at, l, w)
  BY DEF ChipAt
<1>2. b \in Int /\ v \in {"seq2", "seq4", "gc4", "gc5", "gc6", "tmp"}
  BY DEF RegisterSets, SavedNow
<1>3. m \in Locals /\ m[v] = b /\ \A u \in {"seq2", "seq4", "gc4", "gc5", "gc6"} : u # v => m[u] = l[u]
  BY <1>1, <1>2 DEF Locals
<1>4. LocalsAt(at + 1, m, w) /\ at \in LocalPlaces
  BY <1>1, <1>3 DEF LocalsAt, LocalPlaces, SavedNow
<1> QED
  BY <1>3, <1>4, OnlyLocals

-----------------------------------------------------------------------------
(* The accesses of write_font, each at its place. *)
LEMMA FontPlaced ==
  ASSUME NEW mode, NEW p, Placed(p, mode), NEW h, h = Height(mode)
  PROVE  /\ p[151] = Out("seq", "index", 2) /\ p[152] = In("seq", "seq2")
         /\ p[153] = Out("seq", "index", 4) /\ p[154] = In("seq", "seq4") /\ p[155] = OutLocal("seq", "seq4", 4, 0)
         /\ p[156] = Out("gc", "index", 4) /\ p[157] = In("gc", "gc4")
         /\ p[158] = Out("gc", "index", 5) /\ p[159] = In("gc", "gc5") /\ p[160] = OutLocal("gc", "gc5", 0, 16)
         /\ p[161] = Out("gc", "index", 6) /\ p[162] = In("gc", "gc6") /\ p[163] = OutLocal("gc", "gc6", 0, 2)
         /\ p[164] = Out("gc", "index", 4) /\ p[165] = Out("gc", "data", 2)
         /\ p[166] = Out("seq", "index", 2) /\ p[167] = Out("seq", "data", 4)
         /\ p[168] = LoadFont(h)
         /\ p[169] = Out("seq", "index", 2) /\ p[170] = OutLocal("seq", "seq2", 0, 0)
         /\ p[171] = Out("seq", "index", 4) /\ p[172] = OutLocal("seq", "seq4", 0, 0)
         /\ p[173] = Out("gc", "index", 4) /\ p[174] = OutLocal("gc", "gc4", 0, 0)
         /\ p[175] = Out("gc", "index", 5) /\ p[176] = OutLocal("gc", "gc5", 0, 0)
         /\ p[177] = Out("gc", "index", 6) /\ p[178] = OutLocal("gc", "gc6", 0, 0)
<1> DEFINE f == FontPart(h)
<1>1. /\ f[1] = Out("seq", "index", 2) /\ f[2] = In("seq", "seq2")
      /\ f[3] = Out("seq", "index", 4) /\ f[4] = In("seq", "seq4") /\ f[5] = OutLocal("seq", "seq4", 4, 0)
      /\ f[6] = Out("gc", "index", 4) /\ f[7] = In("gc", "gc4")
      /\ f[8] = Out("gc", "index", 5) /\ f[9] = In("gc", "gc5") /\ f[10] = OutLocal("gc", "gc5", 0, 16)
      /\ f[11] = Out("gc", "index", 6) /\ f[12] = In("gc", "gc6") /\ f[13] = OutLocal("gc", "gc6", 0, 2)
      /\ f[14] = Out("gc", "index", 4) /\ f[15] = Out("gc", "data", 2)
      /\ f[16] = Out("seq", "index", 2) /\ f[17] = Out("seq", "data", 4)
      /\ f[18] = LoadFont(h)
      /\ f[19] = Out("seq", "index", 2) /\ f[20] = OutLocal("seq", "seq2", 0, 0)
      /\ f[21] = Out("seq", "index", 4) /\ f[22] = OutLocal("seq", "seq4", 0, 0)
      /\ f[23] = Out("gc", "index", 4) /\ f[24] = OutLocal("gc", "gc4", 0, 0)
      /\ f[25] = Out("gc", "index", 5) /\ f[26] = OutLocal("gc", "gc5", 0, 0)
      /\ f[27] = Out("gc", "index", 6) /\ f[28] = OutLocal("gc", "gc6", 0, 0)
  BY DEF FontPart
<1>2. \A j \in 1 .. 28 : p[150 + j] = f[j]
  BY DEF Placed
<1> HIDE DEF f
<1> QED
  BY <1>1, <1>2

(* The registers from the tables. *)
LEMMA TablesGo ==
  ASSUME NEW mode, NEW p, Placed(p, mode), NEW at \in 1 .. 150,
         ChipAt(at, chip, local, Wanted(mode)), Do(p[at])
  PROVE  ChipAt(at + 1, chip', local', Wanted(mode))
<1> DEFINE w == Wanted(mode)
<1>1. w \in RegisterSets /\ w.crtc[17] \in 0 .. 255
  BY ModeFits DEF Fits, Wanted
<1>2. /\ p[1] = Out("misc", "data", w.misc[0])
      /\ \A k \in 0 .. 4 : /\ p[1 + (2 * k + 1)] = Out("seq", "index", k)
                           /\ p[1 + (2 * k + 2)] = Out("seq", "data", w.seq[k])
      /\ \A k \in 0 .. 24 : /\ p[17 + (2 * k + 1)] = Out("crtc", "index", k)
                            /\ p[17 + (2 * k + 2)] = Out("crtc", "data", StayUnlocked(w.crtc)[k])
      /\ \A k \in 0 .. 8 : /\ p[67 + (2 * k + 1)] = Out("gc", "index", k)
                           /\ p[67 + (2 * k + 2)] = Out("gc", "data", w.gc[k])
      /\ \A k \in 0 .. 20 : /\ p[85 + (3 * k + 1)] = InstatRead
                            /\ p[85 + (3 * k + 2)] = Out("ac", "both", k)
                            /\ p[85 + (3 * k + 3)] = Out("ac", "both", w.ac[k])
      /\ p[149] = InstatRead /\ p[150] = Out("ac", "both", 32)
  BY DEF Placed
<1>3. /\ p[12] = Out("crtc", "index", 3) /\ p[13] = In("crtc", "tmp") /\ p[14] = OutLocal("crtc", "tmp", 128, 0)
      /\ p[15] = Out("crtc", "index", 17) /\ p[16] = In("crtc", "tmp") /\ p[17] = OutLocal("crtc", "tmp", 0, 128)
  <2>1. \A j \in 1 .. 6 : p[11 + j] = UnlockCrtc[j]
    BY DEF Placed
  <2>2. /\ UnlockCrtc[1] = Out("crtc", "index", 3) /\ UnlockCrtc[2] = In("crtc", "tmp")
        /\ UnlockCrtc[3] = OutLocal("crtc", "tmp", 128, 0) /\ UnlockCrtc[4] = Out("crtc", "index", 17)
        /\ UnlockCrtc[5] = In("crtc", "tmp") /\ UnlockCrtc[6] = OutLocal("crtc", "tmp", 0, 128)
    BY DEF UnlockCrtc
  <2> QED
    BY <2>1, <2>2
<1>4. ChipAt(at, chip, local, w) /\ chip \in Chips /\ local \in Locals
  BY DEF ChipAt
<1> HIDE DEF w
<1>5. CASE at = 1
  <2>1. chip' = Written(chip, "misc", "data", w.misc[0]) /\ local' = local
    BY <1>2, <1>5, DoOut
  <2>2. ChipAt(2, chip', local, w)
    BY <1>1, <1>4, <1>5, <2>1, MiscGoes
  <2> QED
    BY <1>5, <2>1, <2>2 DEF w
<1>6. CASE at \in 2 .. 11
  <2>1. PICK k \in 0 .. 4 : at = 1 + (2 * k + 1) \/ at = 1 + (2 * k + 2)
    <3>1. ((at - 2) \div 2) \in 0 .. 4 /\ (at = 1 + (2 * ((at - 2) \div 2) + 1) \/ at = 1 + (2 * ((at - 2) \div 2) + 2))
      BY <1>6
    <3> QED
      BY <3>1
  <2>2. at \in SeqPlaces
    BY <1>6 DEF SeqPlaces
  <2>3. CASE at = 1 + (2 * k + 1)
    <3>1. chip' = Written(chip, "seq", "index", k) /\ local' = local
      BY <1>2, <2>3, DoOut
    <3>2. ChipAt(at + 1, chip', local, w)
      BY <1>4, <2>2, <2>3, <3>1, SeqIndexGoes
    <3> QED
      BY <3>1, <3>2 DEF w
  <2>4. CASE at = 1 + (2 * k + 2)
    <3> DEFINE b == w.seq[k]
    <3>1. chip' = Written(chip, "seq", "data", b) /\ local' = local
      BY <1>2, <2>4, DoOut
    <3>2. b \in Int /\ SeqWrite(at, k, b, w.seq)
      BY <1>1, <2>4 DEF RegisterSets, SeqWrite
    <3> HIDE DEF b
    <3>3. ChipAt(at + 1, chip', local, w)
      BY <1>4, <2>2, <3>1, <3>2, SeqDataGoes
    <3> QED
      BY <3>1, <3>3 DEF w
  <2> QED
    BY <2>1, <2>3, <2>4
<1>7. CASE at \in {12, 15}
  <2> DEFINE k == IF at = 12 THEN 3 ELSE 17
  <2>1. chip' = Written(chip, "crtc", "index", k) /\ local' = local
    BY <1>3, <1>7, DoOut
  <2>2. at \in CrtcPlaces /\ k \in 0 .. 24 /\ ((at = 12 /\ k = 3) \/ (at = 15 /\ k = 17))
    BY <1>7 DEF CrtcPlaces
  <2> HIDE DEF k
  <2>3. ChipAt(at + 1, chip', local, w)
    BY <1>4, <2>1, <2>2, CrtcIndexGoes
  <2> QED
    BY <2>1, <2>3 DEF w
<1>8. CASE at \in {13, 16}
  <2>1. PICK b \in ReadBack(chip, "crtc") : local' = [local EXCEPT !["tmp"] = b]
    BY <1>3, <1>8, DoIn
  <2>2. chip' = chip
    BY <1>3, <1>8, DoIn
  <2>3. ChipAt(at + 1, chip, local', w)
    BY <1>4, <1>8, <2>1, ReadGoes
  <2> QED
    BY <2>2, <2>3 DEF w
<1>9. CASE at = 14
  <2> DEFINE b == With(local["tmp"], 128)
  <2>1. chip' = Written(chip, "crtc", "data", b) /\ local' = local
    BY <1>3, <1>9, DoOutLocal
  <2>2. b \in Int
    BY <1>4 DEF Locals, With
  <2> HIDE DEF b
  <2>3. ChipAt(15, chip', local, w)
    BY <1>4, <1>9, <2>1, <2>2, NoLockGoes
  <2> QED
    BY <1>9, <2>1, <2>3 DEF w
<1>10. CASE at = 17
  <2> DEFINE b == Without(local["tmp"], 128)
  <2>1. chip' = Written(chip, "crtc", "data", b) /\ local' = local
    BY <1>3, <1>10, DoOutLocal
  <2>2. ChipAt(18, chip', local, w)
    BY <1>4, <1>10, <2>1, UnlockGoes
  <2> QED
    BY <1>10, <2>1, <2>2 DEF w
<1>11. CASE at \in 18 .. 67
  <2>1. PICK k \in 0 .. 24 : at = 17 + (2 * k + 1) \/ at = 17 + (2 * k + 2)
    <3>1. ((at - 18) \div 2) \in 0 .. 24
          /\ (\/ at = 17 + (2 * ((at - 18) \div 2) + 1)
              \/ at = 17 + (2 * ((at - 18) \div 2) + 2))
      BY <1>11
    <3> QED
      BY <3>1
  <2>2. at \in CrtcPlaces
    BY <1>11 DEF CrtcPlaces
  <2>3. CASE at = 17 + (2 * k + 1)
    <3>1. chip' = Written(chip, "crtc", "index", k) /\ local' = local
      BY <1>2, <2>3, DoOut
    <3>2. ChipAt(at + 1, chip', local, w)
      BY <1>4, <2>2, <2>3, <3>1, CrtcIndexGoes
    <3> QED
      BY <3>1, <3>2 DEF w
  <2>4. CASE at = 17 + (2 * k + 2)
    <3>1. chip' = Written(chip, "crtc", "data", StayUnlocked(w.crtc)[k]) /\ local' = local
      BY <1>2, <2>4, DoOut
    <3>2. ChipAt(at + 1, chip', local, w)
      BY <1>1, <1>4, <2>2, <2>4, <3>1, CrtcDataGoes
    <3> QED
      BY <3>1, <3>2 DEF w
  <2> QED
    BY <2>1, <2>3, <2>4
<1>12. CASE at \in 68 .. 85
  <2>1. PICK k \in 0 .. 8 : at = 67 + (2 * k + 1) \/ at = 67 + (2 * k + 2)
    <3>1. ((at - 68) \div 2) \in 0 .. 8
          /\ (\/ at = 67 + (2 * ((at - 68) \div 2) + 1)
              \/ at = 67 + (2 * ((at - 68) \div 2) + 2))
      BY <1>12
    <3> QED
      BY <3>1
  <2>2. at \in GcPlaces
    BY <1>12 DEF GcPlaces
  <2>3. CASE at = 67 + (2 * k + 1)
    <3>1. chip' = Written(chip, "gc", "index", k) /\ local' = local
      BY <1>2, <2>3, DoOut
    <3>2. ChipAt(at + 1, chip', local, w)
      BY <1>4, <2>2, <2>3, <3>1, GcIndexGoes
    <3> QED
      BY <3>1, <3>2 DEF w
  <2>4. CASE at = 67 + (2 * k + 2)
    <3> DEFINE b == w.gc[k]
    <3>1. chip' = Written(chip, "gc", "data", b) /\ local' = local
      BY <1>2, <2>4, DoOut
    <3>2. b \in Int /\ GcWrite(at, k, b, w.gc)
      BY <1>1, <2>4 DEF RegisterSets, GcWrite
    <3> HIDE DEF b
    <3>3. ChipAt(at + 1, chip', local, w)
      BY <1>4, <2>2, <3>1, <3>2, GcDataGoes
    <3> QED
      BY <3>1, <3>3 DEF w
  <2> QED
    BY <2>1, <2>3, <2>4
<1>13. CASE at \in 86 .. 150
  <2>1. at \in {149, 150} \/ \E k \in 0 .. 20 : at = 85 + (3 * k + 1) \/ at = 85 + (3 * k + 2) \/ at = 85 + (3 * k + 3)
    <3> DEFINE k == (at - 86) \div 3
    <3>1. at \in {149, 150} \/ k \in 0 .. 20
      BY <1>13
    <3>2. at = 85 + (3 * k + 1) \/ at = 85 + (3 * k + 2) \/ at = 85 + (3 * k + 3)
      BY <1>13
    <3> QED
      BY <3>1, <3>2
  <2>2. at \in AcPlaces
    BY <1>13 DEF AcPlaces
  <2>3. CASE at = 149 \/ \E k \in 0 .. 20 : at = 85 + (3 * k + 1)
    <3>1. chip' = [chip EXCEPT !.acData = FALSE] /\ local' = local
      BY <1>2, <2>3, DoInstat
    <3>2. ChipAt(at + 1, chip', local, w)
      BY <1>4, <2>2, <2>3, <3>1, AcSyncGoes
    <3> QED
      BY <3>1, <3>2 DEF w
  <2>4. ASSUME NEW k \in Int, (at = 150 /\ k = 32) \/ (k \in 0 .. 20 /\ at = 85 + (3 * k + 2))
        PROVE  ChipAt(at + 1, chip', local', w)
    <3>1. chip' = Written(chip, "ac", "both", k) /\ local' = local
      BY <1>2, <2>4, DoOut
    <3>2. ChipAt(at + 1, chip', local, w)
      BY <1>4, <2>2, <2>4, <3>1, AcIndexGoes
    <3> QED
      BY <3>1, <3>2
  <2>5. ASSUME NEW k \in 0 .. 20, at = 85 + (3 * k + 3)
        PROVE  ChipAt(at + 1, chip', local', w)
    <3>1. chip' = Written(chip, "ac", "both", w.ac[k]) /\ local' = local
      BY <1>2, <2>5, DoOut
    <3>2. ChipAt(at + 1, chip', local, w)
      BY <1>1, <1>4, <2>2, <2>5, <3>1, AcDataGoes
    <3> QED
      BY <3>1, <3>2
  <2>6. CASE at = 150
    BY <2>4, <2>6 DEF w
  <2>7. ASSUME NEW k \in 0 .. 20, at = 85 + (3 * k + 1) \/ at = 85 + (3 * k + 2) \/ at = 85 + (3 * k + 3)
        PROVE  ChipAt(at + 1, chip', local', w)
    <3>1. CASE at = 85 + (3 * k + 1)
      BY <2>3, <3>1 DEF w
    <3>2. CASE at = 85 + (3 * k + 2)
      <4>1. k \in Int /\ ((at = 150 /\ k = 32) \/ (k \in 0 .. 20 /\ at = 85 + (3 * k + 2)))
        BY <3>2
      <4> QED
        BY <2>4, <4>1
    <3>3. CASE at = 85 + (3 * k + 3)
      BY <2>5, <3>3
    <3> QED
      BY <2>7, <3>1, <3>2, <3>3
  <2>8. CASE at = 149
    BY <2>3, <2>8
  <2> QED
    BY <2>1, <2>6, <2>7, <2>8 DEF w
<1> QED
  BY <1>5, <1>6, <1>7, <1>8, <1>9, <1>10, <1>11, <1>12, <1>13

-----------------------------------------------------------------------------
(* write_font: save, change, load, restore. *)
LEMMA FontGoes ==
  ASSUME NEW mode, NEW p, Placed(p, mode), NEW at \in 151 .. 178,
         ChipAt(at, chip, local, Wanted(mode)), Do(p[at])
  PROVE  ChipAt(at + 1, chip', local', Wanted(mode))
<1> DEFINE w == Wanted(mode)
           h == Height(mode)
<1>1. w \in RegisterSets
  BY ModeFits
<1>2. ChipAt(at, chip, local, w) /\ chip \in Chips /\ local \in Locals /\ LocalsAt(at, local, w)
  BY DEF ChipAt
<1>3. w.seq[2] \in Int /\ w.seq[4] \in Int /\ w.gc[4] \in Int /\ w.gc[5] \in Int /\ w.gc[6] \in Int
  BY <1>1 DEF RegisterSets
<1>4. h = Height(mode)
  OBVIOUS
<1> HIDE DEF w, h
<1>5. CASE at \in {151, 153, 166, 169, 171}
  <2> DEFINE k == IF at \in {153, 171} THEN 4 ELSE 2
  <2>1. chip' = Written(chip, "seq", "index", k) /\ local' = local
    BY <1>4, <1>5, FontPlaced, DoOut
  <2>2. /\ at \in SeqPlaces /\ k \in 0 .. 4
        /\ (at \in {151, 166, 169} /\ k = 2) \/ (at \in {153, 171} /\ k = 4)
    BY <1>5 DEF SeqPlaces
  <2> HIDE DEF k
  <2>3. ChipAt(at + 1, chip', local, w)
    BY <1>2, <2>1, <2>2, SeqIndexGoes
  <2> QED
    BY <2>1, <2>3 DEF w
<1>6. CASE at \in {156, 158, 161, 164, 173, 175, 177}
  <2> DEFINE k == IF at \in {156, 164, 173} THEN 4 ELSE IF at \in {158, 175} THEN 5 ELSE 6
  <2>1. chip' = Written(chip, "gc", "index", k) /\ local' = local
    BY <1>4, <1>6, FontPlaced, DoOut
  <2>2. /\ at \in GcPlaces /\ k \in 0 .. 8
        /\ (at \in {156, 164, 173} /\ k = 4) \/ (at \in {158, 175} /\ k = 5) \/ (at \in {161, 177} /\ k = 6)
    BY <1>6 DEF GcPlaces
  <2> HIDE DEF k
  <2>3. ChipAt(at + 1, chip', local, w)
    BY <1>2, <2>1, <2>2, GcIndexGoes
  <2> QED
    BY <2>1, <2>3 DEF w
<1>7. ASSUME NEW k \in 0 .. 4, NEW b \in Int, SeqWrite(at, k, b, w.seq), at \in SeqPlaces,
             chip' = Written(chip, "seq", "data", b) /\ local' = local
      PROVE  ChipAt(at + 1, chip', local', w)
  BY <1>2, <1>7, SeqDataGoes
<1>8. ASSUME NEW k \in 0 .. 8, NEW b \in Int, GcWrite(at, k, b, w.gc), at \in GcPlaces,
             chip' = Written(chip, "gc", "data", b) /\ local' = local
      PROVE  ChipAt(at + 1, chip', local', w)
  BY <1>2, <1>8, GcDataGoes
<1>9. CASE at = 155
  <2> DEFINE b == With(local["seq4"], 4)
  <2>1. chip' = Written(chip, "seq", "data", b) /\ local' = local
    BY <1>4, <1>9, FontPlaced, DoOutLocal
  <2>2. local["seq4"] = w.seq[4]
    BY <1>2, <1>9 DEF LocalsAt
  <2>3. b \in Int /\ SeqWrite(at, 4, b, w.seq) /\ 4 \in 0 .. 4
    BY <1>3, <1>9, <2>2 DEF SeqWrite, With
  <2>4. at \in SeqPlaces
    BY <1>9 DEF SeqPlaces
  <2> HIDE DEF b
  <2> QED
    BY <1>7, <2>1, <2>3, <2>4 DEF w
<1>10. CASE at = 160
  <2> DEFINE b == Without(local["gc5"], 16)
  <2>1. chip' = Written(chip, "gc", "data", b) /\ local' = local
    BY <1>4, <1>10, FontPlaced, DoOutLocal
  <2>2. local["gc5"] = w.gc[5]
    BY <1>2, <1>10 DEF LocalsAt
  <2>3. b \in Int /\ GcWrite(at, 5, b, w.gc) /\ 5 \in 0 .. 8
    BY <1>3, <1>10, <2>2 DEF GcWrite, Without
  <2>4. at \in GcPlaces
    BY <1>10 DEF GcPlaces
  <2> HIDE DEF b
  <2> QED
    BY <1>8, <2>1, <2>3, <2>4 DEF w
<1>11. CASE at = 163
  <2> DEFINE b == Without(local["gc6"], 2)
  <2>1. chip' = Written(chip, "gc", "data", b) /\ local' = local
    BY <1>4, <1>11, FontPlaced, DoOutLocal
  <2>2. local["gc6"] = w.gc[6]
    BY <1>2, <1>11 DEF LocalsAt
  <2>3. b \in Int /\ GcWrite(at, 6, b, w.gc) /\ 6 \in 0 .. 8
    BY <1>3, <1>11, <2>2 DEF GcWrite, Without
  <2>4. at \in GcPlaces
    BY <1>11 DEF GcPlaces
  <2> HIDE DEF b
  <2> QED
    BY <1>8, <2>1, <2>3, <2>4 DEF w
<1>12. CASE at = 165
  <2>1. chip' = Written(chip, "gc", "data", 2) /\ local' = local
    BY <1>4, <1>12, FontPlaced, DoOut
  <2>2. GcWrite(at, 4, 2, w.gc) /\ 4 \in 0 .. 8 /\ 2 \in Int
    BY <1>12 DEF GcWrite
  <2>3. at \in GcPlaces
    BY <1>12 DEF GcPlaces
  <2> QED
    BY <1>8, <2>1, <2>2, <2>3 DEF w
<1>13. CASE at = 167
  <2>1. chip' = Written(chip, "seq", "data", 4) /\ local' = local
    BY <1>4, <1>13, FontPlaced, DoOut
  <2>2. SeqWrite(at, 2, 4, w.seq) /\ 2 \in 0 .. 4 /\ 4 \in Int
    BY <1>13 DEF SeqWrite
  <2>3. at \in SeqPlaces
    BY <1>13 DEF SeqPlaces
  <2> QED
    BY <1>7, <2>1, <2>2, <2>3 DEF w
<1>14. CASE at \in {152, 154}
  <2> DEFINE k == IF at = 152 THEN 2 ELSE 4
             v == IF at = 152 THEN "seq2" ELSE "seq4"
  <2>1. Do(In("seq", v))
    BY <1>4, <1>14, FontPlaced
  <2>2. PICK b \in ReadBack(chip, "seq") : local' = [local EXCEPT ![v] = b]
    BY <2>1, DoIn
  <2>3. chip' = chip
    BY <2>1, DoIn
  <2>4. b = w.seq[k]
    BY <1>2, <1>14, SeqSaved
  <2>5. SavedNow(at, v, b, w)
    BY <1>14, <2>4 DEF SavedNow
  <2> HIDE DEF v, k
  <2>6. ChipAt(at + 1, chip, local', w)
    BY <1>1, <1>2, <2>2, <2>5, SaveGoes
  <2> QED
    BY <2>3, <2>6 DEF w
<1>15. CASE at \in {157, 159, 162}
  <2> DEFINE k == IF at = 157 THEN 4 ELSE IF at = 159 THEN 5 ELSE 6
             v == IF at = 157 THEN "gc4" ELSE IF at = 159 THEN "gc5" ELSE "gc6"
  <2>1. Do(In("gc", v))
    BY <1>4, <1>15, FontPlaced
  <2>2. PICK b \in ReadBack(chip, "gc") : local' = [local EXCEPT ![v] = b]
    BY <2>1, DoIn
  <2>3. chip' = chip
    BY <2>1, DoIn
  <2>4. b = w.gc[k]
    BY <1>2, <1>15, GcSaved
  <2>5. SavedNow(at, v, b, w)
    BY <1>15, <2>4 DEF SavedNow
  <2> HIDE DEF v, k
  <2>6. ChipAt(at + 1, chip, local', w)
    BY <1>1, <1>2, <2>2, <2>5, SaveGoes
  <2> QED
    BY <2>3, <2>6 DEF w
<1>16. CASE at = 168
  <2>1. chip' = chip /\ local' = local
    BY <1>4, <1>16, FontPlaced, DoFont
  <2>2. SavesKept(local, local) /\ at \in {13, 168, 179, 180}
    BY <1>2, <1>16 DEF SavesKept
  <2>3. ChipAt(at + 1, chip, local, w)
    BY <1>2, <2>2, AllQuiet
  <2> QED
    BY <2>1, <2>3 DEF w
<1>17. CASE at \in {170, 172}
  <2> DEFINE k == IF at = 170 THEN 2 ELSE 4
             v == IF at = 170 THEN "seq2" ELSE "seq4"
             b == local[v]
  <2>1. Do(OutLocal("seq", v, 0, 0))
    BY <1>4, <1>17, FontPlaced
  <2>2. chip' = Written(chip, "seq", "data", b) /\ local' = local
    BY <2>1, DoOutLocal
  <2>3. b = w.seq[k]
    BY <1>2, <1>17 DEF LocalsAt
  <2>4. b \in Int /\ SeqWrite(at, k, b, w.seq) /\ k \in 0 .. 4 /\ at \in SeqPlaces
    BY <1>3, <1>17, <2>3 DEF SeqWrite, SeqPlaces
  <2> HIDE DEF v, k, b
  <2> QED
    BY <1>7, <2>2, <2>4 DEF w
<1>18. CASE at \in {174, 176, 178}
  <2> DEFINE k == IF at = 174 THEN 4 ELSE IF at = 176 THEN 5 ELSE 6
             v == IF at = 174 THEN "gc4" ELSE IF at = 176 THEN "gc5" ELSE "gc6"
             b == local[v]
  <2>1. Do(OutLocal("gc", v, 0, 0))
    BY <1>4, <1>18, FontPlaced
  <2>2. chip' = Written(chip, "gc", "data", b) /\ local' = local
    BY <2>1, DoOutLocal
  <2>3. b = w.gc[k]
    BY <1>2, <1>18 DEF LocalsAt
  <2>4. b \in Int /\ GcWrite(at, k, b, w.gc) /\ k \in 0 .. 8 /\ at \in GcPlaces
    BY <1>3, <1>18, <2>3 DEF GcWrite, GcPlaces
  <2> HIDE DEF v, k, b
  <2> QED
    BY <1>8, <2>2, <2>4 DEF w
<1> QED
  BY <1>5, <1>6, <1>9, <1>10, <1>11, <1>12, <1>13, <1>14, <1>15, <1>16, <1>17, <1>18

(* The font is written while plane 2 is mapped, the text is not; *)
LEMMA FontReached ==
  ASSUME NEW mode, NEW c, NEW l, ChipAt(168, c, l, Wanted(mode))
  PROVE  ReachesFont(c)
<1> DEFINE w == Wanted(mode)
<1>1. w.seq[2] = 3 /\ w.seq[4] = 2 /\ w.gc[5] = 16 /\ w.gc[6] = 14
  BY ModeFits DEF Fits, Wanted
<1> HIDE DEF w
<1>2. With(2, 4) = 6 /\ Without(16, 16) = 0 /\ Without(14, 2) = 12
  BY DEF With, Without, Has
<1>3. c.regs.seq[2] = 4 /\ c.regs.seq[4] = 6 /\ c.regs.gc[5] = 0 /\ c.regs.gc[6] = 12
  <2>1. SeqAt(168, c.regs.seq, c.index.seq, w.seq) /\ GcAt(168, c.regs.gc, c.index.gc, w.gc)
    BY DEF ChipAt, w
  <2>2. c.regs.seq[2] = 4 /\ c.regs.seq[4] = With(w.seq[4], 4)
    BY <2>1 DEF SeqAt
  <2>3. c.regs.gc[5] = Without(w.gc[5], 16) /\ c.regs.gc[6] = Without(w.gc[6], 2)
    BY <2>1 DEF GcAt
  <2> QED
    BY <1>1, <1>2, <2>2, <2>3
<1>4. Has(6, 4) /\ ~Has(0, 16) /\ ~Has(12, 2) /\ (12 \div 4) % 4 = 3
  BY DEF Has
<1> QED
  BY <1>3, <1>4 DEF ReachesFont, Window

(* and the other way around when it has been restored. *)
LEMMA TextReached ==
  ASSUME NEW mode, NEW at \in {179, 180}, NEW c, NEW l, ChipAt(at, c, l, Wanted(mode))
  PROVE  ReachesText(c)
<1> DEFINE w == Wanted(mode)
<1>1. w.seq[2] = 3 /\ w.seq[4] = 2 /\ w.gc[5] = 16 /\ w.gc[6] = 14
  BY ModeFits DEF Fits, Wanted
<1> HIDE DEF w
<1>2. c.regs.seq[2] = 3 /\ c.regs.seq[4] = 2 /\ c.regs.gc[5] = 16 /\ c.regs.gc[6] = 14
  <2>1. SeqAt(at, c.regs.seq, c.index.seq, w.seq) /\ GcAt(at, c.regs.gc, c.index.gc, w.gc)
    BY DEF ChipAt, w
  <2>2. c.regs.seq[2] = w.seq[2] /\ c.regs.seq[4] = w.seq[4]
    BY <2>1 DEF SeqAt
  <2>3. c.regs.gc[5] = w.gc[5] /\ c.regs.gc[6] = w.gc[6]
    BY <2>1 DEF GcAt
  <2> QED
    BY <1>1, <2>2, <2>3
<1>3. 3 % 4 = 3 /\ ~Has(2, 4) /\ Has(16, 16) /\ Has(14, 2) /\ (14 \div 4) % 4 = 3
  BY DEF Has
<1> QED
  BY <1>2, <1>3 DEF ReachesText, Window

-----------------------------------------------------------------------------
(* Only two accesses do more than to move on. *)
LEMMA OnlyPorts ==
  ASSUME NEW mode, NEW p, Placed(p, mode), NEW at \in 1 .. 178, at # 168, Do(p[at])
  PROVE  UNCHANGED <<font, damaged, COLUMNS, LINES>>
<1> DEFINE w == Wanted(mode)
           ports == {"out", "in", "out local", "instat"}
<1>1. /\ \A u, part, b : Out(u, part, b)[1] \in ports
      /\ \A u, v : In(u, v)[1] \in ports
      /\ \A u, v, set, clear : OutLocal(u, v, set, clear)[1] \in ports
      /\ InstatRead[1] \in ports
  BY DEF Out, In, OutLocal, InstatRead
<1>2. p[at][1] \in ports
  <2> HIDE DEF ports
  <2>1. CASE at = 1 \/ at \in {149, 150}
    BY <1>1, <2>1 DEF Placed
  <2>2. CASE at \in 2 .. 11
    <3> DEFINE k == (at - 2) \div 2
    <3>1. k \in 0 .. 4 /\ (at = 1 + (2 * k + 1) \/ at = 1 + (2 * k + 2))
      BY <2>2
    <3> HIDE DEF k
    <3> QED
      BY <1>1, <3>1 DEF Placed
  <2>3. CASE at \in 12 .. 17
    <3>1. \A j \in 1 .. 6 : p[11 + j] = UnlockCrtc[j]
      BY DEF Placed
    <3>2. \A j \in 1 .. 6 : UnlockCrtc[j][1] \in ports
      BY <1>1 DEF UnlockCrtc
    <3>3. at - 11 \in 1 .. 6 /\ 11 + (at - 11) = at
      BY <2>3
    <3> QED
      BY <3>1, <3>2, <3>3
  <2>4. CASE at \in 18 .. 67
    <3> DEFINE k == (at - 18) \div 2
    <3>1. k \in 0 .. 24 /\ (at = 17 + (2 * k + 1) \/ at = 17 + (2 * k + 2))
      BY <2>4
    <3> HIDE DEF k
    <3> QED
      BY <1>1, <3>1 DEF Placed
  <2>5. CASE at \in 68 .. 85
    <3> DEFINE k == (at - 68) \div 2
    <3>1. k \in 0 .. 8 /\ (at = 67 + (2 * k + 1) \/ at = 67 + (2 * k + 2))
      BY <2>5
    <3> HIDE DEF k
    <3> QED
      BY <1>1, <3>1 DEF Placed
  <2>6. CASE at \in 86 .. 148
    <3> DEFINE k == (at - 86) \div 3
    <3>1. k \in 0 .. 20 /\ (at = 85 + (3 * k + 1) \/ at = 85 + (3 * k + 2) \/ at = 85 + (3 * k + 3))
      BY <2>6
    <3> HIDE DEF k
    <3> QED
      BY <1>1, <3>1 DEF Placed
  <2>7. CASE at \in 151 .. 178
    <3> DEFINE h == Height(mode)
    <3>1. h = Height(mode)
      OBVIOUS
    <3> HIDE DEF h
    <3> QED
      BY <1>1, <2>7, <3>1, FontPlaced
  <2> QED
    BY <2>1, <2>2, <2>3, <2>4, <2>5, <2>6, <2>7
<1> QED
  BY <1>2 DEF Do

(* The cursor registers are all that cursor() changes for good. *)
OnlyRegister(c, d, i, b) ==
  d.regs.crtc[i] = b /\ \A j \in {14, 15} : j # i => d.regs.crtc[j] = c.regs.crtc[j]

(* The cursor registers are written after the call is complete. *)
LEMMA CursorGoes ==
  ASSUME NEW c, NEW l, NEW w, ChipAt(181, c, l, w), NEW i \in {14, 15}, NEW b \in Int,
         NEW d, d = Written(Written(c, "crtc", "index", i), "crtc", "data", b)
  PROVE  ChipAt(181, d, l, w) /\ OnlyRegister(c, d, i, b)
<1> DEFINE e == Written(c, "crtc", "index", i)
<1>1. /\ c \in Chips /\ c.regs.crtc \in [0 .. 24 -> Int] /\ CrtcAt(181, c.regs.crtc, c.index.crtc, w.crtc)
  BY DEF ChipAt, Chips, RegisterSets
<1>2. i \in Int /\ "crtc" \in {"seq", "crtc", "gc"} /\ d = Written(e, "crtc", "data", b) /\ i % 32 = i
  OBVIOUS
<1>3. e = Written(c, "crtc", "index", i)
  OBVIOUS
<1> HIDE DEF e
<1>4. IndexSet(c, e, "crtc", i) /\ e.acData = c.acData
  BY <1>1, <1>2, <1>3, WriteIndex
<1>5. /\ e \in Chips /\ e.regs = c.regs /\ e.index["crtc"] = i
      /\ \A u \in Units \ {"crtc"} : e.index[u] = c.index[u]
  BY <1>4 DEF IndexSet
<1>6. e.index["crtc"] % 32 \in DOMAIN e.regs["crtc"] /\ "crtc" \in {"misc", "seq", "crtc", "gc"} /\ e.index.crtc >= 8
  BY <1>1, <1>2, <1>5
<1>7. RegisterSet(e, d, "crtc", b) /\ d.acData = e.acData
  BY <1>2, <1>5, <1>6, WriteData
<1>8. /\ d \in Chips /\ d.index = e.index /\ d.regs.crtc = [c.regs.crtc EXCEPT ![i] = b]
      /\ d.regs.misc = c.regs.misc /\ d.regs.seq = c.regs.seq /\ d.regs.gc = c.regs.gc /\ d.regs.ac = c.regs.ac
  BY <1>2, <1>5, <1>7 DEF RegisterSet, Units
<1>9. d.index.misc = c.index.misc /\ d.index.seq = c.index.seq /\ d.index.gc = c.index.gc /\ d.index.ac = c.index.ac
  BY <1>5, <1>8 DEF Units
<1>10. CrtcAt(181, d.regs.crtc, d.index.crtc, w.crtc)
  <2> DEFINE s == c.regs.crtc
             t == d.regs.crtc
             v == StayUnlocked(w.crtc)
  <2>1. s \in [0 .. 24 -> Int] /\ t = [s EXCEPT ![i] = b]
    BY <1>1, <1>8
  <2>2. s[17] \in 0 .. 255 /\ ~Has(s[17], 128) /\ \A k \in 0 .. 24 : k \notin {14, 15} => s[k] = v[k]
    BY <1>1 DEF CrtcAt
  <2> HIDE DEF s, t, v
  <2>3. t[17] = s[17] /\ \A k \in 0 .. 24 : k \notin {14, 15} => t[k] = v[k]
    BY <2>1, <2>2
  <2> QED
    BY <2>2, <2>3 DEF CrtcAt, t, v
<1>11. OnlyRegister(c, d, i, b)
  BY <1>1, <1>8 DEF OnlyRegister
<1>12. ChipAt(181, d, l, w)
  BY <1>4, <1>7, <1>8, <1>9, <1>10 DEF ChipAt
<1> QED
  BY <1>11, <1>12

-----------------------------------------------------------------------------
(* A cell of the screen, and its number in two bytes. *)
IsCell(number, columns, x, y) ==
  columns \in {40, 80, 90} /\ x \in 0 .. columns - 1 /\ y \in 0 .. 59 /\ number = y * columns + x

(* A number that is a cell of the screen determines its column and line. *)
LEMMA CellAt ==
  ASSUME NEW number, NEW columns, NEW x, NEW y, IsCell(number, columns, x, y)
  PROVE  number \in Nat /\ number < 65536 /\ number % columns = x /\ number \div columns = y
<1>1. CASE columns = 40
  <2>1. number = y * 40 + x /\ x \in 0 .. 39 /\ y \in 0 .. 59
    BY <1>1 DEF IsCell
  <2>2. number \in Nat /\ number < 65536 /\ number % 40 = x /\ number \div 40 = y
    BY <2>1
  <2> QED
    BY <1>1, <2>2
<1>2. CASE columns = 80
  <2>1. number = y * 80 + x /\ x \in 0 .. 79 /\ y \in 0 .. 59
    BY <1>2 DEF IsCell
  <2>2. number \in Nat /\ number < 65536 /\ number % 80 = x /\ number \div 80 = y
    BY <2>1
  <2> QED
    BY <1>2, <2>2
<1>3. CASE columns = 90
  <2>1. number = y * 90 + x /\ x \in 0 .. 89 /\ y \in 0 .. 59
    BY <1>3 DEF IsCell
  <2>2. number \in Nat /\ number < 65536 /\ number % 90 = x /\ number \div 90 = y
    BY <2>1
  <2> QED
    BY <1>3, <2>2
<1> QED
  BY <1>1, <1>2, <1>3 DEF IsCell

(* A number below 2^16 is its two bytes. *)
LEMMA TwoBytes ==
  ASSUME NEW number \in Nat, number < 65536
  PROVE  256 * ((number \div 256) % 256) + (number % 256) = number
<1>1. number \div 256 \in 0 .. 255 /\ number = 256 * (number \div 256) + (number % 256)
  OBVIOUS
<1>2. (number \div 256) % 256 = number \div 256
  BY <1>1
<1> QED
  BY <1>1, <1>2

(* The sizes of the text modes. *)
LEMMA SizeIs ==
  ASSUME NEW mode
  PROVE  TextMode(mode).cols \in {40, 80, 90} /\ TextMode(mode).rows \in 1 .. 60 /\ Height(mode) \in {8, 16}
<1>1. TextMode(mode).cols \in {40, 80, 90}
  BY DEF TextMode, Mode
<1>2. TextMode(mode).rows \in 1 .. 60
  BY ModeFits DEF Fits
<1> QED
  BY <1>1, <1>2 DEF Height, FontFor

-----------------------------------------------------------------------------
(* The access that comes next; 181 stands for none. *)
Coming == IF pc = 0 THEN 181 ELSE pc

(* The cursor is at a cell of the screen, and its registers hold the cell. *)
CursorPlaced ==
  \E x \in 0 .. COLUMNS - 1, y \in 0 .. LINES - 1 :
    /\ place = <<x, y>>
    /\ Crtc[14] = (Cell(x, y) \div 256) % 256 /\ Crtc[15] = Cell(x, y) % 256

DisplayInv ==
  /\ setting \in 0 .. 6 /\ pc \in 0 .. 180
  /\ ChipAt(Coming, chip, local, Wanted(setting))
  /\ damaged = FALSE
  /\ Coming > 168 => font = Height(setting)
  /\ Coming > 179 => COLUMNS = TextMode(setting).cols /\ LINES = TextMode(setting).rows
  /\ pc = 0 => cleared = COLUMNS * LINES
  /\ place # <<>> => pc = 0 /\ CursorPlaced

(* Whatever the firmware left, any program can start. *)
LEMMA ChipStarts ==
  ASSUME NEW r \in RegisterSets, NEW s \in [0 .. 24 -> Int], s[17] \in 0 .. 255, NEW data \in BOOLEAN,
         NEW l \in Locals, NEW w,
         NEW c, c = [regs |-> [r EXCEPT !.crtc = s], acData |-> data,
                     index |-> [seq |-> 0, crtc |-> 0, gc |-> 0, ac |-> 32, misc |-> 0]]
  PROVE  ChipAt(1, c, l, w)
<1>1. [r EXCEPT !.crtc = s] \in RegisterSets /\ [r EXCEPT !.crtc = s].crtc = s
  BY DEF RegisterSets
<1> DEFINE i == [seq |-> 0, crtc |-> 0, gc |-> 0, ac |-> 32, misc |-> 0]
           t == [r EXCEPT !.crtc = s]
<1>0. i \in [misc : Int, seq : Int, crtc : Int, gc : Int, ac : Int]
      /\ i.misc = 0 /\ c = [regs |-> t, acData |-> data, index |-> i]
  OBVIOUS
<1> HIDE DEF i, t
<1>2. c \in Chips /\ c.index.misc = 0 /\ c.regs.crtc[17] \in 0 .. 255
  <2>1. t \in RegisterSets /\ t.crtc = s
    BY <1>1 DEF t
  <2>2. c.regs = t /\ c.acData = data /\ c.index = i
    BY <1>0
  <2>3. c \in Chips
    BY <1>0, <2>1 DEF Chips
  <2> QED
    BY <1>0, <2>1, <2>2, <2>3
<1>3. /\ SeqAt(1, c.regs.seq, c.index.seq, w.seq) /\ CrtcAt(1, c.regs.crtc, c.index.crtc, w.crtc)
      /\ GcAt(1, c.regs.gc, c.index.gc, w.gc) /\ LocalsAt(1, l, w)
  BY <1>2 DEF SeqAt, CrtcAt, GcAt, LocalsAt
<1>4. AcAt(1, c.regs.ac, c.index.ac, c.acData, w.ac)
  BY DEF AcAt
<1> QED
  BY <1>2, <1>3, <1>4 DEF ChipAt

(* The invariant holds at the start. *)
LEMMA DisplayStarts == DisplayInit => DisplayInv
<1> SUFFICES ASSUME DisplayInit PROVE DisplayInv
  OBVIOUS
<1> DEFINE r == Registers(g_80x25_text)
<1>1. r \in RegisterSets /\ r.crtc[17] \in 0 .. 255
  <2>1. TextMode(0) = Mode(g_80x25_text, 80, 25, 16)
    BY DEF TextMode
  <2>2. Fits(Mode(g_80x25_text, 80, 25, 16)) /\ Mode(g_80x25_text, 80, 25, 16).regs = g_80x25_text
    BY <2>1, ModeFits DEF Mode
  <2> QED
    BY <2>2 DEF Fits
<1>2. PICK locked, readable, data \in BOOLEAN :
        chip = [regs |-> [r EXCEPT !.crtc = [r.crtc EXCEPT ![3] = IF readable THEN With(@, 128) ELSE Without(@, 128),
                                                          ![17] = IF locked THEN With(@, 128) ELSE Without(@, 128)]],
                acData |-> data,
                index |-> [seq |-> 0, crtc |-> 0, gc |-> 0, ac |-> 32, misc |-> 0]]
  BY DEF DisplayInit, VgaInit
<1> DEFINE s == [r.crtc EXCEPT ![3] = IF readable THEN With(@, 128) ELSE Without(@, 128),
                               ![17] = IF locked THEN With(@, 128) ELSE Without(@, 128)]
<1> HIDE DEF r
<1>3. r.crtc \in [0 .. 24 -> Int]
  BY <1>1 DEF RegisterSets
<1>4. \A b \in 0 .. 255 : With(b, 128) \in 0 .. 255 /\ Without(b, 128) \in 0 .. 255
  BY DEF With, Without, Has
<1>5. \A b \in Int : With(b, 128) \in Int /\ Without(b, 128) \in Int
  BY DEF With, Without
<1>6. s \in [0 .. 24 -> Int] /\ s[17] \in 0 .. 255
  <2> DEFINE a == IF readable THEN With(r.crtc[3], 128) ELSE Without(r.crtc[3], 128)
             b == IF locked THEN With(r.crtc[17], 128) ELSE Without(r.crtc[17], 128)
  <2>0. r.crtc[3] \in Int /\ r.crtc[17] \in 0 .. 255
    BY <1>1, <1>3
  <2>1. a \in Int /\ b \in 0 .. 255
    BY <1>4, <1>5, <2>0
  <2>2. s = [r.crtc EXCEPT ![3] = a, ![17] = b]
    BY <1>3
  <2> HIDE DEF a, b, s
  <2> QED
    BY <1>3, <2>1, <2>2
<1>7. local \in Locals
  BY DEF DisplayInit, VgaInit, Locals
<1>10. chip = [regs |-> [r EXCEPT !.crtc = s], acData |-> data,
               index |-> [seq |-> 0, crtc |-> 0, gc |-> 0, ac |-> 32, misc |-> 0]]
  BY <1>2
<1> HIDE DEF s
<1>8. ChipAt(1, chip, local, Wanted(setting))
  BY <1>1, <1>6, <1>7, <1>10, ChipStarts
<1>9. pc = 1 /\ Coming = 1 /\ setting = 2 /\ damaged = FALSE /\ place = <<>>
  BY DEF DisplayInit, VgaInit, Coming, TEXT_90x30
<1> QED
  BY <1>8, <1>9 DEF DisplayInv

(* One access of set_text_mode. *)
LEMMA GoKeeps == ASSUME DisplayInv, Go PROVE DisplayInv'
<1> DEFINE p == Calls[setting]
<1>1. setting \in 0 .. 6 /\ pc \in 0 .. 180 /\ damaged = FALSE
  BY DEF DisplayInv
<1>2. Placed(p, setting) /\ Len(p) = 179
  <2>1. p = set_text_mode(setting)
    BY <1>1 DEF Calls
  <2> QED
    BY <2>1, CallPlaced DEF Placed
<1>3. /\ pc \in 1 .. 179 /\ Do(p[pc]) /\ pc' = pc + 1
      /\ setting' = setting /\ cleared' = cleared /\ place' = place
  BY <1>2 DEF Go
<1>4. Coming = pc /\ Coming' = pc + 1 /\ pc' # 0
  BY <1>3 DEF Coming
<1>5. ChipAt(pc, chip, local, Wanted(setting))
  BY <1>4 DEF DisplayInv
<1> HIDE DEF p
<1>6. ChipAt(pc + 1, chip', local', Wanted(setting)) /\ damaged' = FALSE
      /\ (pc + 1 > 168 => font' = Height(setting))
      /\ (pc + 1 > 179 => COLUMNS' = TextMode(setting).cols /\ LINES' = TextMode(setting).rows)
  <2>1. CASE pc = 179
    <3>1. Do(SetSize(TextMode(setting).cols, TextMode(setting).rows))
      BY <1>2, <1>3, <2>1 DEF Placed
    <3>2. ReachesText(chip)
      BY <1>5, <2>1, TextReached
    <3>3. /\ COLUMNS' = TextMode(setting).cols /\ LINES' = TextMode(setting).rows
          /\ chip' = chip /\ local' = local /\ font' = font
      BY <3>1, DoSize
    <3>4. damaged' = FALSE
      BY <1>1, <3>1, <3>2, DoSize
    <3>5. font = Height(setting)
      BY <1>4, <2>1 DEF DisplayInv
    <3>6. SavesKept(local, local) /\ pc \in {13, 168, 179, 180}
      BY <1>5, <2>1 DEF ChipAt, SavesKept
    <3>7. ChipAt(pc + 1, chip, local, Wanted(setting))
      BY <1>5, <3>6, AllQuiet
    <3> QED
      BY <3>3, <3>4, <3>5, <3>7
  <2>2. CASE pc = 168
    <3> DEFINE h == Height(setting)
    <3>1. h = Height(setting)
      OBVIOUS
    <3> HIDE DEF h
    <3>2. Do(LoadFont(h))
      BY <1>2, <1>3, <2>2, <3>1, FontPlaced
    <3>3. ReachesFont(chip)
      BY <1>5, <2>2, FontReached
    <3>4. font' = h
      BY <3>2, DoFont
    <3>5. damaged' = FALSE
      BY <1>1, <3>2, <3>3, DoFont
    <3>6. ChipAt(pc + 1, chip', local', Wanted(setting))
      BY <1>2, <1>3, <1>5, <2>2, FontGoes
    <3> QED
      BY <2>2, <3>1, <3>4, <3>5, <3>6
  <2>3. CASE pc \notin {168, 179}
    <3>1. pc \in 1 .. 178 /\ pc # 168
      BY <1>3, <2>3
    <3>2. font' = font /\ damaged' = damaged
      BY <1>2, <1>3, <3>1, OnlyPorts
    <3>3. pc > 168 => font = Height(setting)
      BY <1>4 DEF DisplayInv
    <3>4. ChipAt(pc + 1, chip', local', Wanted(setting))
      <4>1. CASE pc \in 1 .. 150
        BY <1>2, <1>3, <1>5, <4>1, TablesGo
      <4>2. CASE pc \in 151 .. 178
        BY <1>2, <1>3, <1>5, <4>2, FontGoes
      <4> QED
        BY <3>1, <4>1, <4>2
    <3> QED
      BY <1>1, <3>1, <3>2, <3>3, <3>4
  <2> QED
    BY <2>1, <2>2, <2>3
<1>7. place' = <<>>
  BY <1>3 DEF DisplayInv
<1> QED
  BY <1>1, <1>3, <1>4, <1>6, <1>7 DEF DisplayInv

(* Clearing the screen keeps it. *)
LEMMA ClearScreenKeeps == ASSUME DisplayInv, ClearScreen PROVE DisplayInv'
<1>1. setting \in 0 .. 6 /\ damaged = FALSE
  BY DEF DisplayInv
<1>2. Len(Calls[setting]) = 179
  <2>1. Calls[setting] = set_text_mode(setting)
    BY <1>1 DEF Calls
  <2> QED
    BY <2>1, CallPlaced DEF Placed
<1>3. /\ pc = 180 /\ pc' = 0 /\ cleared' = COLUMNS * LINES
      /\ damaged' = (damaged \/ ~ReachesText(chip))
      /\ UNCHANGED <<chip, local, font, COLUMNS, LINES, setting, place>>
  BY <1>2 DEF ClearScreen
<1>4. Coming = 180 /\ Coming' = 181
  BY <1>3 DEF Coming
<1>5. ChipAt(180, chip, local, Wanted(setting))
  BY <1>4 DEF DisplayInv
<1>6. ReachesText(chip)
  BY <1>5, TextReached
<1>7. damaged' = FALSE
  BY <1>1, <1>3, <1>6
<1>8. ChipAt(181, chip, local, Wanted(setting))
  <2>1. SavesKept(local, local) /\ 180 \in {13, 168, 179, 180} /\ 180 + 1 = 181
    BY <1>5 DEF ChipAt, SavesKept
  <2>2. ChipAt(180 + 1, chip, local, Wanted(setting))
    BY <1>5, <2>1, AllQuiet
  <2> QED
    BY <2>1, <2>2
<1>9. font = Height(setting) /\ COLUMNS = TextMode(setting).cols /\ LINES = TextMode(setting).rows /\ place = <<>>
  BY <1>3, <1>4 DEF DisplayInv
<1> QED
  BY <1>1, <1>3, <1>4, <1>7, <1>8, <1>9 DEF DisplayInv

(* Starting a mode change keeps it. *)
LEMMA ChangeModeKeeps == ASSUME DisplayInv, ChangeMode PROVE DisplayInv'
<1>1. PICK argument \in Arguments : Call(atoi(Decimal(argument)))
  BY DEF ChangeMode
<1>2. pc = 0 /\ place' = <<>> /\ chip' = chip /\ local' = local /\ damaged' = damaged
  BY DEF ChangeMode, vgaVars
<1>3. atoi(Decimal(argument)) \in Nat
  BY AtoiReadsDecimal, DisplayAssumption, NumbersAssumption
<1>4. setting' \in 0 .. 6 /\ pc' = 1
  BY <1>1, <1>3 DEF Call
<1>5. Coming = 181 /\ Coming' = 1
  BY <1>2, <1>4 DEF Coming
<1>6. ChipAt(181, chip, local, Wanted(setting)) /\ damaged = FALSE
  BY <1>5 DEF DisplayInv
<1> DEFINE w == Wanted(setting')
<1> HIDE DEF w
<1>7. ChipAt(1, chip, local, w)
  <2>1. chip \in Chips /\ local \in Locals /\ chip.index.misc = 0 /\ chip.regs.crtc[17] \in 0 .. 255
    BY <1>6 DEF ChipAt, CrtcAt
  <2>2. /\ SeqAt(1, chip.regs.seq, chip.index.seq, w.seq) /\ CrtcAt(1, chip.regs.crtc, chip.index.crtc, w.crtc)
        /\ GcAt(1, chip.regs.gc, chip.index.gc, w.gc) /\ LocalsAt(1, local, w)
    BY <2>1 DEF SeqAt, CrtcAt, GcAt, LocalsAt
  <2>3. AcAt(1, chip.regs.ac, chip.index.ac, chip.acData, w.ac)
    BY DEF AcAt
  <2> QED
    BY <2>1, <2>2, <2>3 DEF ChipAt
<1>8. ChipAt(Coming, chip, local, Wanted(setting))'
  BY <1>2, <1>5, <1>7 DEF w
<1> QED
  BY <1>2, <1>4, <1>5, <1>6, <1>8 DEF DisplayInv

(* Moving the cursor keeps it. *)
LEMMA MoveCursorKeeps == ASSUME DisplayInv, MoveCursor PROVE DisplayInv'
<1>1. pc = 0 /\ Coming = 181 /\ setting \in 0 .. 6
  BY DEF MoveCursor, Coming, DisplayInv
<1>2. /\ ChipAt(181, chip, local, Wanted(setting)) /\ damaged = FALSE /\ font = Height(setting)
      /\ COLUMNS = TextMode(setting).cols /\ LINES = TextMode(setting).rows /\ cleared = COLUMNS * LINES
  BY <1>1 DEF DisplayInv
<1>3. COLUMNS \in {40, 80, 90} /\ LINES \in 1 .. 60
  BY <1>2, SizeIs
<1>4. PICK x \in {0, COLUMNS - 1}, y \in {0, LINES - 1} :
        LET number == Cell(x, y)
            c == Written(Written(chip, "crtc", "index", 14), "crtc", "data", (number \div 256) % 256)
        IN /\ chip' = Written(Written(c, "crtc", "index", 15), "crtc", "data", number % 256)
           /\ place' = <<x, y>>
  BY DEF MoveCursor
<1>5. UNCHANGED <<local, font, damaged, COLUMNS, LINES, setting, pc, cleared>>
  BY DEF MoveCursor
<1> DEFINE number == Cell(x, y)
           high == (number \div 256) % 256
           low == number % 256
           c == Written(Written(chip, "crtc", "index", 14), "crtc", "data", high)
           w == Wanted(setting)
<1>6. x \in 0 .. COLUMNS - 1 /\ y \in 0 .. LINES - 1 /\ number \in Int
  BY <1>3 DEF Cell
<1>7. high \in Int /\ low \in Int
  BY <1>6
<1>8. c = Written(Written(chip, "crtc", "index", 14), "crtc", "data", high)
      /\ chip' = Written(Written(c, "crtc", "index", 15), "crtc", "data", low)
  BY <1>4
<1>9. ChipAt(181, chip, local, w)
  BY <1>2
<1>10. Cell(x, y)' = number
  BY <1>5 DEF Cell
<1> HIDE DEF number, high, low, c, w
<1>11. ChipAt(181, c, local, w) /\ OnlyRegister(chip, c, 14, high)
  <2>1. 14 \in {14, 15}
    OBVIOUS
  <2> QED
    BY <1>7, <1>8, <1>9, <2>1, CursorGoes
<1>12. ChipAt(181, chip', local, w) /\ OnlyRegister(c, chip', 15, low)
  <2>1. 15 \in {14, 15} /\ 14 \in {14, 15} /\ 14 # 15
    OBVIOUS
  <2>2. ChipAt(181, c, local, w)
    BY <1>11
  <2> QED
    BY <1>7, <1>8, <2>1, <2>2, CursorGoes
<1>13. CursorPlaced'
  <2>1. place' = <<x, y>> /\ Crtc'[14] = high /\ Crtc'[15] = low
    BY <1>4, <1>11, <1>12 DEF Crtc, OnlyRegister
  <2>2. x \in 0 .. COLUMNS' - 1 /\ y \in 0 .. LINES' - 1
    BY <1>5, <1>6
  <2> QED
    BY <1>10, <2>1, <2>2 DEF CursorPlaced, high, low
<1>14. Coming' = 181 /\ pc' = 0
  BY <1>1, <1>5 DEF Coming
<1>15. ChipAt(Coming, chip, local, Wanted(setting))'
  BY <1>5, <1>12, <1>14 DEF w
<1> QED
  BY <1>1, <1>2, <1>5, <1>13, <1>14, <1>15 DEF DisplayInv

(***************************************************************************)
(* What set_text_mode has done at each of its 179 accesses, in every call, *)
(* from the firmware's mode 3 with the CRTC locked or not, its registers   *)
(* 16 and 17 readable or not and either turn of the attribute port, for    *)
(* every argument of tem; and what is so between the calls.                *)
(***************************************************************************)
THEOREM DisplayInvariant == DisplaySpec => []DisplayInv
<1>1. DisplayInv /\ [DisplayNext]_displayVars => DisplayInv'
  <2> SUFFICES ASSUME DisplayInv, [DisplayNext]_displayVars PROVE DisplayInv'
    OBVIOUS
  <2>1. CASE PrintNumber \/ UNCHANGED displayVars
    <3>1. UNCHANGED <<chip, local, font, damaged, COLUMNS, LINES, setting, pc, cleared, place>>
      BY <2>1, Zenon DEF PrintNumber, displayVars, commandVars, vgaVars
    <3> QED
      BY <3>1 DEF DisplayInv, Coming, CursorPlaced, Crtc, Cell
  <2> QED
    BY <2>1, GoKeeps, ClearScreenKeeps, ChangeModeKeeps, MoveCursorKeeps DEF DisplayNext
<1> QED
  BY <1>1, DisplayStarts, PTL DEF DisplaySpec

(***************************************************************************)
(* ModeIsProgrammed: when set_text_mode has returned every register holds  *)
(* the value of the table of its mode, in every mode.                      *)
(***************************************************************************)
THEOREM DisplayModeIsProgrammed == DisplaySpec => []ModeIsProgrammed
<1>1. DisplayInv => ModeIsProgrammed
  <2> SUFFICES ASSUME DisplayInv, pc = 0
               PROVE  LET wanted == Registers(TextMode(setting).regs)
                          free == [crtc |-> [i \in 0 .. 24 |-> IF i \in {14, 15} THEN Crtc[i]
                                                               ELSE StayUnlocked(wanted.crtc)[i]]]
                      IN /\ chip.regs = [wanted EXCEPT !.crtc = free.crtc]
                         /\ Has(chip.index.ac, 32)
    BY Zenon DEF ModeIsProgrammed
  <2> DEFINE w == Wanted(setting)
             r == chip.regs
             s == [i \in 0 .. 24 |-> IF i \in {14, 15} THEN Crtc[i] ELSE StayUnlocked(w.crtc)[i]]
  <2>1. ChipAt(181, chip, local, w)
    BY DEF DisplayInv, Coming
  <2>2. w \in RegisterSets /\ r \in RegisterSets
    BY <2>1, ModeFits DEF ChipAt, Chips
  <2>3. Registers(TextMode(setting).regs) = w
    BY DEF Wanted
  <2> HIDE DEF w
  <2>4. r.misc = w.misc
    <3>1. r.misc[0] = w.misc[0]
      BY <2>1 DEF ChipAt
    <3> QED
      BY <2>2, <3>1 DEF RegisterSets
  <2>5. r.seq = w.seq
    <3>1. \A k \in 0 .. 4 : r.seq[k] = w.seq[k]
      BY <2>1 DEF ChipAt, SeqAt
    <3> QED
      BY <2>2, <3>1 DEF RegisterSets
  <2>6. r.crtc = s
    <3>1. \A k \in 0 .. 24 : k \notin {14, 15} => r.crtc[k] = StayUnlocked(w.crtc)[k]
      BY <2>1 DEF ChipAt, CrtcAt
    <3>2. \A k \in 0 .. 24 : r.crtc[k] = s[k]
      BY <3>1 DEF Crtc
    <3> QED
      BY <2>2, <3>2 DEF RegisterSets
  <2>7. r.gc = w.gc
    <3>1. \A k \in 0 .. 8 : r.gc[k] = w.gc[k]
      BY <2>1 DEF ChipAt, GcAt
    <3> QED
      BY <2>2, <3>1 DEF RegisterSets
  <2>8. r.ac = w.ac /\ chip.index.ac = 32
    <3>1. (\A k \in 0 .. 20 : r.ac[k] = w.ac[k]) /\ chip.index.ac = 32
      BY <2>1 DEF ChipAt, AcAt
    <3> QED
      BY <2>2, <3>1 DEF RegisterSets
  <2>9. Has(32, 32)
    BY DEF Has
  <2>10. r = [w EXCEPT !.crtc = s]
    <3> HIDE DEF r, s
    <3> QED
      BY <2>2, <2>4, <2>5, <2>6, <2>7, <2>8 DEF RegisterSets
  <2> QED
    BY <2>3, <2>8, <2>9, <2>10
<1> QED
  BY <1>1, DisplayInvariant, PTL

(***************************************************************************)
(* GeometryAgrees: COLUMNS and LINES, the height of the font, what clrscr  *)
(* has cleared and the place of the cursor agree with what the registers   *)
(* make the VGA show, in every mode.                                       *)
(***************************************************************************)
THEOREM DisplayGeometryAgrees == DisplaySpec => []GeometryAgrees
<1>1. DisplayInv => GeometryAgrees
  <2> SUFFICES ASSUME DisplayInv, pc = 0 PROVE GeometryAgrees
    BY DEF GeometryAgrees
  <2> DEFINE m == TextMode(setting)
             w == Wanted(setting).crtc
             h == Height(setting)
  <2>1. ChipAt(181, chip, local, Wanted(setting))
    BY DEF DisplayInv, Coming
  <2>2. /\ font = h /\ COLUMNS = m.cols /\ LINES = m.rows
        /\ cleared = COLUMNS * LINES /\ (place # <<>> => CursorPlaced)
    BY DEF DisplayInv, Coming
  <2>3. COLUMNS \in {40, 80, 90} /\ LINES \in 1 .. 60 /\ h \in {8, 16}
    BY <2>2, SizeIs
  <2>4. /\ m.cols = w[1] + 1 /\ m.cols = w[19] * 2 /\ h = (w[9] % 32) + 1
        /\ m.rows * h = 1 + w[18] + (IF Has(w[7], 2) THEN 256 ELSE 0) + (IF Has(w[7], 64) THEN 512 ELSE 0)
        /\ w \in [0 .. 24 -> Int]
    BY ModeFits DEF Fits, Wanted, Height, RegisterSets
  <2>5. \A k \in {1, 7, 9, 18, 19} : Crtc[k] = w[k]
    <3>1. \A k \in 0 .. 24 : k \notin {14, 15} => Crtc[k] = StayUnlocked(w)[k]
      BY <2>1 DEF ChipAt, CrtcAt, Crtc
    <3>2. \A k \in {1, 7, 9, 18, 19} : StayUnlocked(w)[k] = w[k]
      BY <2>4 DEF StayUnlocked
    <3> QED
      BY <3>1, <3>2
  <2> HIDE DEF m, w, h
  <2>6. COLUMNS = ShownColumns /\ COLUMNS = RowOffset /\ CharHeight = h /\ LINES * h = ScanLines
    <3> DEFINE s == Crtc
    <3>1. s[1] = w[1] /\ s[7] = w[7] /\ s[9] = w[9] /\ s[18] = w[18] /\ s[19] = w[19]
      BY <2>5
    <3>2. /\ ShownColumns = s[1] + 1 /\ RowOffset = s[19] * 2 /\ CharHeight = (s[9] % 32) + 1
          /\ ScanLines = 1 + s[18] + (IF Has(s[7], 2) THEN 256 ELSE 0) + (IF Has(s[7], 64) THEN 512 ELSE 0)
      BY DEF ShownColumns, RowOffset, CharHeight, ScanLines
    <3> HIDE DEF s
    <3>3. COLUMNS = ShownColumns /\ COLUMNS = RowOffset
      BY <2>2, <2>4, <3>1, <3>2
    <3>4. CharHeight = h
      BY <2>4, <3>1, <3>2
    <3>5. ScanLines = m.rows * h
      BY <2>4, <3>1, <3>2
    <3>6. LINES * h = ScanLines
      BY <2>2, <3>5
    <3> QED
      BY <3>3, <3>4, <3>6
  <2>7. ScanLines \div CharHeight = LINES
    <3>1. CASE h = 8
      BY <2>3, <2>6, <3>1
    <3>2. CASE h = 16
      BY <2>3, <2>6, <3>2
    <3> QED
      BY <2>3, <3>1, <3>2
  <2>8. ASSUME place # <<>>
        PROVE  LET cell == 256 * Crtc[14] + Crtc[15] IN place = <<cell % ShownColumns, cell \div ShownColumns>>
    <3>1. PICK x \in 0 .. COLUMNS - 1, y \in 0 .. LINES - 1 :
            place = <<x, y>> /\ Crtc[14] = (Cell(x, y) \div 256) % 256 /\ Crtc[15] = Cell(x, y) % 256
      BY <2>2, <2>8 DEF CursorPlaced
    <3> DEFINE number == Cell(x, y)
    <3>2. IsCell(number, COLUMNS, x, y)
      BY <2>3 DEF Cell, IsCell
    <3> HIDE DEF number
    <3>3. number \in Nat /\ number < 65536 /\ number % COLUMNS = x /\ number \div COLUMNS = y
      BY <3>2, CellAt
    <3>4. 256 * Crtc[14] + Crtc[15] = number
      BY <3>1, <3>3, TwoBytes DEF number
    <3> QED
      BY <2>6, <3>1, <3>3, <3>4
  <2> QED
    BY <2>2, <2>6, <2>7, <2>8 DEF GeometryAgrees
<1> QED
  BY <1>1, DisplayInvariant, PTL

(***************************************************************************)
(* PlanesKeptApart: a font is only written to plane 2, and text only to    *)
(* planes 0 and 1, in every mode and after every sequence of modes.        *)
(***************************************************************************)
THEOREM DisplayPlanesKeptApart == DisplaySpec => []PlanesKeptApart
<1>1. DisplayInv => PlanesKeptApart
  BY DEF DisplayInv, PlanesKeptApart
<1> QED
  BY <1>1, DisplayInvariant, PTL

(***************************************************************************)
(* The numbers that module Display shows, for every width of the integers: *)
(* the text of a number reads back as this number, for every number that   *)
(* is shown with %d or %x and for those below half of the range with %u.   *)
(***************************************************************************)
THEOREM DisplayNumbersReadBack == DisplaySpec => []NumbersReadBack
<1>1. DisplayInit => NumbersReadBack
  BY DEF DisplayInit, NumbersReadBack
<1>2. NumbersReadBack /\ [DisplayNext]_displayVars => NumbersReadBack'
  <2> SUFFICES ASSUME NumbersReadBack, [DisplayNext]_displayVars
               PROVE  NumbersReadBack'
    OBVIOUS
  <2>1. CASE PrintNumber
    <3>1. PICK conversion \in {"%d", "%u", "%o", "%x"}, u \in 0 .. Word - 1 :
            shown' = <<conversion, u, Converted(conversion, u)>>
      BY <2>1 DEF PrintNumber
    <3> QED
      BY <3>1, ConvertedReadsBack DEF NumbersReadBack
  <2>2. CASE ChangeMode
    BY <2>2 DEF ChangeMode, NumbersReadBack
  <2>3. CASE Go \/ ClearScreen \/ MoveCursor \/ UNCHANGED displayVars
    <3>1. shown' = shown
      BY <2>3, Zenon DEF Go, ClearScreen, MoveCursor, displayVars, commandVars
    <3> QED
      BY <3>1 DEF NumbersReadBack
  <2> QED
    BY <2>1, <2>2, <2>3 DEF DisplayNext
<1> QED
  BY <1>1, <1>2, PTL DEF DisplaySpec
=============================================================================
