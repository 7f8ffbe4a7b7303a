-------------------------------- MODULE Console --------------------------------
(***************************************************************************)
(* The command line: putchar and clrscr on the text screen (conio.c), the  *)
(* line read by scanf("%256s", buffer), its division into arguments and    *)
(* the commands that print or change the screen (kcmd.c).  Nothing runs    *)
(* between two keys, so each key is one step.  Colours are left out, and a *)
(* message of the kernel is one character and the end of its line.         *)
(***************************************************************************)
EXTENDS Integers, Sequences, FiniteSets

CONSTANTS
  Printable,        \* printable characters that are typed, as codes; SPACE is one
  NMax,             \* the 256 of "%256s" and of char buffer[256]
  MaxArgs,          \* the 127 of "127 max"
  Modes,            \* text modes: a sequence of records of cols and lines
  CommandOf(_),     \* the command a first argument names
  ModeOf(_),        \* the number an argument of "tem" is read as
  Default,          \* the mode set_text_mode takes for a number that has none
  MaxEnters         \* bound: lines entered

SPACE == 32
NL == 10
BS == 8
MSG == 35           \* stands for the text of a message
prompt == <<NL, 48, 58, 62>>

(* The prompt and the longest line never fill the screen. *)
ASSUME ConsoleAssumption ==
  /\ SPACE \in Printable /\ Printable \subseteq 32..126
  /\ NMax \in Nat /\ MaxArgs \in Nat /\ MaxEnters \in Nat
  /\ Modes \in Seq([cols : Nat, lines : Nat]) /\ Default \in DOMAIN Modes
  /\ \A m \in DOMAIN Modes : 3 + NMax <= Modes[m].cols * (Modes[m].lines - 1)

VARIABLES
  screen,     \* COLUMNS, LINES, xpos, ypos, video and the hardware cursor
  buffer, n,  \* the line and how much of it scanf has stored
  argc,       \* also the byte behind buffer: its low half is buffer[256]
  argv,       \* the arguments parse_args found, as words
  code,       \* what parse_args returned
  entered,    \* history: the string scanf left in buffer
  enters      \* lines entered so far

vars == <<screen, buffer, n, argc, argv, code, entered, enters>>
-----------------------------------------------------------------------------
(* The screen.  video has one cell for each character.                     *)

clrscr(s) == [s EXCEPT !.x = 0, !.y = 0, !.video = [i \in 0..(s.cols * s.lines - 1) |-> SPACE]]

vga_text_scrollup(s) ==
  [s EXCEPT !.video = [i \in DOMAIN s.video |->
                         IF i + s.cols \in DOMAIN s.video THEN s.video[i + s.cols] ELSE SPACE]]

cursor(s) == [s EXCEPT !.cursor = s.y * s.cols + s.x]

Newline(s) ==
  LET down == [s EXCEPT !.x = 0, !.y = s.y + 1] IN
  cursor(IF down.y >= s.lines THEN [vga_text_scrollup(down) EXCEPT !.y = s.y] ELSE down)

Erased(s) == [s EXCEPT !.video[s.y * s.cols + s.x] = SPACE]

(* Mutant of Backspace: it stops at the left margin. *)
BackspaceInLine(s) == IF s.x = 0 THEN s ELSE Erased(cursor([s EXCEPT !.x = s.x - 1]))

Backspace(s) ==
  IF s.x > 0 THEN Erased(cursor([s EXCEPT !.x = s.x - 1]))
  ELSE IF s.y > 0 THEN Erased(cursor([s EXCEPT !.x = s.cols - 1, !.y = s.y - 1]))
  ELSE s

Show(s, c) ==
  LET shown == [s EXCEPT !.video[s.y * s.cols + s.x] = c, !.x = s.x + 1] IN
  IF shown.x >= s.cols THEN Newline(shown) ELSE cursor(shown)

putchar(s, c) == IF c = NL THEN Newline(s) ELSE IF c = BS THEN Backspace(s) ELSE Show(s, c)

printf(s, text) ==
  LET after[i \in 0 .. Len(text)] == IF i = 0 THEN s ELSE putchar(after[i - 1], text[i])
  IN after[Len(text)]

(* Mutant of tem: the screen is not cleared in the new mode. *)
tem_NoClear(s, m) ==
  LET mode == IF m \in DOMAIN Modes THEN Modes[m] ELSE Modes[Default] IN
  [s EXCEPT !.cols = mode.cols, !.lines = mode.lines]

(* The command "tem": set_text_mode, clrscr and a message. *)
tem(s, m) ==
  LET mode == IF m \in DOMAIN Modes THEN Modes[m] ELSE Modes[Default] IN
  printf(clrscr([s EXCEPT !.cols = mode.cols, !.lines = mode.lines]), <<MSG, NL>>)
-----------------------------------------------------------------------------
(* parse_args on the bytes of mem; behind them lies argc.                  *)

Byte(mem, count, i) == IF i < NMax THEN mem[i] ELSE IF i = NMax THEN count ELSE 0

SkipSpaces(mem, count, i) == CHOOSE j \in i..(NMax + 1) :
  Byte(mem, count, j) # SPACE /\ \A k \in i..(j - 1) : Byte(mem, count, k) = SPACE

(* *(buffer - 1) = 0, where buffer - 1 may be the byte of argc. *)
Cut(s) == IF s.at < NMax THEN [s EXCEPT !.mem[s.at] = 0] ELSE [s EXCEPT !.starts = <<>>]

(* Mutant of BufferEnds: the comparison comes before the position is passed. *)
BufferEnds_Late(at) == at = NMax

(* buffer == tmp + 256, when the byte at the position has been passed. *)
BufferEnds(at) == at + 1 = NMax

(* One pass of the loop of parse_args at position at, starts being the     *)
(* positions argv points at.                                               *)
Pass(s) ==
  LET byte == Byte(s.mem, Len(s.starts), s.at)
      cut == Cut(s)
      next == SkipSpaces(cut.mem, Len(cut.starts), s.at + 1)
  IN IF byte = 0 THEN [s EXCEPT !.code = "ok"]
     ELSE IF byte # SPACE THEN [s EXCEPT !.at = s.at + 1]
     ELSE IF BufferEnds(s.at) THEN [cut EXCEPT !.code = "ok"]
     ELSE IF Len(cut.starts) > MaxArgs THEN [cut EXCEPT !.code = "too many"]
     ELSE IF Byte(cut.mem, Len(cut.starts), next) = 0 THEN [cut EXCEPT !.code = "ok"]
     ELSE [cut EXCEPT !.starts = Append(@, next), !.at = next]

(* Each pass goes on by a byte at least: there are no more than NMax + 2.  *)
parse_args(mem) ==
  LET first == SkipSpaces(mem, 0, 0)
      after[k \in 0 .. NMax + 2] ==
        IF k = 0 THEN [code |-> "running", mem |-> mem, starts |-> <<first>>, at |-> first]
        ELSE LET s == after[k - 1] IN IF s.code = "running" THEN Pass(s) ELSE s
  IN IF Byte(mem, 0, first) = 0
       THEN [code |-> "ok", mem |-> mem, starts |-> <<>>, at |-> first]
       ELSE after[NMax + 2]

(* The string at position i of mem. *)
String(mem, count, i) ==
  LET end == CHOOSE j \in i..(NMax + 1) :
               Byte(mem, count, j) = 0 /\ \A k \in i..(j - 1) : Byte(mem, count, k) # 0
  IN [k \in 1..(end - i) |-> Byte(mem, count, i + k - 1)]

(* kexec_cmd: what the commands do to the screen. *)
echo(words) ==
  LET upTo[i \in 1 .. Len(words)] ==
        IF i = 1 THEN words[1] ELSE upTo[i - 1] \o <<SPACE>> \o words[i]
  IN upTo[Len(words)]

kexec_cmd(s, words) ==
  IF words = <<>> THEN s
  ELSE LET below == printf(s, <<NL>>)
           command == CommandOf(words[1])
           message == printf(below, <<MSG, NL>>)
       IN CASE command = "cls" /\ Len(words) = 1 -> clrscr(below)
            [] command = "tem" /\ Len(words) = 2 -> tem(below, ModeOf(words[2]))
            [] command = "echo" -> IF Len(words) = 1 THEN below
                                   ELSE printf(below, echo(Tail(words)))
            [] command = "quiet" -> below    \* "clr", "sleep"
            [] OTHER -> message              \* "ver", and the errors
-----------------------------------------------------------------------------
(* The keys scanf waits for. *)

Type(c) ==
  /\ n < NMax
  /\ buffer' = [buffer EXCEPT ![n] = c]
  /\ n' = n + 1
  /\ screen' = putchar(screen, c)
  /\ UNCHANGED <<argc, argv, code, entered, enters>>

(* Mutant of Terminated: no terminator is stored. *)
NotTerminated(mem, at) == mem

(* *(s + n) = 0, where n may be NMax: the byte is not the buffer's. *)
Terminated(mem, at) == IF at < NMax THEN [mem EXCEPT ![at] = 0] ELSE mem

(* The byte behind the last character is cleared, and the character stays. *)
Erase ==
  /\ n > 0
  /\ buffer' = IF n < NMax THEN [buffer EXCEPT ![n] = 0] ELSE buffer
  /\ argc' = IF n = NMax THEN 0 ELSE argc
  /\ n' = n - 1
  /\ screen' = putchar(screen, BS)
  /\ UNCHANGED <<argv, code, entered, enters>>

Enter ==
  /\ enters < MaxEnters
  /\ enters' = enters + 1
  /\ LET line == Terminated(buffer, n)
         behind == IF n = NMax THEN 0 ELSE argc
         parsed == parse_args(line)
     IN /\ entered' = String(line, behind, 0)
        /\ code' = parsed.code
        /\ argc' = Len(parsed.starts)
        /\ buffer' = parsed.mem
        /\ argv' = [i \in DOMAIN parsed.starts |->
                      String(parsed.mem, Len(parsed.starts), parsed.starts[i])]
        /\ screen' = printf(IF code' = "ok" THEN kexec_cmd(screen, argv')
                            ELSE printf(screen, <<MSG, NL>>), prompt)
  /\ n' = 0

(* After startup: "Kernel command line" and the first prompt. *)
Init ==
  /\ LET s == [cols |-> Modes[1].cols, lines |-> Modes[1].lines, x |-> 0, y |-> 0,
               video |-> <<>>, cursor |-> 0]
     IN screen = printf(clrscr(s), <<MSG, NL>> \o prompt)
  /\ buffer = [i \in 0..(NMax - 1) |-> 0] /\ n = 0
  /\ argc = 0 /\ argv = <<>> /\ code = "ok"
  /\ entered = <<>> /\ enters = 0

Next == (\E c \in Printable : Type(c)) \/ Erase \/ Enter

Spec == Init /\ [][Next]_vars
-----------------------------------------------------------------------------
Line == [i \in 1..n |-> buffer[i - 1]]

Place == screen.y * screen.cols + screen.x

(***************************************************************************)
(* scanf hands over the line the user edited: an implementation of         *)
(* LineEditor, where the line is the first n bytes of buffer and what was  *)
(* entered is the string found there.                                      *)
(***************************************************************************)
Editor == INSTANCE LineEditor WITH line <- Line
EditorSpec == Editor!Spec

(***************************************************************************)
(* What the user sees is what is stored: the characters before the cursor  *)
(* spell the line, across the wrap of a long line, the scrolling of the    *)
(* screen and the erasing of characters of the line above.                 *)
(***************************************************************************)
SeenIsStored == \A i \in 1..n : screen.video[Place - n + i - 1] = Line[i]

(***************************************************************************)
(* The next character goes to a cell of the screen, where the hardware     *)
(* cursor blinks: also after a change to a mode with fewer lines.          *)
(***************************************************************************)
OnScreen ==
  /\ screen.x \in 0..(screen.cols - 1) /\ screen.y \in 0..(screen.lines - 1)
  /\ screen.cursor = Place

(* The words of a line: its longest runs of characters that are not spaces. *)
Starts(line) == {i \in 1..Len(line) : line[i] # SPACE /\ (i = 1 \/ line[i - 1] = SPACE)}

WordAt(line, i) ==
  LET end == CHOOSE j \in i..Len(line) :
               (\A k \in i..j : line[k] # SPACE) /\ (j < Len(line) => line[j + 1] = SPACE)
  IN SubSeq(line, i, end)

AreWords(words, line) ==
  \E starts \in [DOMAIN words -> Starts(line)] :
    /\ Starts(line) = {starts[w] : w \in DOMAIN words}
    /\ \A v, w \in DOMAIN words : v < w => starts[v] < starts[w]
    /\ \A w \in DOMAIN words : words[w] = WordAt(line, starts[w])

(***************************************************************************)
(* A line that fills the buffer up to a word, or to a second space after   *)
(* one: parse_args ends neither at a terminator, which such a line has     *)
(* not, nor by its test for the end of the buffer.  It reads on in argc.   *)
(***************************************************************************)
Overruns(line) ==
  /\ Len(line) = NMax
  /\ \E i \in 1..NMax : line[i] # SPACE
  /\ line[NMax] # SPACE \/ line[NMax - 1] = SPACE

(***************************************************************************)
(* What parse_args hands to kexec_cmd are the words of the line that was   *)
(* entered, all of them and in their order; what it refuses has more than  *)
(* MaxArgs words.  So it is for every line that Overruns does not name,    *)
(* also for one that fills the buffer up to a single space.  In no case    *)
(* are there more arguments than char *argv[128] has room for, one more    *)
(* than MaxArgs.                                                           *)
(***************************************************************************)
ArgsAreWords ==
  /\ Len(argv) <= MaxArgs + 1
  /\ ~Overruns(entered) =>
       IF code = "ok" THEN AreWords(argv, entered) ELSE Cardinality(Starts(entered)) > MaxArgs

=============================================================================
