------------------------------ MODULE Console ------------------------------
(***************************************************************************)
(* The console of l_console.c: video memory, the window the CRT controller *)
(* shows, the cursor.  A position counts characters from MEM_ADDR_BASE;    *)
(* the attribute byte of a character is left out.  console_write runs with *)
(* interrupts off: the steps of a write follow each other.                 *)
(***************************************************************************)
EXTENDS Integers

CONSTANTS Width, Height, \* SCREEN_CHAR_WIDTH, SCREEN_CHAR_HEIGHT
          Cells,         \* MEM_ADDR_SIZE, in characters
          Blank,         \* CONSOLE_SPACE
          Letters        \* the characters that console_write stores

Cell == 0 .. (Cells - 1)
Screen == Height * Width
Char == Letters \cup {Blank}

\* The macro is twice what the screen takes: 25 * 2 * 160 bytes.
ScreenSizeMacro == 2 * Screen

ASSUME ScreenAssumption ==
  /\ Width \in Nat \ {0} /\ Height \in Nat \ {0} /\ Cells \in Nat
  /\ ScreenSizeMacro + Width < Cells
ASSUME CharsAssumption == Blank \notin Letters

VARIABLES
  screen_pos, cursor_pos, cursor_x, cursor_y, \* struct _console
  video,      \* video memory
  crt_start,  \* CRT_START_ADDR registers
  crt_cursor, \* CRT_CUSOR registers
  progress    \* "boot", "idle", or "write": inside console_write

position == <<screen_pos, cursor_pos, cursor_x, cursor_y>>
crt == <<crt_start, crt_cursor>>
screenVars == <<position, video, crt, progress>>

(* The struct is zero; its positions mean something once console_init has *)
(* run.  The memory and the registers are as the firmware left them.       *)
ScreenInit ==
  /\ screen_pos = 0 /\ cursor_pos = 0 /\ cursor_x = 0 /\ cursor_y = 0
  /\ \E ch \in Char : video = [c \in Cell |-> ch]
  /\ crt_start = 0 /\ crt_cursor \in {0, Width}
  /\ progress = "boot"

-----------------------------------------------------------------------------
(* The struct and the memory, as a record that the functions map to a      *)
(* record: console_lf and console_cr run one after the other in one step.  *)
Now == [screen |-> screen_pos, pos |-> cursor_pos, x |-> cursor_x, y |-> cursor_y,
        mem |-> video, start |-> crt_start, crt |-> crt_cursor]

UpdateCursor(s) == [s EXCEPT !.crt = s.pos]
UpdateScreen(s) == [s EXCEPT !.start = s.screen]

Cleared(mem, from) == [c \in Cell |-> IF c \in from .. (from + Width - 1) THEN Blank ELSE mem[c]]

\* Mutant: the test looks one screen ahead, not at the row cleared.
RoomBelowLate(s) == s.screen + Screen < Cells

RoomBelow(s) == s.screen + ScreenSizeMacro + Width < Cells

\* Mutant: no row is cleared.
ScrolledDirty(s) == [s EXCEPT !.screen = @ + Width, !.pos = @ + Width]

(* The window moves down a row; a row beyond it is cleared. *)
Scrolled(s) ==
  [s EXCEPT !.screen = @ + Width, !.pos = @ + Width,
            !.mem = Cleared(s.mem, s.screen + ScreenSizeMacro)]

\* Mutant: the cursor stays where it was in the old window.
RewoundStale(s) ==
  [s EXCEPT !.screen = 0,
            !.mem = [c \in Cell |-> IF c < ScreenSizeMacro THEN s.mem[s.screen + c]
                                    ELSE s.mem[c]]]

(* The window goes back to the start of memory with its contents; the row  *)
(* does not change.                                                        *)
Rewound(s) ==
  [s EXCEPT !.screen = 0, !.pos = @ - s.screen,
            !.mem = [c \in Cell |-> IF c < ScreenSizeMacro THEN s.mem[s.screen + c]
                                    ELSE s.mem[c]]]

ScrollUp(s) ==
  UpdateCursor(UpdateScreen(IF RoomBelow(s) THEN Scrolled(s) ELSE Rewound(s)))

ConsoleLf(s) ==
  IF s.y < Height - 1
  THEN UpdateCursor([s EXCEPT !.pos = @ + Width, !.y = @ + 1])
  ELSE ScrollUp(s)

ConsoleCr(s) == UpdateCursor([s EXCEPT !.pos = @ - s.x, !.x = 0])

ConsoleBs(s) ==
  IF s.x > 0
  THEN UpdateCursor([s EXCEPT !.pos = @ - 1, !.x = @ - 1,
                              !.mem = [s.mem EXCEPT ![s.pos - 1] = Blank]])
  ELSE s

\* Mutant: the row is full one character late.
WrappedLate(s) == IF s.x > Width THEN ConsoleLf(ConsoleCr(s)) ELSE s

(* A full row is left before the next character is stored. *)
Wrapped(s) == IF s.x >= Width THEN ConsoleLf(ConsoleCr(s)) ELSE s

Stored(s, ch) == [s EXCEPT !.mem = [s.mem EXCEPT ![s.pos] = ch], !.pos = @ + 1, !.x = @ + 1]

Become(s) ==
  /\ screen_pos' = s.screen /\ cursor_pos' = s.pos
  /\ cursor_x' = s.x /\ cursor_y' = s.y
  /\ video' = s.mem
  /\ crt_start' = s.start /\ crt_cursor' = s.crt

-----------------------------------------------------------------------------
(* console_write: one step for each kind of character, then the cursor.    *)

BeginWrite ==
  /\ progress = "idle"
  /\ progress' = "write"
  /\ UNCHANGED <<position, video, crt>>

Writing(s) == progress = "write" /\ Become(s) /\ UNCHANGED progress

WriteLf == Writing(ConsoleCr(ConsoleLf(Now)))

WriteBs == Writing(ConsoleBs(Now))

WriteChar(ch) == Writing(Stored(Wrapped(Now), ch))

\* Mutant: the registers keep the position of the last line feed.
EndWriteStale ==
  /\ progress = "write"
  /\ progress' = "idle"
  /\ UNCHANGED <<position, video, crt>>

EndWrite ==
  /\ progress = "write"
  /\ Become(UpdateCursor(Now))
  /\ progress' = "idle"

(* console_init: console_clear, then a first console_write.  console_clear *)
(* is called nowhere else; it leaves cursor_x and cursor_y alone.          *)
ConsoleInit ==
  /\ progress = "boot"
  /\ Become(UpdateCursor(UpdateScreen(
       [Now EXCEPT !.screen = 0, !.pos = 0, !.mem = [c \in Cell |-> Blank]])))
  /\ progress' = "write"

ScreenNext == \/ BeginWrite \/ WriteLf \/ WriteBs \/ EndWrite \/ ConsoleInit
        \/ \E ch \in Letters : WriteChar(ch)

ScreenSpec == ScreenInit /\ [][ScreenNext]_screenVars

-----------------------------------------------------------------------------
(* Type correctness; the coordinates are a uint8_t in the code, and x may  *)
(* be Width when a row is full.                                            *)
TypeOK ==
  /\ screen_pos \in Nat /\ cursor_pos \in Int
  /\ cursor_x \in 0 .. Width /\ cursor_y \in 0 .. (Height - 1)
  /\ video \in [Cell -> Char]
  /\ crt_start \in Nat /\ crt_cursor \in Int
  /\ progress \in {"boot", "idle", "write"}

(* The position and the coordinates of the cursor, which every operation   *)
(* updates separately, say the same thing: backspace and line feed test    *)
(* the coordinates and write at the position.                              *)
CursorCoherent == cursor_pos = screen_pos + cursor_y * Width + cursor_x

(* The window, and every cell that the next character, backspace, clearing *)
(* of a row or copy of the screen touches, are inside video memory.        *)
InVideoMemory ==
  /\ screen_pos + ScreenSizeMacro <= Cells
  /\ RoomBelow(Now) => screen_pos + ScreenSizeMacro + Width <= Cells
  /\ cursor_pos \in screen_pos .. (screen_pos + Screen)
  /\ cursor_x < Width => cursor_pos < screen_pos + Screen
  /\ cursor_x > 0 => cursor_pos > screen_pos

(* What the CRT controller shows is the window, always, and the position   *)
(* of the cursor whenever no write is under way.                           *)
RegistersCurrent ==
  /\ progress # "boot" => crt_start = screen_pos
  /\ progress = "idle" => crt_cursor = cursor_pos

(* The window shows a terminal, line feeds at the bottom of video memory   *)
(* excepted: every so many scrolls one is dropped, and nothing else is     *)
(* lost, duplicated or left over, whatever is written.                     *)
Display == [r \in 0 .. (Height - 1) |->
             [c \in 0 .. (Width - 1) |->
               IF progress = "boot" THEN Blank ELSE video[screen_pos + r * Width + c]]]
AsTerminal == INSTANCE Terminal WITH
  Space <- Blank, DropsFeed <- TRUE,
  Lap <- (Cells - ScreenSizeMacro - Width - 1) \div Width + 1,
  shown <- Display,
  x <- cursor_x, y <- cursor_y, moved <- screen_pos \div Width
ImplementsTerminal == AsTerminal!Spec

=============================================================================
